------------------------- MODULE SemanticChangeProofs -------------------------
(***************************************************************************)
(* The properties of the semantic change loop, proved for all trees,       *)
(* proposals, processes and bounds.                                        *)
(***************************************************************************)
EXTENDS SemanticChange, SemanticGraphProofs

-----------------------------------------------------------------------------
(* ApplyChanges and the snapshots. *)

Changes(p) == Plan[p].changes

LEMMA ChangesTyped ==
  ASSUME NEW p \in Proposals
  PROVE  /\ Len(Changes(p)) \in Nat /\ DOMAIN Changes(p) = 1..Len(Changes(p))
         /\ \A n \in 1..Len(Changes(p)) :
              /\ Changes(p)[n].path \in Paths
              /\ Changes(p)[n].kind \in {"replace_text", "add_file", "delete_file"}
              /\ Changes(p)[n].kind = "replace_text" => Changes(p)[n].new \in Seq(Tokens)
              /\ Changes(p)[n].kind = "add_file" => Changes(p)[n].content \in Seq(Tokens)
<1>1. Changes(p) \in Seq(ToSet(Changes(p)))
  BY ChangeAssumption DEF Changes
<1>2. \A n \in DOMAIN Changes(p) : Changes(p)[n] \in ToSet(Changes(p))
  BY DEF ToSet
<1>3. \A c \in ToSet(Changes(p)) :
        /\ c.path \in Paths /\ c.kind \in {"replace_text", "add_file", "delete_file"}
        /\ c.kind = "replace_text" => c.new \in Seq(Tokens)
        /\ c.kind = "add_file" => c.content \in Seq(Tokens)
  BY ChangeAssumption DEF ValidateProposal, Changes
<1>4. Len(Changes(p)) \in Nat /\ DOMAIN Changes(p) = 1..Len(Changes(p))
  BY <1>1
<1> QED
  BY <1>2, <1>3, <1>4

(* A change that applies leaves a tree, and every other path alone. *)
LEMMA MutatedTyped ==
  ASSUME NEW p \in Proposals, NEW n \in 1..Len(Changes(p)), NEW t \in Trees,
         Applicable(t, Changes(p)[n])
  PROVE  /\ Mutated(t, Changes(p)[n]) \in Trees
         /\ \A f \in Paths : f # Changes(p)[n].path => Mutated(t, Changes(p)[n])[f] = t[f]
<1> DEFINE c == Changes(p)[n]
           after == CASE c.kind = "replace_text" -> Replaced(t[c.path], c.old, c.new)
                      [] c.kind = "add_file"     -> c.content
                      [] c.kind = "delete_file"  -> Absent
<1>1. /\ c.path \in Paths /\ c.kind \in {"replace_text", "add_file", "delete_file"}
      /\ c.kind = "replace_text" => c.new \in Seq(Tokens)
      /\ c.kind = "add_file" => c.content \in Seq(Tokens)
  BY ChangesTyped
<1>2. t[c.path] \in Texts /\ DOMAIN t = Paths
  BY <1>1 DEF Trees
<1> HIDE DEF c
<1>3. after \in Texts
  <2>1. CASE c.kind = "replace_text"
    <3>1. t[c.path] # Absent /\ Cardinality(Occurrences(t[c.path], c.old)) = 1
      BY <2>1 DEF Applicable, c
    <3>2. t[c.path] \in Seq(Tokens)
      BY <1>2, <3>1 DEF Texts
    <3>3. Occurrences(t[c.path], c.old) # {}
      <4> DEFINE o == Occurrences(t[c.path], c.old)
      <4>1. Cardinality({}) = 0
        BY FS_EmptySet
      <4>2. Cardinality(o) = 1
        BY <3>1
      <4> HIDE DEF o
      <4>3. o # {}
        BY <4>1, <4>2
      <4> QED
        BY <4>3 DEF o
    <3> DEFINE i == CHOOSE i \in DOMAIN t[c.path] : t[c.path][i] = c.old
    <3>4. i \in DOMAIN t[c.path]
      BY <3>3 DEF Occurrences
    <3> HIDE DEF i
    <3>5. SubSeq(t[c.path], 1, i - 1) \o c.new \o SubSeq(t[c.path], i + 1, Len(t[c.path]))
            \in Seq(Tokens)
      BY <1>1, <2>1, <3>2, <3>4
    <3>6. Replaced(t[c.path], c.old, c.new) \in Seq(Tokens)
      BY <3>5 DEF Replaced, i
    <3> QED
      BY <2>1, <3>6 DEF Texts
  <2>2. CASE c.kind = "add_file"
    BY <1>1, <2>2 DEF Texts
  <2>3. CASE c.kind = "delete_file"
    BY <2>3 DEF Texts
  <2> QED
    BY <1>1, <2>1, <2>2, <2>3
<1>4. Mutated(t, c) = [t EXCEPT ![c.path] = after]
  BY DEF Mutated
<1> HIDE DEF after
<1>5. Mutated(t, c) \in Trees
  BY <1>2, <1>3, <1>4 DEF Trees
<1>6. \A f \in Paths : f # c.path => Mutated(t, c)[f] = t[f]
  BY <1>2, <1>4
<1> QED
  BY <1>5, <1>6 DEF c

(* steps are the trees that the changes of p lead through from t, one      *)
(* after the other.                                                        *)
Through(steps, t, p) ==
  /\ steps \in [0..Len(Changes(p)) -> Trees \cup {Absent}]
  /\ steps[0] = t
  /\ \A n \in 1..Len(Changes(p)) :
       steps[n] = IF steps[n - 1] # Absent /\ Applicable(steps[n - 1], Changes(p)[n])
                  THEN Mutated(steps[n - 1], Changes(p)[n]) ELSE Absent

LEMMA AppliedThrough ==
  ASSUME NEW p \in Proposals, NEW t \in Trees
  PROVE  Through(ApplyChanges(t, Changes(p)), t, p)
<1> DEFINE m == Len(Changes(p))
           D == Trees \cup {Absent}
           after(n, u) == IF u # Absent /\ Applicable(u, Changes(p)[n])
                          THEN Mutated(u, Changes(p)[n]) ELSE Absent
           step == [x \in Nat \X D |-> IF x[1] \in 1..m THEN after(x[1], x[2]) ELSE Absent]
           Equation(f) == f = [n \in 0..m |-> IF n = 0 THEN t ELSE after(n, f[n - 1])]
<1>1. m \in Nat
  BY ChangesTyped
<1>2. \A n \in 1..m, u \in D : after(n, u) \in D
  BY MutatedTyped
<1>3. step \in [Nat \X D -> D]
  <2> HIDE DEF after, m
  <2> QED
    BY <1>2
<1>4. \A n \in 1..m, u \in D : step[<<n, u>>] = after(n, u)
  <2> HIDE DEF after, m
  <2> QED
    BY <1>1
<1>5. PICK f \in [0..m -> D] : Follows(f, t, step, m)
  <2> HIDE DEF step, m
  <2>1. t \in D
    OBVIOUS
  <2> HIDE DEF D
  <2> QED
    BY <1>1, <1>3, <2>1, Recursion
<1> HIDE DEF step, after, m
<1>6. \A n \in 0..m : f[n] = IF n = 0 THEN t ELSE after(n, f[n - 1])
  <2> TAKE n \in 0..m
  <2>1. n # 0 => n - 1 \in 0..m /\ n \in 1..m
    BY <1>1
  <2>2. n # 0 => f[n - 1] \in D
    BY <2>1
  <2>3. n # 0 => f[n] = step[<<n, f[n - 1]>>]
    BY <1>5, <2>1 DEF Follows
  <2>4. f[0] = t
    BY <1>5 DEF Follows
  <2> QED
    BY <1>4, <2>1, <2>2, <2>3, <2>4
<1>7. Equation(f)
  <2>1. f = [n \in 0..m |-> f[n]]
    OBVIOUS
  <2> QED
    BY <1>6, <2>1, Zenon
<1> DEFINE steps == ApplyChanges(t, Changes(p))
<1>8. Equation(steps)
  <2>1. steps = CHOOSE g : Equation(g)
    BY Zenon DEF ApplyChanges, after, m
  <2> HIDE DEF Equation, steps
  <2> QED
    BY <1>7, <2>1, Zenon
<1> HIDE DEF steps
<1>9. \A n \in 0..m : steps[n] = IF n = 0 THEN t ELSE after(n, steps[n - 1])
  BY <1>8
<1>10. steps[0] = t /\ \A n \in 1..m : steps[n] = after(n, steps[n - 1])
  <2>1. 0 \in 0..m /\ \A n \in 1..m : n \in 0..m /\ n # 0
    BY <1>1
  <2> QED
    BY <1>9, <2>1
<1>11. \A n \in 0..m : steps[n] \in D
  <2> DEFINE S == {n \in Nat : n <= m => steps[n] \in D}
  <2>1. 0 \in S
    BY <1>10
  <2>2. ASSUME NEW n \in Nat, n \in S PROVE n + 1 \in S
    <3> SUFFICES ASSUME n + 1 <= m PROVE steps[n + 1] \in D
      OBVIOUS
    <3>1. n + 1 \in 1..m /\ (n + 1) - 1 = n /\ steps[n] \in D
      BY <1>1, <2>2
    <3> QED
      BY <1>2, <1>10, <3>1
  <2>3. Nat \subseteq S
    <3> HIDE DEF S
    <3> QED
      BY <2>1, <2>2, Inductive
  <2> QED
    BY <1>1, <2>3
<1>12. steps \in [0..m -> D]
  BY <1>8, <1>11
<1> QED
  BY <1>10, <1>12 DEF Through, steps, after, m

(* No step touches a path that the changes do not name. *)
LEMMA OnlyNamedChange ==
  ASSUME NEW p \in Proposals, NEW t \in Trees, NEW steps, Through(steps, t, p),
         NEW f \in Paths, \A i \in 1..Len(Changes(p)) : Changes(p)[i].path # f
  PROVE  \A n \in 0..Len(Changes(p)) : steps[n] # Absent => steps[n][f] = t[f]
<1> DEFINE m == Len(Changes(p))
           S == {n \in Nat : n <= m /\ steps[n] # Absent => steps[n][f] = t[f]}
<1>1. m \in Nat
  BY ChangesTyped
<1>2. 0 \in S
  BY DEF Through
<1>3. ASSUME NEW n \in Nat, n \in S PROVE n + 1 \in S
  <2> SUFFICES ASSUME n + 1 <= m, steps[n + 1] # Absent PROVE steps[n + 1][f] = t[f]
    OBVIOUS
  <2>1. n + 1 \in 1..m /\ (n + 1) - 1 = n /\ n \in 0..m
    BY <1>1
  <2>2. /\ steps[n] # Absent /\ Applicable(steps[n], Changes(p)[n + 1])
        /\ steps[n + 1] = Mutated(steps[n], Changes(p)[n + 1])
    BY <2>1 DEF Through
  <2>3. steps[n] \in Trees
    BY <2>1, <2>2 DEF Through
  <2>4. steps[n + 1][f] = steps[n][f]
    BY <2>1, <2>2, <2>3, MutatedTyped
  <2>5. steps[n][f] = t[f]
    BY <1>1, <1>3, <2>1, <2>2
  <2> QED
    BY <2>4, <2>5
<1>4. Nat \subseteq S
  <2> HIDE DEF S
  <2> QED
    BY <1>2, <1>3, Inductive
<1> QED
  BY <1>1, <1>4

(* The snapshots hold what the tree holds of every path that is named.     *)
Snapshots(t) == Seq({[path |-> f, text |-> t[f]] : f \in Paths})

Saves(saved, p, t) ==
  /\ saved \in Snapshots(t)
  /\ \A i \in 1..Len(Changes(p)) :
       \E k \in DOMAIN saved : saved[k].path = Changes(p)[i].path

LEMMA SnapshotsSave ==
  ASSUME NEW p \in Proposals, NEW t \in Trees
  PROVE  Saves(SnapshotsOf(t, Changes(p))[Len(Changes(p))], p, t)
<1> DEFINE m == Len(Changes(p))
           D == Snapshots(t)
           entry(n) == [path |-> Changes(p)[n].path, text |-> t[Changes(p)[n].path]]
           again(n) == \E i \in 1..(n - 1) : Changes(p)[i].path = Changes(p)[n].path
           after(n, s) == IF again(n) THEN s ELSE Append(s, entry(n))
           step == [x \in Nat \X D |-> IF x[1] \in 1..m THEN after(x[1], x[2]) ELSE <<>>]
           Equation(g) == g = [n \in 0..m |-> IF n = 0 THEN <<>> ELSE after(n, g[n - 1])]
<1>1. m \in Nat
  BY ChangesTyped
<1>2. \A n \in 1..m : entry(n) \in {[path |-> f, text |-> t[f]] : f \in Paths}
  BY ChangesTyped
<1>3. \A n \in 1..m, s \in D : after(n, s) \in D
  <2> HIDE DEF entry, again, m
  <2> QED
    BY <1>2 DEF Snapshots
<1>4. <<>> \in D
  BY DEF Snapshots
<1>5. step \in [Nat \X D -> D]
  <2> HIDE DEF after, m, D
  <2> QED
    BY <1>3, <1>4
<1>6. \A n \in 1..m, s \in D : step[<<n, s>>] = after(n, s)
  <2> HIDE DEF after, m
  <2> QED
    BY <1>1
<1>7. PICK f \in [0..m -> D] : Follows(f, <<>>, step, m)
  <2>1. PICK a : a = <<>>
    OBVIOUS
  <2>2. a \in D
    BY <1>4, <2>1
  <2> HIDE DEF step, m, D
  <2>3. \E f \in [0..m -> D] : Follows(f, a, step, m)
    BY <1>1, <1>5, <2>2, Recursion
  <2> QED
    BY <2>1, <2>3, Zenon
<1> HIDE DEF step, after, m, D
<1>8. \A n \in 0..m : f[n] = IF n = 0 THEN <<>> ELSE after(n, f[n - 1])
  <2> TAKE n \in 0..m
  <2>1. n # 0 => n - 1 \in 0..m /\ n \in 1..m
    BY <1>1
  <2>2. n # 0 => f[n - 1] \in D
    BY <2>1
  <2>3. n # 0 => f[n] = step[<<n, f[n - 1]>>]
    BY <1>7, <2>1 DEF Follows
  <2>4. f[0] = <<>>
    BY <1>7 DEF Follows
  <2> QED
    BY <1>6, <2>1, <2>2, <2>3, <2>4
<1>9. Equation(f)
  <2>1. f = [n \in 0..m |-> f[n]]
    OBVIOUS
  <2> QED
    BY <1>8, <2>1, Zenon
<1> DEFINE upTo == SnapshotsOf(t, Changes(p))
<1>10. Equation(upTo)
  <2>1. upTo = CHOOSE g : Equation(g)
    BY Zenon DEF SnapshotsOf, after, m
  <2> HIDE DEF Equation, upTo
  <2> QED
    BY <1>9, <2>1, Zenon
<1> HIDE DEF upTo
<1>11. \A n \in 0..m : upTo[n] = IF n = 0 THEN <<>> ELSE after(n, upTo[n - 1])
  BY <1>10
<1> DEFINE Covers(s, n) == \A i \in 1..n : \E k \in DOMAIN s : s[k].path = Changes(p)[i].path
           S == {n \in Nat : n <= m => upTo[n] \in D /\ Covers(upTo[n], n)}
<1>12. 0 \in S
  <2>1. upTo[0] = <<>>
    <3>1. 0 \in 0..m
      BY <1>1
    <3> QED
      BY <1>11, <3>1
  <2>2. Covers(upTo[0], 0)
    OBVIOUS
  <2> QED
    BY <1>4, <2>1, <2>2
<1>13. ASSUME NEW n \in Nat, n \in S PROVE n + 1 \in S
  <2> SUFFICES ASSUME n + 1 <= m PROVE upTo[n + 1] \in D /\ Covers(upTo[n + 1], n + 1)
    OBVIOUS
  <2>1. n + 1 \in 1..m /\ n + 1 \in 0..m /\ n + 1 # 0 /\ (n + 1) - 1 = n /\ n <= m
    BY <1>1
  <2>2. upTo[n] \in D /\ Covers(upTo[n], n)
    BY <1>13, <2>1
  <2>3. upTo[n + 1] = after(n + 1, upTo[n])
    BY <1>11, <2>1
  <2>4. upTo[n + 1] \in D
    BY <1>3, <2>1, <2>2, <2>3
  <2>5. CASE again(n + 1)
    <3>1. upTo[n + 1] = upTo[n]
      BY <2>3, <2>5 DEF after
    <3>2. PICK i \in 1..n : Changes(p)[i].path = Changes(p)[n + 1].path
      BY <2>1, <2>5
    <3>3. Covers(upTo[n], n + 1)
      BY <2>2, <3>2
    <3> QED
      BY <2>4, <3>1, <3>3
  <2>6. CASE ~ again(n + 1)
    <3>1. upTo[n + 1] = Append(upTo[n], entry(n + 1))
      BY <2>3, <2>6 DEF after
    <3>2. upTo[n] \in Seq({[path |-> f1, text |-> t[f1]] : f1 \in Paths})
      BY <2>2 DEF D, Snapshots
    <3>3. PICK e : e = entry(n + 1)
      OBVIOUS
    <3>4. e.path = Changes(p)[n + 1].path
      BY <3>3
    <3> HIDE DEF entry
    <3>5. /\ Len(upTo[n]) \in Nat /\ DOMAIN upTo[n] = 1..Len(upTo[n])
          /\ DOMAIN upTo[n + 1] = 1..(Len(upTo[n]) + 1)
          /\ \A k \in DOMAIN upTo[n] : upTo[n + 1][k] = upTo[n][k]
          /\ upTo[n + 1][Len(upTo[n]) + 1] = e
      <4> HIDE DEF upTo
      <4> QED
        BY <3>1, <3>2, <3>3
    <3>6. Covers(upTo[n + 1], n + 1)
      <4> SUFFICES ASSUME NEW i \in 1..(n + 1)
                   PROVE  \E k \in DOMAIN upTo[n + 1] : upTo[n + 1][k].path = Changes(p)[i].path
        OBVIOUS
      <4>1. CASE i = n + 1
        BY <3>4, <3>5, <4>1
      <4>2. CASE i # n + 1
        <5>1. i \in 1..n
          BY <4>2
        <5>2. PICK k \in DOMAIN upTo[n] : upTo[n][k].path = Changes(p)[i].path
          BY <2>2, <5>1
        <5>3. k \in DOMAIN upTo[n + 1] /\ upTo[n + 1][k] = upTo[n][k]
          BY <3>5
        <5> QED
          BY <5>2, <5>3
      <4> QED
        BY <4>1, <4>2
    <3> QED
      BY <2>4, <3>6
  <2> QED
    BY <2>5, <2>6
<1>14. Nat \subseteq S
  <2> HIDE DEF S
  <2> QED
    BY <1>12, <1>13, Inductive
<1>15. upTo[m] \in D /\ Covers(upTo[m], m)
  BY <1>1, <1>14
<1> QED
  BY <1>15 DEF Saves, upTo, m, D

-----------------------------------------------------------------------------
(* The inductive invariant: the types, and what each process has in hand.  *)

Graphs == {Build(t) : t \in Trees}
Candidates == UNION {{CandidateOf(p, g) : g \in Graphs} : p \in Proposals}
Snapshot == [path : Paths, text : Texts]

Accepting == {"restage", "snapshot", "apply", "record", "restore"}
Ats == {"idle", "copy", "write", "load", "graph"} \cup Accepting
Ends == {"none", "staged", "written", "refused", "restored", "unrecorded", "accepted", "killed"}

Job == [at : Ats, p : Proposals \cup {None}, token : Proposals \cup {None},
        c : Candidates \cup Graphs \cup {None}, n : Nat,
        saved : Seq(Snapshot) \cup {None}, end : Ends]

InHand(j) == j.p \in Proposals /\ j.c \in Candidates /\ j.c.proposal = j.p

Ready(j) ==
  /\ j.at # "idle" => j.end = "none"
  /\ j.at \in {"copy", "snapshot"} => j.n = 0
  /\ j.at = "copy" => j.p \in Proposals
  /\ j.at = "write" => InHand(j) /\ j.n \in 0..2
  /\ j.at = "load" => j.token \in Proposals /\ j.p = None
  /\ j.at \in Accepting \/ j.end = "accepted" => InHand(j) /\ j.c.eligible
  /\ j.at = "apply" => j.saved \in Seq(Snapshot) /\ j.n \in 0..Len(Changes(j.p))
  /\ j.at = "restore" => j.saved \in Seq(Snapshot) /\ j.n \in 0..Len(j.saved)
  /\ j.at = "graph" => j.p = None /\ j.c \in Graphs /\ j.n \in 0..5

(* What each file of lines has, all of them or a cut. *)
LinesTyped(k) ==
  k = [f \in LineFiles |-> k[f]] /\ \A f \in LineFiles : k[f] \in {Whole} \cup Cuts[f]

Shaped ==
  /\ tree \in Trees /\ origin \in [Procs -> Trees]
  /\ dir \in [proposal : Proposals \cup {None}, candidate : Candidates \cup {None},
              graph : Graphs \cup {None}]
  /\ out \in [ToSet(GraphFiles) -> Graphs \cup {None}]
  /\ job \in [Procs -> Job]
  /\ disturbed \in [Procs -> BOOLEAN] /\ restaged \in [Procs -> BOOLEAN]
  /\ LinesTyped(kept) /\ overlap \in BOOLEAN /\ mixed \in BOOLEAN
  /\ accepted \subseteq Proposals

Counted ==
  /\ session \in Sessions
  /\ runs \in 0..MaxRuns /\ edits \in 0..MaxEdits /\ faults \in 0..MaxFaults

Typed == Shaped /\ \A q \in Procs : Ready(job[q])

(* Until the candidate directory is staged into it holds the proposal that *)
(* was compared, and from then on the job does.                            *)
Reviewed(j, o, gone, staged, t, d) ==
  /\ j.at = "load" => (staged \/ d.candidate.proposal = j.token) /\ (gone \/ t = o)
  /\ j.at \in Accepting \/ j.end = "accepted" =>
       (staged \/ j.p = j.token) /\ (gone \/ Build(o) = j.c.base)

(* Where an undisturbed acceptance is on the way through its changes, and  *)
(* on the way back: what is not back yet is still to come.                 *)
Way(j, o) == ApplyChanges(o, Changes(j.p))

Midway(t, steps) ==
  \A f \in Paths : \E n \in DOMAIN steps : steps[n] # Absent /\ t[f] = steps[n][f]

Returning(j, o, t, steps) ==
  \A f \in Paths :
    t[f] = o[f] \/ /\ \E k \in DOMAIN j.saved : k > j.n /\ j.saved[k].path = f
                   /\ \E n \in DOMAIN steps : steps[n] # Absent /\ t[f] = steps[n][f]

Matches(t, c) == t # Absent /\ Compiles(t) /\ Build(t) = c.graph

Untouched(j, o, t) ==
  j.p # None =>
    /\ j.at \in {"copy", "write", "restage", "snapshot"}
         \/ j.end \in {"refused", "restored"} => t = o
    /\ j.at \in {"apply", "restore"} => Saves(j.saved, j.p, o)
    /\ j.at = "apply" => t = Way(j, o)[j.n]
    /\ j.at = "record" \/ j.end \in {"accepted", "unrecorded"} =>
         t = Way(j, o)[Len(Changes(j.p))] /\ Matches(t, j.c)
    /\ j.at = "restore" => Returning(j, o, t, Way(j, o))
    /\ j.end = "killed" => Midway(t, Way(j, o))

(* Commands that are at work beside each other overlap, and while they do  *)
(* files mix.                                                              *)
Apart ==
  /\ overlap => mixed
  /\ \A q, r \in Procs : At(q, "graph") /\ At(r, "graph") /\ q # r => overlap

(* What a command that works alone has written. *)
Writing(q) ==
  At(q, "graph") =>
    /\ job[q].n >= 1 => out["graph"] = job[q].c
    /\ job[q].n >= 5 => out["index"] = job[q].c

(* Unless files mix, index and manifest are of one graph, or their writer  *)
(* is between the two.                                                     *)
Between(q) == At(q, "graph") /\ job[q].n = 5
Pair(o) == None \in {o["index"], o["manifest"]} \/ o["index"] = o["manifest"]

Paired ==
  /\ Apart
  /\ overlap \/ \A q \in Procs : Writing(q)
  /\ mixed \/ (\E q \in Procs : Between(q)) \/ Pair(out)

Reviewing == \A q \in Procs :
  Reviewed(job[q], origin[q], disturbed[q], restaged[q], tree, dir)
Rollback == \A q \in Procs : disturbed[q] \/ Untouched(job[q], origin[q], tree)

(* What a process has in hand after a step of its own; the others keep     *)
(* what they have.                                                         *)
Became(q, at, p, token, c, n, saved, end) ==
  /\ job' \in [Procs -> Job]
  /\ \A r \in Procs : r # q => job'[r] = job[r]
  /\ job'[q].at = at /\ job'[q].p = p /\ job'[q].token = token /\ job'[q].c = c
  /\ job'[q].n = n /\ job'[q].saved = saved /\ job'[q].end = end

LEMMA Entered ==
  ASSUME job \in [Procs -> Job], NEW q \in Procs, NEW j \in Job, Enter(q, j)
  PROVE  Became(q, j.at, j.p, j.token, j.c, j.n, j.saved, j.end)
<1>1. job' = [job EXCEPT ![q] = j]
  BY DEF Enter
<1> QED
  BY <1>1 DEF Became

LEMMA WentTo ==
  ASSUME job \in [Procs -> Job], NEW q \in Procs, NEW at \in Ats, Goto(q, at)
  PROVE  Became(q, at, job[q].p, job[q].token, job[q].c, 0, job[q].saved, job[q].end)
<1> DEFINE j == [job[q] EXCEPT !.at = at, !.n = 0]
<1>1. /\ j \in Job /\ j.at = at /\ j.n = 0 /\ j.p = job[q].p /\ j.token = job[q].token
      /\ j.c = job[q].c /\ j.saved = job[q].saved /\ j.end = job[q].end
  BY DEF Job
<1>2. Enter(q, j)
  BY DEF Goto
<1> HIDE DEF j
<1>3. Became(q, j.at, j.p, j.token, j.c, j.n, j.saved, j.end)
  BY <1>1, <1>2, Entered
<1> QED
  BY <1>1, <1>3

LEMMA Went1 ==
  ASSUME job \in [Procs -> Job], NEW q \in Procs, Next1(q)
  PROVE  Became(q, job[q].at, job[q].p, job[q].token, job[q].c, job[q].n + 1, job[q].saved,
                job[q].end)
<1> DEFINE j == [job[q] EXCEPT !.n = @ + 1]
<1>1. /\ j \in Job /\ j.n = job[q].n + 1 /\ j.at = job[q].at /\ j.p = job[q].p
      /\ j.token = job[q].token /\ j.c = job[q].c /\ j.saved = job[q].saved
      /\ j.end = job[q].end
  BY DEF Job
<1>2. Enter(q, j)
  BY DEF Next1
<1> HIDE DEF j
<1>3. Became(q, j.at, j.p, j.token, j.c, j.n, j.saved, j.end)
  BY <1>1, <1>2, Entered
<1> QED
  BY <1>1, <1>3

LEMMA Ended ==
  ASSUME job \in [Procs -> Job], NEW q \in Procs, NEW end \in Ends, End(q, end)
  PROVE  Became(q, "idle", job[q].p, job[q].token, job[q].c, 0, None, end)
<1> DEFINE j == [job[q] EXCEPT !.at = "idle", !.n = 0, !.saved = None, !.end = end]
<1>1. /\ j \in Job /\ j.at = "idle" /\ j.n = 0 /\ j.p = job[q].p /\ j.token = job[q].token
      /\ j.c = job[q].c /\ j.saved = None /\ j.end = end
  BY DEF Job, Ats
<1>2. Enter(q, j)
  BY DEF End
<1> HIDE DEF j
<1>3. Became(q, j.at, j.p, j.token, j.c, j.n, j.saved, j.end)
  BY <1>1, <1>2, Entered
<1> QED
  BY <1>1, <1>3

(* What the operations leave in hand. *)
LEMMA GraphTyped ==
  ASSUME NEW t \in Trees
  PROVE  Build(t) \in Graphs /\ \A p \in Proposals : CandidateOf(p, Build(t)) \in Candidates
BY DEF Graphs, Candidates

LEMMA CandidateTyped ==
  ASSUME NEW c \in Candidates
  PROVE  /\ c.proposal \in Proposals /\ c.graph \in Graphs /\ c.base = Plan[c.proposal].base
         /\ c.diff = Compare(c.base, c.graph)
         /\ c.eligible => checkExpectations(c.graph, c.proposal)
<1>1. PICK p \in Proposals : \E g \in Graphs : c = CandidateOf(p, g)
  BY DEF Candidates
<1>2. PICK g \in Graphs : c = CandidateOf(p, g)
  BY <1>1
<1>3. /\ c.proposal = p /\ c.graph = g /\ c.base = Plan[p].base
      /\ c.diff = Compare(Plan[p].base, g) /\ c.eligible = checkExpectations(g, p)
  BY <1>2, Zenon DEF CandidateOf
<1> QED
  BY <1>3, Zenon

LEMMA StageBegins ==
  ASSUME Typed, NEW q \in Procs, NEW p \in Proposals, StageBegin(q, p)
  PROVE  Became(q, "copy", p, None, None, 0, None, "none")
<1> DEFINE j == [Idle EXCEPT !.at = "copy", !.p = p]
<1>1. /\ j \in Job /\ j.at = "copy" /\ j.p = p /\ j.token = None /\ j.c = None /\ j.n = 0
      /\ j.saved = None /\ j.end = "none"
  BY DEF Job, Idle, Ats, Ends
<1>2. Enter(q, j)
  BY DEF StageBegin, Begin
<1> HIDE DEF j
<1>3. Became(q, j.at, j.p, j.token, j.c, j.n, j.saved, j.end)
  BY <1>1, <1>2, Entered DEF Typed, Shaped
<1> QED
  BY <1>1, <1>3

LEMMA AcceptBegins ==
  ASSUME Typed, NEW q \in Procs, NEW p \in Proposals, AcceptBegin(q, p)
  PROVE  Became(q, "load", None, p, None, 0, None, "none")
<1> DEFINE j == [Idle EXCEPT !.at = "load", !.token = p]
<1>1. /\ j \in Job /\ j.at = "load" /\ j.p = None /\ j.token = p /\ j.c = None /\ j.n = 0
      /\ j.saved = None /\ j.end = "none"
  BY DEF Job, Idle, Ats, Ends
<1>2. Enter(q, j)
  BY DEF AcceptBegin, Begin
<1> HIDE DEF j
<1>3. Became(q, j.at, j.p, j.token, j.c, j.n, j.saved, j.end)
  BY <1>1, <1>2, Entered DEF Typed, Shaped
<1> QED
  BY <1>1, <1>3

LEMMA GraphBegins ==
  ASSUME Typed, NEW q \in Procs, GraphBegin(q)
  PROVE  Became(q, "graph", None, None, Build(tree), 0, None, "none")
<1> DEFINE j == [Idle EXCEPT !.at = "graph", !.c = Build(tree)]
<1>1. /\ j \in Job /\ j.at = "graph" /\ j.p = None /\ j.token = None /\ j.c = Build(tree)
      /\ j.n = 0 /\ j.saved = None /\ j.end = "none"
  BY GraphTyped DEF Job, Idle, Ats, Ends, Typed, Shaped
<1>2. Enter(q, j)
  BY DEF GraphBegin, Begin
<1> HIDE DEF j
<1>3. Became(q, j.at, j.p, j.token, j.c, j.n, j.saved, j.end)
  BY <1>1, <1>2, Entered DEF Typed, Shaped
<1> QED
  BY <1>1, <1>3

LEMMA StageCopies ==
  ASSUME Typed, NEW q \in Procs, StageCopy(q)
  PROVE  \/ \E t \in Trees : Became(q, "write", job[q].p, job[q].token,
                                    CandidateOf(job[q].p, Build(t)), 0, job[q].saved, "none")
         \/ Became(q, "idle", job[q].p, job[q].token, job[q].c, 0, None, "refused")
<1> DEFINE after == Applied(tree, Plan[job[q].p].changes)
           j == [job[q] EXCEPT !.at = "write", !.c = CandidateOf(job[q].p, Build(after))]
<1>1. /\ job \in [Procs -> Job] /\ job[q].p \in Proposals /\ job[q].end = "none"
      /\ job[q].n = 0 /\ tree \in Trees
  BY DEF Typed, Shaped, Ready, StageCopy, At
<1>2. CASE after # Absent /\ Compiles(after)
  <2>1. after \in Trees
    <3>1. Through(ApplyChanges(tree, Changes(job[q].p)), tree, job[q].p)
      BY <1>1, AppliedThrough
    <3>2. Len(Changes(job[q].p)) \in 0..Len(Changes(job[q].p))
      BY <1>1, ChangesTyped
    <3> QED
      BY <1>2, <3>1, <3>2 DEF Through, Applied, Changes
  <2>2. Enter(q, j)
    BY <1>2 DEF StageCopy
  <2>3. CandidateOf(job[q].p, Build(after)) \in Candidates
    BY <1>1, <2>1, GraphTyped
  <2> HIDE DEF after
  <2>4. /\ j \in Job /\ j.at = "write" /\ j.p = job[q].p /\ j.token = job[q].token
        /\ j.c = CandidateOf(job[q].p, Build(after)) /\ j.n = 0
        /\ j.saved = job[q].saved /\ j.end = "none"
    BY <1>1, <2>3 DEF Job, Ats
  <2> HIDE DEF j
  <2>5. Became(q, j.at, j.p, j.token, j.c, j.n, j.saved, j.end)
    BY <1>1, <2>2, <2>4, Entered
  <2> QED
    BY <2>1, <2>4, <2>5
<1>3. CASE ~ (after # Absent /\ Compiles(after))
  <2>1. End(q, "refused")
    BY <1>3 DEF StageCopy
  <2>2. "refused" \in Ends
    BY DEF Ends
  <2> QED
    BY <1>1, <2>1, <2>2, Ended
<1> QED
  BY <1>2, <1>3

LEMMA AcceptLoads ==
  ASSUME Typed, NEW q \in Procs, AcceptLoad(q)
  PROVE  \/ /\ LoadCandidate /\ dir.candidate.eligible /\ Build(tree) = dir.candidate.base
            /\ dir.proposal \in Proposals /\ dir.candidate \in Candidates
            /\ Became(q, "restage", dir.proposal, job[q].token, dir.candidate, job[q].n,
                      job[q].saved, "none")
         \/ Became(q, "idle", None, job[q].token, job[q].c, 0, None, "refused")
<1> DEFINE j == [job[q] EXCEPT !.at = "restage", !.p = dir.proposal, !.c = dir.candidate]
           loads == LoadCandidate /\ dir.candidate.eligible
                      /\ Parses(tree) /\ Build(tree) = dir.candidate.base
<1>1. job \in [Procs -> Job] /\ job[q].p = None /\ job[q].end = "none"
  BY DEF Typed, Shaped, Ready, AcceptLoad, At
<1>2. CASE loads
  <2>1. dir.proposal \in Proposals /\ dir.candidate \in Candidates
    BY <1>2 DEF LoadCandidate, Typed, Shaped
  <2>2. Enter(q, j)
    BY <1>2 DEF AcceptLoad
  <2>3. /\ j \in Job /\ j.at = "restage" /\ j.p = dir.proposal /\ j.token = job[q].token
        /\ j.c = dir.candidate /\ j.n = job[q].n /\ j.saved = job[q].saved /\ j.end = "none"
    <3>1. job[q] \in Job /\ "restage" \in Ats
      BY <1>1 DEF Ats, Accepting
    <3>2. j \in Job
      BY <2>1, <3>1 DEF Job
    <3> QED
      BY <1>1, <3>1, <3>2 DEF Job
  <2> HIDE DEF j
  <2>4. Became(q, j.at, j.p, j.token, j.c, j.n, j.saved, j.end)
    BY <1>1, <2>2, <2>3, Entered
  <2> QED
    BY <1>2, <2>1, <2>3, <2>4
<1>3. CASE ~ loads
  <2>1. End(q, "refused")
    BY <1>3 DEF AcceptLoad
  <2>2. "refused" \in Ends
    BY DEF Ends
  <2>3. Became(q, "idle", job[q].p, job[q].token, job[q].c, 0, None, "refused")
    BY <1>1, <2>1, <2>2, Ended
  <2> QED
    BY <1>1, <2>3
<1> HIDE DEF loads
<1> QED
  BY <1>2, <1>3

LEMMA SnapshotTyped ==
  ASSUME NEW t \in Trees
  PROVE  Snapshots(t) \subseteq Seq(Snapshot)
<1>1. {[path |-> f, text |-> t[f]] : f \in Paths} \subseteq Snapshot
  BY DEF Snapshot, Trees
<1> QED
  BY <1>1 DEF Snapshots

LEMMA AcceptSnapshots ==
  ASSUME Typed, NEW q \in Procs, AcceptSnapshot(q)
  PROVE  /\ Became(q, "apply", job[q].p, job[q].token, job[q].c, 0, snapshotPaths(job[q].p), "none")
         /\ Saves(snapshotPaths(job[q].p), job[q].p, tree)
         /\ snapshotPaths(job[q].p) \in Seq(Snapshot)
<1> DEFINE saved == snapshotPaths(job[q].p)
           j == [job[q] EXCEPT !.at = "apply", !.saved = saved]
<1>1. /\ job \in [Procs -> Job] /\ job[q].p \in Proposals /\ job[q].end = "none"
      /\ job[q].n = 0 /\ tree \in Trees
  BY DEF Typed, Shaped, Ready, InHand, Accepting, AcceptSnapshot, At
<1>2. Saves(saved, job[q].p, tree)
  BY <1>1, SnapshotsSave DEF snapshotPaths, Changes
<1>3. saved \in Seq(Snapshot)
  BY <1>1, <1>2, SnapshotTyped DEF Saves
<1>4. Enter(q, j)
  BY DEF AcceptSnapshot
<1> HIDE DEF saved
<1>5. /\ j \in Job /\ j.at = "apply" /\ j.p = job[q].p /\ j.token = job[q].token
      /\ j.c = job[q].c /\ j.n = 0 /\ j.saved = saved /\ j.end = "none"
  BY <1>1, <1>3 DEF Job, Ats, Accepting
<1> HIDE DEF j
<1>6. Became(q, j.at, j.p, j.token, j.c, j.n, j.saved, j.end)
  BY <1>1, <1>4, <1>5, Entered
<1> QED
  BY <1>2, <1>3, <1>5, <1>6 DEF saved

(* The files of a graph command, and what a write that breaks off leaves of *)
(* them.                                                                   *)
LEMMA FilesInOrder ==
  /\ ToSet(GraphFiles) = {"graph", "receipts", "evidence", "links", "index", "manifest"}
  /\ GraphFiles[1] = "graph" /\ GraphFiles[2] = "receipts" /\ GraphFiles[3] = "evidence"
  /\ GraphFiles[4] = "links" /\ GraphFiles[5] = "index" /\ GraphFiles[6] = "manifest"
  /\ Len(GraphFiles) = 6
<1>1. Len(GraphFiles) = 6 /\ DOMAIN GraphFiles = 1..6
  BY DEF GraphFiles
<1>2. /\ GraphFiles[1] = "graph" /\ GraphFiles[2] = "receipts" /\ GraphFiles[3] = "evidence"
      /\ GraphFiles[4] = "links" /\ GraphFiles[5] = "index" /\ GraphFiles[6] = "manifest"
  BY DEF GraphFiles
<1>3. \A i \in 1..6 : i = 1 \/ i = 2 \/ i = 3 \/ i = 4 \/ i = 5 \/ i = 6
  OBVIOUS
<1>4. 1 \in 1..6 /\ 2 \in 1..6 /\ 3 \in 1..6 /\ 4 \in 1..6 /\ 5 \in 1..6 /\ 6 \in 1..6
  OBVIOUS
<1>5. ToSet(GraphFiles) = {GraphFiles[i] : i \in 1..6}
  BY <1>1 DEF ToSet
<1> HIDE DEF GraphFiles
<1> QED
  BY <1>1, <1>2, <1>3, <1>4, <1>5

LEMMA TornLeaves ==
  ASSUME Typed, NEW q \in Procs, At(q, "graph"), Torn(q) \/ UNCHANGED <<out, kept>>
  PROVE  /\ out' \in [ToSet(GraphFiles) -> Graphs \cup {None}] /\ LinesTyped(kept')
         /\ \A f \in ToSet(GraphFiles) : f # GraphFile(q) => out'[f] = out[f]
         /\ out'["index"] \in {None, out["index"]}
         /\ out'["manifest"] \in {None, out["manifest"]}
<1>0. /\ out \in [ToSet(GraphFiles) -> Graphs \cup {None}] /\ LinesTyped(kept)
      /\ job[q].c \in Graphs
  BY DEF Typed, Shaped, Ready, At
<1>1. CASE Torn(q)
  <2>1. \/ out' = [out EXCEPT ![GraphFile(q)] = None]
        \/ out' = [out EXCEPT ![GraphFile(q)] = job[q].c] /\ GraphFile(q) \in LineFiles
    BY <1>1 DEF Torn
  <2>2. LinesTyped(kept')
    <3>1. kept' = kept \/ \E cut \in Cuts[GraphFile(q)] :
                             GraphFile(q) \in LineFiles /\ kept' = [kept EXCEPT ![GraphFile(q)] = cut]
      BY <1>1 DEF Torn
    <3> QED
      BY <1>0, <3>1 DEF LinesTyped
  <2> QED
    BY <1>0, <2>1, <2>2, FilesInOrder DEF LineFiles
<1>2. CASE UNCHANGED <<out, kept>>
  BY <1>0, <1>2
<1> QED
  BY <1>1, <1>2

-----------------------------------------------------------------------------
(* Typed and Counted. *)

LEMMA TypedInit == Init => Typed /\ Counted
<1> SUFFICES ASSUME Init PROVE Typed /\ Counted
  OBVIOUS
<1>1. Idle \in Job /\ Ready(Idle)
  BY DEF Idle, Job, Ats, Ends, Ready, Accepting
<1>2. Shaped
  BY <1>1, ChangeAssumption DEF Init, Shaped, LinesTyped
<1>3. \A q \in Procs : Ready(job[q])
  BY <1>1 DEF Init
<1>4. Counted
  BY BoundAssumption DEF Init, Counted
<1> QED
  BY <1>2, <1>3, <1>4 DEF Typed

(* The counters of the bounds. *)
LEMMA CountedStep == Counted /\ [Next]_vars => Counted'
<1> SUFFICES ASSUME Counted, [Next]_vars PROVE Counted'
  OBVIOUS
<1> USE BoundAssumption DEF Counted
<1>1. ASSUME NEW q \in Procs, NEW p \in Proposals, StageBegin(q, p) \/ AcceptBegin(q, p),
             UNCHANGED session
      PROVE  Counted'
  BY <1>1 DEF StageBegin, AcceptBegin, Begin
<1>2. ASSUME NEW q \in Procs, GraphBegin(q), UNCHANGED session PROVE Counted'
  BY <1>2 DEF GraphBegin, Begin
<1>3. ASSUME NEW q \in Procs, AcceptApply(q) \/ AcceptRestore(q) \/ AcceptRecord(q)
                                \/ GraphWrite(q),
             UNCHANGED session
      PROVE  Counted'
  BY <1>3 DEF AcceptApply, AcceptRestore, AcceptRecord, GraphWrite, Fault, ghosts
<1>4. ASSUME NEW q \in Procs,
             StageCopy(q) \/ StageWrite(q) \/ AcceptLoad(q) \/ AcceptRestage(q)
               \/ AcceptSnapshot(q) \/ Crash(q),
             UNCHANGED session
      PROVE  Counted'
  BY <1>4 DEF StageCopy, StageWrite, AcceptLoad, AcceptRestage, AcceptSnapshot, Crash,
              bounds
<1>5. ASSUME NEW e \in Edits, Edit(e), UNCHANGED session PROVE Counted'
  BY <1>5 DEF Edit
<1>6. ASSUME UNCHANGED vars PROVE Counted'
  BY <1>6 DEF vars, bounds
<1> QED
  BY <1>1, <1>2, <1>3, <1>4, <1>5, <1>6 DEF Next, Step

(* A change of the tree by hand of q, or of nobody, is a tree again.       *)
LEMMA TreeWritten ==
  ASSUME Shaped, NEW t \in Trees, NEW q, WriteTree(t, q)
  PROVE  /\ tree' = t /\ tree' \in Trees /\ disturbed' \in [Procs -> BOOLEAN]
         /\ origin' = origin /\ restaged' = restaged
         /\ overlap' = overlap /\ mixed' = mixed
         /\ \A r \in Procs : r # q /\ ~disturbed'[r] => ~disturbed[r] /\ tree' = tree
         /\ q \in Procs => disturbed'[q] = disturbed[q]
BY DEF WriteTree, Shaped

(* Where an acceptance is between its changes, or its snapshots, the next  *)
(* one gives a tree.                                                       *)
LEMMA NextChange ==
  ASSUME Typed, NEW q \in Procs, At(q, "apply"), job[q].n # Len(Changes(job[q].p))
  PROVE  /\ job[q].p \in Proposals /\ job[q].n + 1 \in 1..Len(Changes(job[q].p))
         /\ Applicable(tree, Changes(job[q].p)[job[q].n + 1])
              => Mutated(tree, Changes(job[q].p)[job[q].n + 1]) \in Trees
<1>1. job[q].p \in Proposals /\ job[q].n \in 0..Len(Changes(job[q].p)) /\ tree \in Trees
  BY DEF Typed, Shaped, Ready, InHand, Accepting, At
<1>2. Len(Changes(job[q].p)) \in Nat
  BY <1>1, ChangesTyped
<1>3. job[q].n + 1 \in 1..Len(Changes(job[q].p))
  BY <1>1, <1>2
<1> QED
  BY <1>1, <1>3, MutatedTyped

LEMMA NextSnapshot ==
  ASSUME Typed, NEW q \in Procs, At(q, "restore"), job[q].n # Len(job[q].saved)
  PROVE  /\ job[q].n + 1 \in 1..Len(job[q].saved)
         /\ job[q].saved[job[q].n + 1].path \in Paths
         /\ [tree EXCEPT ![job[q].saved[job[q].n + 1].path] = job[q].saved[job[q].n + 1].text]
              \in Trees
<1>1. job[q].saved \in Seq(Snapshot) /\ job[q].n \in 0..Len(job[q].saved) /\ tree \in Trees
  BY DEF Typed, Shaped, Ready, At
<1>2. job[q].n + 1 \in 1..Len(job[q].saved)
  BY <1>1
<1>3. job[q].saved[job[q].n + 1] \in Snapshot
  BY <1>1, <1>2
<1> QED
  BY <1>1, <1>2, <1>3 DEF Snapshot, Trees

LEMMA TypedStep == Typed /\ [Next]_vars => Typed'
<1> SUFFICES ASSUME Typed, [Next]_vars PROVE Typed'
  OBVIOUS
<1>0. /\ Shaped /\ job \in [Procs -> Job] /\ tree \in Trees
      /\ \A q \in Procs : Ready(job[q]) /\ job[q] \in Job
  BY DEF Typed, Shaped
<1> DEFINE Moved(q) == /\ job' \in [Procs -> Job] /\ \A r \in Procs : r # q => job'[r] = job[r]
                       /\ Ready(job'[q])
<1>1. ASSUME NEW q \in Procs, Moved(q), Shaped' PROVE Typed'
  <2>1. \A r \in Procs : Ready(job'[r])
    BY <1>0, <1>1
  <2> QED
    BY <1>1, <2>1 DEF Typed
<1>2. ASSUME NEW q \in Procs, NEW p \in Proposals, StageBegin(q, p) PROVE Typed'
  <2>1. Became(q, "copy", p, None, None, 0, None, "none")
    BY <1>2, StageBegins
  <2>2. Moved(q)
    BY <2>1 DEF Became, Ready, Accepting
  <2>3. Shaped'
    BY <1>0, <1>2, <2>2 DEF StageBegin, Begin, Shaped
  <2> QED
    BY <1>1, <2>2, <2>3
<1>3. ASSUME NEW q \in Procs, NEW p \in Proposals, AcceptBegin(q, p) PROVE Typed'
  <2>1. Became(q, "load", None, p, None, 0, None, "none")
    BY <1>3, AcceptBegins
  <2>2. Moved(q)
    BY <2>1 DEF Became, Ready, Accepting
  <2>3. Shaped'
    BY <1>0, <1>3, <2>2 DEF AcceptBegin, Begin, Shaped
  <2> QED
    BY <1>1, <2>2, <2>3
<1>4. ASSUME NEW q \in Procs, GraphBegin(q) PROVE Typed'
  <2>1. Became(q, "graph", None, None, Build(tree), 0, None, "none")
    BY <1>4, GraphBegins
  <2>2. Moved(q)
    BY <1>0, <2>1, GraphTyped DEF Became, Ready, Accepting
  <2>3. Shaped'
    BY <1>0, <1>4, <2>2 DEF GraphBegin, Begin, Shaped
  <2> QED
    BY <1>1, <2>2, <2>3
<1>5. ASSUME NEW q \in Procs, StageCopy(q) PROVE Typed'
  <2>1. job[q].p \in Proposals
    BY <1>0, <1>5 DEF StageCopy, At, Ready
  <2>2. Moved(q)
    <3>1. CASE \E t \in Trees : Became(q, "write", job[q].p, job[q].token,
                   CandidateOf(job[q].p, Build(t)), 0, job[q].saved, "none")
      <4>1. PICK t \in Trees : Became(q, "write", job[q].p, job[q].token,
                   CandidateOf(job[q].p, Build(t)), 0, job[q].saved, "none")
        BY <3>1
      <4>2. CandidateOf(job[q].p, Build(t)) \in Candidates
        BY <2>1, GraphTyped
      <4>3. CandidateOf(job[q].p, Build(t)).proposal = job[q].p
        BY DEF CandidateOf
      <4> QED
        BY <2>1, <4>1, <4>2, <4>3 DEF Became, Ready, Accepting, InHand
    <3>2. CASE Became(q, "idle", job[q].p, job[q].token, job[q].c, 0, None, "refused")
      BY <3>2 DEF Became, Ready, Accepting
    <3> QED
      BY <1>5, <3>1, <3>2, StageCopies
  <2>3. Shaped'
    BY <1>0, <1>5, <2>2 DEF StageCopy, Shaped, files, bounds, ghosts
  <2> QED
    BY <1>1, <2>2, <2>3
<1>6. ASSUME NEW q \in Procs, StageWrite(q) PROVE Typed'
  <2>1. /\ InHand(job[q]) /\ job[q].n \in 0..2 /\ job[q].end = "none"
    BY <1>0, <1>6 DEF StageWrite, At, Ready
  <2>2. Moved(q)
    <3>1. CASE job[q].n = 2
      <4>1. Became(q, "idle", job[q].p, job[q].token, job[q].c, 0, None, "staged")
        BY <1>0, <1>6, <3>1, Ended DEF StageWrite, Ends
      <4> QED
        BY <4>1 DEF Became, Ready, Accepting
    <3>2. CASE job[q].n # 2
      <4>1. Next1(q) /\ At(q, "write")
        BY <1>6, <3>2 DEF StageWrite
      <4>2. Became(q, "write", job[q].p, job[q].token, job[q].c, job[q].n + 1, job[q].saved, "none")
        BY <1>0, <2>1, <4>1, Went1 DEF At
      <4>3. job[q].n + 1 \in 0..2
        BY <2>1, <3>2
      <4> QED
        BY <2>1, <4>2, <4>3 DEF Became, Ready, Accepting, InHand
    <3> QED
      BY <3>1, <3>2
  <2>3. Shaped'
    <3>1. job[q].c.graph \in Graphs
      BY <2>1, CandidateTyped DEF InHand
    <3>2. dir' \in [proposal : Proposals \cup {None}, candidate : Candidates \cup {None},
                    graph : Graphs \cup {None}]
      <4>1. dir \in [proposal : Proposals \cup {None}, candidate : Candidates \cup {None},
                     graph : Graphs \cup {None}]
        BY <1>0 DEF Shaped
      <4>2. CASE job[q].n = 0
        BY <1>6, <2>1, <4>1, <4>2 DEF StageWrite, InHand
      <4>3. CASE job[q].n = 1
        BY <1>6, <2>1, <4>1, <4>3 DEF StageWrite, InHand
      <4>4. CASE job[q].n = 2
        BY <1>6, <3>1, <4>1, <4>4 DEF StageWrite
      <4> QED
        BY <2>1, <4>2, <4>3, <4>4
    <3> QED
      BY <1>0, <1>6, <2>2, <3>2 DEF StageWrite, Shaped
  <2> QED
    BY <1>1, <2>2, <2>3
<1>7. ASSUME NEW q \in Procs, AcceptLoad(q) PROVE Typed'
  <2>1. Moved(q)
    <3>1. CASE Became(q, "idle", None, job[q].token, job[q].c, 0, None, "refused")
      BY <3>1 DEF Became, Ready, Accepting
    <3>2. CASE /\ LoadCandidate /\ dir.candidate.eligible
               /\ dir.proposal \in Proposals /\ dir.candidate \in Candidates
               /\ Became(q, "restage", dir.proposal, job[q].token, dir.candidate, job[q].n,
                         job[q].saved, "none")
      BY <3>2 DEF Became, Ready, Accepting, InHand, LoadCandidate
    <3> QED
      BY <1>7, <3>1, <3>2, AcceptLoads
  <2>2. Shaped'
    BY <1>0, <1>7, <2>1 DEF AcceptLoad, Shaped, files, bounds, ghosts
  <2> QED
    BY <1>1, <2>1, <2>2
<1>8. ASSUME NEW q \in Procs, AcceptRestage(q) PROVE Typed'
  <2>1. /\ InHand(job[q]) /\ job[q].c.eligible /\ job[q].end = "none"
    BY <1>0, <1>8 DEF AcceptRestage, At, Ready, Accepting
  <2>2. Moved(q)
    <3>1. CASE Goto(q, "snapshot")
      <4>1. Became(q, "snapshot", job[q].p, job[q].token, job[q].c, 0, job[q].saved, "none")
        BY <1>0, <2>1, <3>1, WentTo DEF Ats, Accepting
      <4> QED
        BY <2>1, <4>1 DEF Became, Ready, Accepting, InHand
    <3>2. CASE End(q, "refused")
      <4>1. Became(q, "idle", job[q].p, job[q].token, job[q].c, 0, None, "refused")
        BY <1>0, <3>2, Ended DEF Ends
      <4> QED
        BY <4>1 DEF Became, Ready, Accepting
    <3> QED
      BY <1>8, <3>1, <3>2 DEF AcceptRestage
  <2>3. Shaped'
    BY <1>0, <1>8, <2>2 DEF AcceptRestage, Shaped, files, bounds, ghosts
  <2> QED
    BY <1>1, <2>2, <2>3
<1>9. ASSUME NEW q \in Procs, AcceptSnapshot(q) PROVE Typed'
  <2>1. /\ InHand(job[q]) /\ job[q].c.eligible
    BY <1>0, <1>9 DEF AcceptSnapshot, At, Ready, Accepting
  <2>2. Moved(q)
    <3>1. Became(q, "apply", job[q].p, job[q].token, job[q].c, 0, snapshotPaths(job[q].p), "none")
            /\ snapshotPaths(job[q].p) \in Seq(Snapshot)
      BY <1>9, AcceptSnapshots
    <3>2. 0 \in 0..Len(Changes(job[q].p))
      BY <2>1, ChangesTyped DEF InHand
    <3> QED
      BY <2>1, <3>1, <3>2 DEF Became, Ready, Accepting, InHand
  <2>3. Shaped'
    BY <1>0, <1>9, <2>2 DEF AcceptSnapshot, Shaped, files, bounds, ghosts
  <2> QED
    BY <1>1, <2>2, <2>3
<1>10. ASSUME NEW q \in Procs, AcceptApply(q) PROVE Typed'
  <2>1. /\ At(q, "apply") /\ InHand(job[q]) /\ job[q].c.eligible /\ job[q].end = "none"
        /\ job[q].saved \in Seq(Snapshot)
    BY <1>0, <1>10 DEF AcceptApply, At, Ready, Accepting
  <2>2. ASSUME Goto(q, "record") \/ Goto(q, "restore") PROVE Moved(q)
    <3>1. 0 \in 0..Len(job[q].saved)
      BY <2>1
    <3>2. \E at \in {"record", "restore"} :
            Became(q, at, job[q].p, job[q].token, job[q].c, 0, job[q].saved, "none")
      BY <1>0, <2>1, <2>2, WentTo DEF Ats, Accepting
    <3> QED
      BY <2>1, <3>1, <3>2 DEF Became, Ready, Accepting, InHand
  <2>3. CASE UNCHANGED tree /\ UNCHANGED ghosts /\ (Goto(q, "record") \/ Goto(q, "restore"))
    <3>1. Shaped'
      BY <1>0, <1>10, <2>2, <2>3 DEF AcceptApply, Shaped, ghosts
    <3> QED
      BY <1>1, <2>2, <2>3, <3>1
  <2> DEFINE c == Changes(job[q].p)[job[q].n + 1]
  <2>4. CASE /\ job[q].n # Len(Changes(job[q].p)) /\ Applicable(tree, c)
             /\ WriteTree(Mutated(tree, c), q) /\ Next1(q)
    <3>1. Became(q, "apply", job[q].p, job[q].token, job[q].c, job[q].n + 1, job[q].saved, "none")
      BY <1>0, <2>1, <2>4, Went1 DEF At
    <3>2. job[q].n + 1 \in 0..Len(Changes(job[q].p)) /\ Mutated(tree, c) \in Trees
      BY <2>1, <2>4, NextChange
    <3>3. Moved(q)
      BY <2>1, <3>1, <3>2 DEF Became, Ready, Accepting, InHand
    <3> HIDE DEF c
    <3>4. /\ tree' \in Trees /\ disturbed' \in [Procs -> BOOLEAN]
          /\ origin' = origin /\ restaged' = restaged
          /\ overlap' = overlap /\ mixed' = mixed
      BY <1>0, <2>4, <3>2, TreeWritten
    <3>5. Shaped'
      BY <1>0, <1>10, <3>3, <3>4 DEF AcceptApply, Shaped
    <3> QED
      BY <1>1, <3>3, <3>5
  <2> QED
    BY <1>10, <2>3, <2>4 DEF AcceptApply, Changes
<1>11. ASSUME NEW q \in Procs, AcceptRestore(q) PROVE Typed'
  <2>1. /\ At(q, "restore") /\ InHand(job[q]) /\ job[q].c.eligible /\ job[q].end = "none"
        /\ job[q].saved \in Seq(Snapshot)
    BY <1>0, <1>11 DEF AcceptRestore, At, Ready, Accepting
  <2>2. CASE job[q].n = Len(job[q].saved)
    <3>1. Became(q, "idle", job[q].p, job[q].token, job[q].c, 0, None, "restored")
      BY <1>0, <1>11, <2>2, Ended DEF AcceptRestore, Ends
    <3>2. Moved(q)
      BY <3>1 DEF Became, Ready, Accepting
    <3>3. Shaped'
      BY <1>0, <1>11, <2>2, <3>2 DEF AcceptRestore, Shaped, ghosts
    <3> QED
      BY <1>1, <3>2, <3>3
  <2>3. CASE job[q].n # Len(job[q].saved)
    <3> DEFINE s == job[q].saved[job[q].n + 1]
               t == [tree EXCEPT ![s.path] = s.text]
    <3>1. job[q].n + 1 \in 0..Len(job[q].saved) /\ t \in Trees
      <4>1. job[q].n + 1 \in 1..Len(job[q].saved) /\ t \in Trees
        BY <2>1, <2>3, NextSnapshot
      <4> HIDE DEF t
      <4> QED
        BY <2>1, <4>1
    <3>2. Next1(q) /\ \/ WriteTree(t, q)
                      \/ /\ disturbed' = [disturbed EXCEPT ![q] = TRUE]
                         /\ UNCHANGED <<tree, origin, restaged, overlap, mixed>>
      BY <1>11, <2>3 DEF AcceptRestore
    <3> HIDE DEF t
    <3>3. Became(q, "restore", job[q].p, job[q].token, job[q].c, job[q].n + 1, job[q].saved, "none")
      BY <1>0, <2>1, <3>2, Went1 DEF At
    <3>4. Moved(q)
      BY <2>1, <3>1, <3>3 DEF Became, Ready, Accepting, InHand
    <3>5. /\ tree' \in Trees /\ disturbed' \in [Procs -> BOOLEAN]
          /\ origin' = origin /\ restaged' = restaged
          /\ overlap' = overlap /\ mixed' = mixed
      <4>1. CASE WriteTree(t, q)
        BY <1>0, <3>1, <4>1, TreeWritten
      <4>2. CASE /\ disturbed' = [disturbed EXCEPT ![q] = TRUE]
                 /\ UNCHANGED <<tree, origin, restaged, overlap, mixed>>
        BY <1>0, <4>2 DEF Shaped
      <4> QED
        BY <3>2, <4>1, <4>2
    <3>6. Shaped'
      BY <1>0, <1>11, <3>4, <3>5 DEF AcceptRestore, Shaped
    <3> QED
      BY <1>1, <3>4, <3>6
  <2> QED
    BY <2>2, <2>3
<1>12. ASSUME NEW q \in Procs, AcceptRecord(q) PROVE Typed'
  <2>1. InHand(job[q]) /\ job[q].c.eligible
    BY <1>0, <1>12 DEF AcceptRecord, At, Ready, Accepting
  <2>2. Moved(q)
    <3>1. PICK end \in {"accepted", "unrecorded"} : End(q, end)
      BY <1>12 DEF AcceptRecord
    <3>2. Became(q, "idle", job[q].p, job[q].token, job[q].c, 0, None, end)
      BY <1>0, <3>1, Ended DEF Ends
    <3> QED
      BY <2>1, <3>1, <3>2 DEF Became, Ready, Accepting, InHand
  <2>3. Shaped'
    BY <1>0, <1>12, <2>1, <2>2 DEF AcceptRecord, Shaped, ghosts, InHand
  <2> QED
    BY <1>1, <2>2, <2>3
<1>13. ASSUME NEW q \in Procs, GraphWrite(q) PROVE Typed'
  <2>1. /\ job[q].p = None /\ job[q].c \in Graphs /\ job[q].n \in 0..5 /\ job[q].end = "none"
        /\ At(q, "graph")
    BY <1>0, <1>13 DEF GraphWrite, At, Ready
  <2>2. Moved(q)
    <3>1. CASE \E end \in {"written", "refused"} : End(q, end)
      <4>1. PICK end \in {"written", "refused"} : End(q, end)
        BY <3>1
      <4>2. Became(q, "idle", job[q].p, job[q].token, job[q].c, 0, None, end)
        BY <1>0, <4>1, Ended DEF Ends
      <4> QED
        BY <4>1, <4>2 DEF Became, Ready, Accepting
    <3>2. CASE GraphFile(q) # "manifest" /\ Next1(q)
      <4>1. Became(q, "graph", job[q].p, job[q].token, job[q].c, job[q].n + 1, job[q].saved, "none")
        BY <1>0, <2>1, <3>2, Went1 DEF At
      <4>2. job[q].n + 1 \in 0..5
        BY <2>1, <3>2, FilesInOrder DEF GraphFile
      <4> QED
        BY <2>1, <4>1, <4>2 DEF Became, Ready, Accepting
    <3> QED
      BY <1>13, <3>1, <3>2 DEF GraphWrite, LineFiles
  <2>3. Shaped'
    <3>1. mixed' \in BOOLEAN /\ overlap' = overlap
      BY <1>0, <1>13 DEF GraphWrite, Shaped
    <3>2. out' \in [ToSet(GraphFiles) -> Graphs \cup {None}] /\ LinesTyped(kept')
      <4>1. CASE out' = [out EXCEPT ![GraphFile(q)] = job[q].c]
                   /\ kept' = [f \in LineFiles |-> IF f = GraphFile(q) THEN Whole ELSE kept[f]]
        BY <1>0, <2>1, <4>1 DEF Shaped, LinesTyped
      <4>2. CASE Torn(q) \/ UNCHANGED <<out, kept>>
        BY <2>1, <4>2, TornLeaves
      <4> QED
        BY <1>13, <4>1, <4>2 DEF GraphWrite, Written
    <3> QED
      BY <1>0, <1>13, <2>2, <3>1, <3>2 DEF GraphWrite, Shaped
  <2> QED
    BY <1>1, <2>2, <2>3
<1>14. ASSUME NEW q \in Procs, Crash(q) PROVE Typed'
  <2>1. Moved(q)
    <3>1. Became(q, "idle", job[q].p, job[q].token, job[q].c, 0, None, "killed")
      BY <1>0, <1>14, Ended DEF Crash, Ends
    <3> QED
      BY <3>1 DEF Became, Ready, Accepting
  <2>2. Shaped'
    <3>1. mixed' \in BOOLEAN
      BY <1>0, <1>14 DEF Crash, Shaped
    <3>2. out' \in [ToSet(GraphFiles) -> Graphs \cup {None}] /\ LinesTyped(kept')
      <4>1. CASE UNCHANGED <<out, kept>>
        BY <1>0, <4>1 DEF Shaped
      <4>2. CASE At(q, "graph") /\ Torn(q)
        BY <4>2, TornLeaves
      <4> QED
        BY <1>14, <4>1, <4>2 DEF Crash
    <3> QED
      BY <1>0, <1>14, <2>1, <3>1, <3>2 DEF Crash, Shaped, bounds
  <2> QED
    BY <1>1, <2>1, <2>2
<1>15. ASSUME NEW e \in Edits, Edit(e) PROVE Typed'
  <2> DEFINE t == [tree EXCEPT ![e.path] = e.text]
  <2>1. t \in Trees
    BY <1>0, ChangeAssumption DEF Trees
  <2>2. WriteTree(t, None)
    BY <1>15 DEF Edit
  <2> HIDE DEF t
  <2>3. /\ tree' \in Trees /\ disturbed' \in [Procs -> BOOLEAN]
        /\ origin' = origin /\ restaged' = restaged
        /\ overlap' = overlap /\ mixed' = mixed
    BY <1>0, <2>1, <2>2, TreeWritten
  <2>4. job' = job
    BY <1>15 DEF Edit
  <2>5. Shaped'
    BY <1>0, <1>15, <2>3, <2>4 DEF Edit, Shaped
  <2> QED
    BY <1>0, <2>4, <2>5 DEF Typed
<1>16. ASSUME UNCHANGED vars PROVE Typed'
  <2>1. Shaped' /\ job' = job
    BY <1>0, <1>16 DEF vars, files, bounds, ghosts, Shaped
  <2> QED
    BY <1>0, <2>1 DEF Typed
<1> QED
  BY <1>2, <1>3, <1>4, <1>5, <1>6, <1>7, <1>8, <1>9, <1>10, <1>11, <1>12, <1>13, <1>14, <1>15,
     <1>16 DEF Next, Step

(* The types of the loop, whatever runs beside what and whatever is edited *)
(* meanwhile; with them every graph a command wrote has the two ends of    *)
(* each of its edges (scan.go:265).                                        *)
THEOREM TypeCorrect == Spec => []TypeOK
<1>1. Typed /\ Counted => TypeOK
  <2> SUFFICES ASSUME Typed, Counted PROVE TypeOK
    OBVIOUS
  <2>1. \A g \in Graphs : IsGraph(g)
    BY EndsAreNodes DEF Graphs
  <2>2. \A q \in Procs : job[q] \in Job /\ disturbed[q] \in BOOLEAN /\ restaged[q] \in BOOLEAN
    BY DEF Typed, Shaped
  <2> QED
    BY <2>1, <2>2 DEF TypeOK, Typed, Shaped, LinesTyped, Ready, At, Counted, Job, Ats, Ends, Accepting
<1> QED
  BY <1>1, TypedInit, TypedStep, CountedStep, PTL DEF Spec

-----------------------------------------------------------------------------
(* One process at a time, or the editor. *)

By(q) ==
  \/ \E p \in Proposals : StageBegin(q, p) \/ AcceptBegin(q, p)
  \/ StageCopy(q) \/ StageWrite(q)
  \/ AcceptLoad(q) \/ AcceptRestage(q) \/ AcceptSnapshot(q)
  \/ AcceptApply(q) \/ AcceptRestore(q) \/ AcceptRecord(q)
  \/ GraphBegin(q) \/ GraphWrite(q) \/ Crash(q)

LEMMA Actors ==
  ASSUME [Next]_vars
  PROVE  (\E q \in Procs : By(q)) \/ (\E e \in Edits : Edit(e)) \/ UNCHANGED vars
BY DEF Next, Step, By

(* Process r goes on as before: who writes the tree or the candidate       *)
(* directory beside it is held against it.                                 *)
Kept(r) ==
  /\ job'[r] = job[r] /\ origin'[r] = origin[r]
  /\ disturbed[r] => disturbed'[r]
  /\ restaged[r] => restaged'[r]
  /\ ~disturbed'[r] => tree' = tree
  /\ ~restaged'[r] => dir' = dir

LEMMA OthersKept ==
  ASSUME Typed, NEW q \in Procs, By(q), NEW r \in Procs, r # q
  PROVE  Kept(r)
<1>0. /\ job \in [Procs -> Job] /\ origin \in [Procs -> Trees]
      /\ disturbed \in [Procs -> BOOLEAN] /\ restaged \in [Procs -> BOOLEAN] /\ Shaped
  BY DEF Typed, Shaped
<1>1. CASE \E p \in Proposals : StageBegin(q, p) \/ AcceptBegin(q, p)
  <2>1. PICK p \in Proposals : StageBegin(q, p) \/ AcceptBegin(q, p)
    BY <1>1
  <2>2. \E command, state : Begin(command, q, state)
    BY <2>1, Zenon DEF StageBegin, AcceptBegin
  <2>3. job'[r] = job[r] /\ origin'[r] = origin[r] /\ disturbed'[r] = disturbed[r] /\ tree' = tree
    BY <1>0, <2>2 DEF Begin, Enter
  <2>4. CASE StageBegin(q, p)
    BY <1>0, <2>3, <2>4 DEF StageBegin, Kept
  <2>5. CASE AcceptBegin(q, p)
    BY <1>0, <2>3, <2>5 DEF AcceptBegin, Kept
  <2> QED
    BY <2>1, <2>4, <2>5
<1>2. CASE GraphBegin(q)
  BY <1>0, <1>2 DEF GraphBegin, Begin, Enter, Kept
<1>3. CASE StageCopy(q) \/ AcceptLoad(q) \/ AcceptRestage(q) \/ AcceptSnapshot(q)
  BY <1>0, <1>3 DEF StageCopy, AcceptLoad, AcceptRestage, AcceptSnapshot, End, Goto, Enter, Kept,
              files, ghosts
<1>4. CASE StageWrite(q)
  <2>1. job'[r] = job[r]
    BY <1>0, <1>4 DEF StageWrite, End, Next1, Enter
  <2>2. restaged'[r] = TRUE /\ tree' = tree /\ origin' = origin /\ disturbed' = disturbed
    BY <1>0, <1>4 DEF StageWrite
  <2> QED
    BY <2>1, <2>2 DEF Kept
<1>5. CASE AcceptApply(q)
  <2>1. job'[r] = job[r]
    BY <1>0, <1>5 DEF AcceptApply, Goto, Next1, Enter
  <2>2. dir' = dir
    BY <1>5 DEF AcceptApply
  <2>3. \/ UNCHANGED tree /\ UNCHANGED ghosts
        \/ \E t : WriteTree(t, q)
    BY <1>5 DEF AcceptApply
  <2>4. UNCHANGED <<origin, restaged>> /\ (disturbed[r] => disturbed'[r])
          /\ (~disturbed'[r] => tree' = tree)
    BY <1>0, <2>3 DEF WriteTree, ghosts
  <2> QED
    BY <2>1, <2>2, <2>4 DEF Kept
<1>6. CASE AcceptRestore(q)
  <2>1. job'[r] = job[r]
    BY <1>0, <1>6 DEF AcceptRestore, End, Next1, Enter
  <2>2. dir' = dir
    BY <1>6 DEF AcceptRestore
  <2>3. \/ UNCHANGED tree /\ UNCHANGED ghosts
        \/ \E t : WriteTree(t, q)
        \/ disturbed' = [disturbed EXCEPT ![q] = TRUE] /\ UNCHANGED <<tree, origin, restaged>>
    BY <1>6 DEF AcceptRestore
  <2>4. UNCHANGED <<origin, restaged>> /\ (disturbed[r] => disturbed'[r])
          /\ (~disturbed'[r] => tree' = tree)
    <3>1. CASE UNCHANGED tree /\ UNCHANGED ghosts
      BY <3>1 DEF ghosts
    <3>2. CASE \E t : WriteTree(t, q)
      BY <1>0, <3>2 DEF WriteTree
    <3>3. CASE disturbed' = [disturbed EXCEPT ![q] = TRUE] /\ UNCHANGED <<tree, origin, restaged>>
      BY <1>0, <3>3
    <3> QED
      BY <2>3, <3>1, <3>2, <3>3
  <2> QED
    BY <2>1, <2>2, <2>4 DEF Kept
<1>7. CASE AcceptRecord(q)
  BY <1>0, <1>7 DEF AcceptRecord, End, Enter, Kept, ghosts
<1>8. CASE GraphWrite(q)
  BY <1>0, <1>8 DEF GraphWrite, End, Next1, Enter, Kept
<1>9. CASE Crash(q)
  BY <1>0, <1>9 DEF Crash, End, Enter, Kept
<1> QED
  BY <1>1, <1>2, <1>3, <1>4, <1>5, <1>6, <1>7, <1>8, <1>9 DEF By

LEMMA EditorKeeps ==
  ASSUME Typed, NEW e \in Edits, Edit(e), NEW r \in Procs
  PROVE  Kept(r)
<1>1. r # None
  BY SentinelAssumption
<1>2. \E t : WriteTree(t, None)
  BY DEF Edit
<1>3. disturbed \in [Procs -> BOOLEAN]
  BY DEF Typed, Shaped
<1>4. UNCHANGED <<origin, restaged>> /\ (disturbed[r] => disturbed'[r])
        /\ (~disturbed'[r] => tree' = tree)
  BY <1>1, <1>2, <1>3 DEF WriteTree
<1> QED
  BY <1>4 DEF Edit, Kept

LEMMA StutterKeeps ==
  ASSUME UNCHANGED vars, NEW r \in Procs
  PROVE  Kept(r)
BY DEF vars, files, ghosts, Kept

(* The process that moves keeps what it is held against, too.              *)
LEMMA OwnKept ==
  ASSUME Typed, NEW q \in Procs,
         AcceptRestage(q) \/ AcceptSnapshot(q) \/ AcceptApply(q) \/ AcceptRestore(q)
           \/ AcceptRecord(q)
  PROVE  /\ job[q].at \in Accepting
         /\ job'[q].p = job[q].p /\ job'[q].token = job[q].token /\ job'[q].c = job[q].c
         /\ origin' = origin /\ restaged' = restaged
         /\ disturbed[q] => disturbed'[q]
<1>0. job \in [Procs -> Job] /\ disturbed \in [Procs -> BOOLEAN]
  BY DEF Typed, Shaped
<1>1. CASE AcceptRestage(q)
  <2>1. Goto(q, "snapshot") \/ End(q, "refused")
    BY <1>1 DEF AcceptRestage
  <2>2. job'[q].p = job[q].p /\ job'[q].token = job[q].token /\ job'[q].c = job[q].c
    BY <1>0, <2>1, WentTo, Ended DEF Became, Ats, Accepting, Ends
  <2> QED
    BY <1>1, <2>2 DEF AcceptRestage, At, Accepting, ghosts
<1>2. CASE AcceptSnapshot(q)
  <2>1. job'[q].p = job[q].p /\ job'[q].token = job[q].token /\ job'[q].c = job[q].c
    BY <1>2, AcceptSnapshots DEF Became
  <2> QED
    BY <1>2, <2>1 DEF AcceptSnapshot, At, Accepting, ghosts
<1>3. CASE AcceptApply(q)
  <2>1. Goto(q, "record") \/ Goto(q, "restore") \/ Next1(q)
    BY <1>3 DEF AcceptApply
  <2>2. job'[q].p = job[q].p /\ job'[q].token = job[q].token /\ job'[q].c = job[q].c
    BY <1>0, <2>1, WentTo, Went1 DEF Became, Ats, Accepting
  <2>3. UNCHANGED ghosts \/ \E t : WriteTree(t, q)
    BY <1>3 DEF AcceptApply
  <2>4. origin' = origin /\ restaged' = restaged /\ (disturbed[q] => disturbed'[q])
    BY <1>0, <2>3 DEF WriteTree, ghosts
  <2> QED
    BY <1>3, <2>2, <2>4 DEF AcceptApply, At, Accepting
<1>4. CASE AcceptRestore(q)
  <2>1. End(q, "restored") \/ Next1(q)
    BY <1>4 DEF AcceptRestore
  <2>2. job'[q].p = job[q].p /\ job'[q].token = job[q].token /\ job'[q].c = job[q].c
    BY <1>0, <2>1, Ended, Went1 DEF Became, Ends
  <2>3. \/ UNCHANGED ghosts
        \/ \E t : WriteTree(t, q)
        \/ disturbed' = [disturbed EXCEPT ![q] = TRUE] /\ UNCHANGED <<origin, restaged>>
    BY <1>4 DEF AcceptRestore
  <2>4. origin' = origin /\ restaged' = restaged /\ (disturbed[q] => disturbed'[q])
    BY <1>0, <2>3 DEF WriteTree, ghosts
  <2> QED
    BY <1>4, <2>2, <2>4 DEF AcceptRestore, At, Accepting
<1>5. CASE AcceptRecord(q)
  <2>1. End(q, "accepted") \/ End(q, "unrecorded")
    BY <1>5 DEF AcceptRecord
  <2>2. job'[q].p = job[q].p /\ job'[q].token = job[q].token /\ job'[q].c = job[q].c
    BY <1>0, <2>1, Ended DEF Became, Ends
  <2> QED
    BY <1>5, <2>2 DEF AcceptRecord, At, Accepting, ghosts
<1> QED
  BY <1>1, <1>2, <1>3, <1>4, <1>5

-----------------------------------------------------------------------------
(* What is accepted. *)

LEMMA ReviewKept ==
  ASSUME NEW r \in Procs, Kept(r),
         Reviewed(job[r], origin[r], disturbed[r], restaged[r], tree, dir)
  PROVE  Reviewed(job'[r], origin'[r], disturbed'[r], restaged'[r], tree', dir')
BY DEF Kept, Reviewed

LEMMA ReviewInit == Init => Reviewing
BY DEF Init, Idle, Reviewing, Reviewed, Accepting

LEMMA ReviewStep == Typed /\ Reviewing /\ [Next]_vars => Reviewing'
<1> SUFFICES ASSUME Typed, Reviewing, [Next]_vars PROVE Reviewing'
  OBVIOUS
<1> DEFINE Now(r) == Reviewed(job[r], origin[r], disturbed[r], restaged[r], tree, dir)
           Then(r) == Reviewed(job'[r], origin'[r], disturbed'[r], restaged'[r], tree', dir')
<1>0. /\ job \in [Procs -> Job] /\ origin \in [Procs -> Trees]
      /\ disturbed \in [Procs -> BOOLEAN] /\ restaged \in [Procs -> BOOLEAN]
      /\ \A r \in Procs : Now(r) /\ Ready(job[r])
  BY DEF Reviewing, Typed, Shaped
<1> SUFFICES \A r \in Procs : Then(r)
  BY DEF Reviewing
<1>1. ASSUME \A r \in Procs : Kept(r) PROVE \A r \in Procs : Then(r)
  BY <1>0, <1>1, ReviewKept
<1>2. ASSUME NEW q \in Procs, By(q) PROVE Then(q)
  <2>1. CASE \E p \in Proposals : StageBegin(q, p)
    <3>1. job'[q].at = "copy" /\ job'[q].end = "none"
      BY <2>1, StageBegins DEF Became
    <3> QED
      BY <3>1 DEF Reviewed, Accepting
  <2>2. CASE \E p \in Proposals : AcceptBegin(q, p)
    <3>1. PICK p \in Proposals : AcceptBegin(q, p)
      BY <2>2
    <3>2. job'[q].at = "load" /\ job'[q].end = "none" /\ job'[q].token = p
      BY <3>1, AcceptBegins DEF Became
    <3>3. dir'.candidate.proposal = p /\ tree' = origin'[q]
      BY <1>0, <3>1 DEF AcceptBegin, Begin
    <3> QED
      BY <3>2, <3>3 DEF Reviewed, Accepting
  <2>3. CASE GraphBegin(q)
    <3>1. job'[q].at = "graph" /\ job'[q].end = "none"
      BY <2>3, GraphBegins DEF Became
    <3> QED
      BY <3>1 DEF Reviewed, Accepting
  <2>4. CASE StageCopy(q)
    <3>1. job'[q].at \in {"write", "idle"} /\ job'[q].end \in {"none", "refused"}
      BY <2>4, StageCopies DEF Became
    <3> QED
      BY <3>1 DEF Reviewed, Accepting
  <2>5. CASE StageWrite(q)
    <3>1. job[q].at = "write" /\ job[q].end = "none"
      BY <1>0, <2>5 DEF StageWrite, At, Ready
    <3>2. End(q, "staged") \/ Next1(q)
      BY <2>5 DEF StageWrite
    <3>3. job'[q].at \in {"write", "idle"} /\ job'[q].end \in {"none", "staged"}
      BY <1>0, <3>1, <3>2, Ended, Went1 DEF Became, Ends
    <3> QED
      BY <3>3 DEF Reviewed, Accepting
  <2>6. CASE AcceptLoad(q)
    <3>1. CASE /\ LoadCandidate /\ Build(tree) = dir.candidate.base
               /\ Became(q, "restage", dir.proposal, job[q].token, dir.candidate, job[q].n,
                         job[q].saved, "none")
      <4>1. restaged[q] \/ dir.candidate.proposal = job[q].token
        BY <1>0, <2>6 DEF AcceptLoad, At, Reviewed
      <4>2. disturbed[q] \/ tree = origin[q]
        BY <1>0, <2>6 DEF AcceptLoad, At, Reviewed
      <4>3. dir.candidate.proposal = dir.proposal
        BY <3>1 DEF LoadCandidate
      <4>4. origin' = origin /\ restaged' = restaged /\ disturbed' = disturbed
        BY <2>6 DEF AcceptLoad, ghosts
      <4> QED
        BY <3>1, <4>1, <4>2, <4>3, <4>4 DEF Reviewed, Became, Accepting
    <3>2. CASE Became(q, "idle", None, job[q].token, job[q].c, 0, None, "refused")
      BY <3>2 DEF Reviewed, Became, Accepting
    <3> QED
      BY <2>6, <3>1, <3>2, AcceptLoads
  <2>7. CASE AcceptRestage(q) \/ AcceptSnapshot(q) \/ AcceptApply(q) \/ AcceptRestore(q)
               \/ AcceptRecord(q)
    <3>1. /\ job[q].at \in Accepting
          /\ job'[q].p = job[q].p /\ job'[q].token = job[q].token /\ job'[q].c = job[q].c
          /\ origin' = origin /\ restaged' = restaged /\ (disturbed[q] => disturbed'[q])
      BY <2>7, OwnKept
    <3>2. /\ restaged[q] \/ job[q].p = job[q].token
          /\ disturbed[q] \/ Build(origin[q]) = job[q].c.base
      BY <1>0, <3>1 DEF Reviewed
    <3>3. job'[q].at # "load"
      <4>1. job[q].at # "load" /\ \/ \E at \in Accepting : Goto(q, at)
                                  \/ \E end \in Ends : End(q, end)
                                  \/ Next1(q) \/ AcceptSnapshot(q)
        BY <2>7, <3>1 DEF AcceptRestage, AcceptApply, AcceptRestore, AcceptRecord, Accepting, Ends
      <4>2. CASE \E at \in Accepting : Goto(q, at)
        BY <1>0, <4>2, WentTo DEF Became, Accepting, Ats
      <4>3. CASE \E end \in Ends : End(q, end)
        BY <1>0, <4>3, Ended DEF Became
      <4>4. CASE Next1(q)
        BY <1>0, <4>1, <4>4, Went1 DEF Became
      <4>5. CASE AcceptSnapshot(q)
        BY <4>5, AcceptSnapshots DEF Became
      <4> QED
        BY <4>1, <4>2, <4>3, <4>4, <4>5
    <3> QED
      BY <3>1, <3>2, <3>3 DEF Reviewed
  <2>8. CASE GraphWrite(q)
    <3>1. job[q].at = "graph" /\ job[q].end = "none"
      BY <1>0, <2>8 DEF GraphWrite, At, Ready
    <3>2. (\E end \in {"written", "refused"} : End(q, end)) \/ Next1(q)
      BY <2>8 DEF GraphWrite
    <3>3. job'[q].at \in {"graph", "idle"} /\ job'[q].end \in {"none", "written", "refused"}
      BY <1>0, <3>1, <3>2, Ended, Went1 DEF Became, Ends
    <3> QED
      BY <3>3 DEF Reviewed, Accepting
  <2>9. CASE Crash(q)
    <3>1. job'[q].at = "idle" /\ job'[q].end = "killed"
      BY <1>0, <2>9, Ended DEF Crash, Became, Ends
    <3> QED
      BY <3>1 DEF Reviewed, Accepting
  <2> HIDE DEF Then
  <2> QED
    BY <1>2, <2>1, <2>2, <2>3, <2>4, <2>5, <2>6, <2>7, <2>8, <2>9 DEF By
<1>3. ASSUME NEW q \in Procs, By(q) PROVE \A r \in Procs : Then(r)
  <2>1. \A r \in Procs : r # q => Then(r)
    BY <1>0, <1>3, OthersKept, ReviewKept
  <2> HIDE DEF Then
  <2> QED
    BY <1>2, <1>3, <2>1
<1> HIDE DEF Then
<1> QED
  BY <1>1, <1>3, Actors, EditorKeeps, StutterKeeps

(* What a change-accept accepts is what was reviewed, whoever stages into  *)
(* the candidate directory and whoever edits the tree in the meantime      *)
(* (change.go:144-219).                                                    *)
THEOREM AcceptsTheReviewed == Spec => []AcceptedIsReviewed
<1>1. Typed /\ Reviewing => AcceptedIsReviewed
  <2> SUFFICES ASSUME Typed, Reviewing, NEW q \in Procs,
                      job[q].end = "accepted" \/ At(q, "record")
               PROVE  LET c == job[q].c
                          p == job[q].p
                      IN /\ c.proposal = p /\ c.eligible /\ checkExpectations(c.graph, p)
                         /\ c.base = Plan[p].base /\ DiffTells(c.diff, c.base, c.graph)
                         /\ p = job[q].token \/ restaged[q]
                         /\ Build(origin[q]) = c.base \/ disturbed[q]
    BY DEF AcceptedIsReviewed
  <2>1. InHand(job[q]) /\ job[q].c.eligible
    BY DEF Typed, Ready, Accepting, At
  <2>2. /\ restaged[q] \/ job[q].p = job[q].token
        /\ disturbed[q] \/ Build(origin[q]) = job[q].c.base
    BY DEF Reviewing, Reviewed, Accepting, At
  <2>3. /\ job[q].c.base = Plan[job[q].p].base
        /\ DiffTells(job[q].c.diff, job[q].c.base, job[q].c.graph)
        /\ checkExpectations(job[q].c.graph, job[q].p)
    BY <2>1, CandidateTyped, CompareTells DEF InHand
  <2> QED
    BY <2>1, <2>2, <2>3 DEF InHand
<1> QED
  BY <1>1, TypedInit, TypedStep, CountedStep, ReviewInit, ReviewStep, PTL DEF Spec

-----------------------------------------------------------------------------
(* What an acceptance leaves behind. *)

LEMMA WayLeads ==
  ASSUME Typed, NEW q \in Procs, job[q].p \in Proposals
  PROVE  LET steps == Way(job[q], origin[q])
             m == Len(Changes(job[q].p))
         IN /\ origin[q] \in Trees /\ origin[q] # Absent /\ m \in Nat
            /\ Through(steps, origin[q], job[q].p)
            /\ DOMAIN steps = 0..m /\ 0 \in 0..m /\ m \in 0..m /\ steps[0] = origin[q]
<1>1. origin[q] \in Trees /\ origin[q] # Absent
  BY SentinelAssumption DEF Typed, Shaped
<1>2. Through(Way(job[q], origin[q]), origin[q], job[q].p)
  BY <1>1, AppliedThrough DEF Way
<1>3. Len(Changes(job[q].p)) \in Nat
  BY ChangesTyped
<1> QED
  BY <1>1, <1>2, <1>3 DEF Through

(* Where the way back begins, every path is as it was or has a snapshot.   *)
LEMMA ReturnBegins ==
  ASSUME Typed, NEW q \in Procs, job[q].p \in Proposals, NEW j,
         j.n = 0, j.saved = job[q].saved, Saves(job[q].saved, job[q].p, origin[q]),
         NEW n \in 0..Len(Changes(job[q].p)), tree = Way(job[q], origin[q])[n]
  PROVE  Returning(j, origin[q], tree, Way(job[q], origin[q]))
<1> DEFINE steps == Way(job[q], origin[q])
<1>1. /\ Through(steps, origin[q], job[q].p) /\ origin[q] \in Trees
      /\ DOMAIN steps = 0..Len(Changes(job[q].p))
  BY WayLeads
<1>2. steps[n] # Absent /\ tree = steps[n]
  BY SentinelAssumption DEF Typed, Shaped
<1> HIDE DEF steps
<1>3. ASSUME NEW f \in Paths
      PROVE  tree[f] = origin[q][f] \/
               /\ \E k \in DOMAIN j.saved : k > j.n /\ j.saved[k].path = f
               /\ \E i \in DOMAIN steps : steps[i] # Absent /\ tree[f] = steps[i][f]
  <2>1. CASE \A i \in 1..Len(Changes(job[q].p)) : Changes(job[q].p)[i].path # f
    BY <1>1, <1>2, <2>1, OnlyNamedChange
  <2>2. CASE \E i \in 1..Len(Changes(job[q].p)) : Changes(job[q].p)[i].path = f
    <3>1. PICK k \in DOMAIN j.saved : j.saved[k].path = f
      BY <2>2 DEF Saves
    <3>2. k > j.n
      BY <3>1 DEF Saves, Snapshots
    <3> QED
      BY <1>1, <1>2, <3>1, <3>2
  <2> QED
    BY <2>1, <2>2
<1> QED
  BY <1>3 DEF Returning, steps

LEMMA ApplyKeeps ==
  ASSUME Typed, NEW q \in Procs, AcceptApply(q), job[q].p # None,
         Untouched(job[q], origin[q], tree)
  PROVE  Untouched(job'[q], origin'[q], tree')
<1> DEFINE p == job[q].p
           m == Len(Changes(p))
           o == origin[q]
           n == job[q].n
           c == Changes(p)[n + 1]
           steps == Way(job[q], o)
<1>1. /\ At(q, "apply") /\ job[q].at = "apply" /\ p \in Proposals /\ job[q].end = "none"
      /\ n \in 0..m /\ job \in [Procs -> Job] /\ Shaped /\ tree \in Trees
  BY DEF Typed, Shaped, Ready, InHand, Accepting, AcceptApply, At
<1>2. Saves(job[q].saved, p, o) /\ tree = steps[n]
  BY <1>1 DEF Untouched
<1>3. Through(steps, o, p) /\ m \in Nat
  BY <1>1, WayLeads
<1>4. origin' = origin
  BY OwnKept
<1>5. ASSUME NEW j, j.p = p PROVE Way(j, origin'[q]) = steps
  BY <1>4, <1>5 DEF Way
<1>6. CASE Goto(q, "restore") /\ UNCHANGED tree
  <2>1. Became(q, "restore", p, job[q].token, job[q].c, 0, job[q].saved, "none")
    BY <1>1, <1>6, WentTo DEF Ats, Accepting
  <2>2. Returning(job'[q], o, tree, steps)
    BY <1>1, <1>2, <2>1, ReturnBegins DEF Became
  <2>3. Way(job'[q], origin'[q]) = steps
    BY <1>5, <2>1 DEF Became
  <2> HIDE DEF steps
  <2> QED
    BY <1>2, <1>4, <1>6, <2>1, <2>2, <2>3 DEF Became, Untouched
<1>7. CASE n = m /\ Reproduces(tree, q) /\ Goto(q, "record") /\ UNCHANGED tree
  <2>1. Became(q, "record", p, job[q].token, job[q].c, 0, job[q].saved, "none")
    BY <1>1, <1>7, WentTo DEF Ats, Accepting
  <2>2. Matches(tree, job[q].c)
    BY <1>7 DEF Reproduces, Matches
  <2>3. Way(job'[q], origin'[q]) = steps
    BY <1>5, <2>1 DEF Became
  <2> HIDE DEF steps
  <2> QED
    BY <1>2, <1>4, <1>7, <2>1, <2>2, <2>3 DEF Became, Untouched
<1>8. CASE n # m /\ Applicable(tree, c) /\ WriteTree(Mutated(tree, c), q) /\ Next1(q)
  <2>1. Became(q, "apply", p, job[q].token, job[q].c, n + 1, job[q].saved, "none")
    BY <1>1, <1>8, Went1
  <2>2. n + 1 \in 1..m /\ (n + 1) - 1 = n
    BY <1>1, <1>3, <1>8
  <2>3. tree # Absent
    BY <1>1, SentinelAssumption
  <2>4. steps[n + 1] = Mutated(tree, c)
    <3> HIDE DEF steps
    <3> QED
      BY <1>2, <1>3, <1>8, <2>2, <2>3 DEF Through
  <2>5. tree' = steps[n + 1]
    BY <1>8, <2>4 DEF WriteTree
  <2>6. Way(job'[q], origin'[q]) = steps
    BY <1>5, <2>1 DEF Became
  <2> HIDE DEF steps
  <2> QED
    BY <1>2, <1>4, <2>1, <2>5, <2>6 DEF Became, Untouched
<1> QED
  BY <1>6, <1>7, <1>8 DEF AcceptApply, Changes, ghosts

LEMMA RestoreKeeps ==
  ASSUME Typed, NEW q \in Procs, AcceptRestore(q), job[q].p # None, ~disturbed'[q],
         Untouched(job[q], origin[q], tree)
  PROVE  Untouched(job'[q], origin'[q], tree')
<1> DEFINE p == job[q].p
           o == origin[q]
           n == job[q].n
           saved == job[q].saved
           s == saved[n + 1]
           steps == Way(job[q], o)
<1>1. /\ At(q, "restore") /\ job[q].at = "restore" /\ p \in Proposals /\ job[q].end = "none"
      /\ n \in 0..Len(saved) /\ job \in [Procs -> Job] /\ Shaped /\ tree \in Trees /\ o \in Trees
      /\ disturbed \in [Procs -> BOOLEAN]
  BY DEF Typed, Shaped, Ready, InHand, Accepting, AcceptRestore, At
<1>2. Saves(saved, p, o) /\ Returning(job[q], o, tree, steps)
  BY <1>1 DEF Untouched
<1>3. saved \in Snapshots(o) /\ DOMAIN saved = 1..Len(saved) /\ Len(saved) \in Nat
  BY <1>2 DEF Saves, Snapshots
<1>4. origin' = origin
  BY OwnKept
<1>5. ASSUME NEW j, j.p = p PROVE Way(j, origin'[q]) = steps
  BY <1>4, <1>5 DEF Way
<1>6. CASE n = Len(saved)
  <2>1. Became(q, "idle", p, job[q].token, job[q].c, 0, None, "restored") /\ tree' = tree
    BY <1>1, <1>6, Ended DEF AcceptRestore, Ends
  <2>2. \A f \in Paths : tree[f] = o[f]
    BY <1>1, <1>2, <1>3, <1>6 DEF Returning
  <2>3. tree = o
    BY <1>1, <2>2 DEF Trees
  <2> QED
    BY <1>4, <2>1, <2>3 DEF Became, Untouched
<1>7. CASE n # Len(saved)
  <2>1. Next1(q) /\ WriteTree([tree EXCEPT ![s.path] = s.text], q)
    BY <1>1, <1>7 DEF AcceptRestore
  <2>2. Became(q, "restore", p, job[q].token, job[q].c, n + 1, saved, "none")
    BY <1>1, <2>1, Went1
  <2>3. n + 1 \in 1..Len(saved)
    BY <1>1, <1>3, <1>7
  <2>4. s.path \in Paths /\ s.text = o[s.path]
    <3>1. s \in {[path |-> f, text |-> o[f]] : f \in Paths}
      <4> DEFINE S == {[path |-> f, text |-> o[f]] : f \in Paths}
      <4>1. saved \in Seq(S)
        BY <1>3 DEF Snapshots
      <4> HIDE DEF S, saved, o, n
      <4>2. saved[n + 1] \in S
        BY <1>3, <2>3, <4>1
      <4> QED
        BY <4>2 DEF S
    <3> HIDE DEF s, o
    <3>2. PICK f \in Paths : s = [path |-> f, text |-> o[f]]
      BY <3>1
    <3>3. s.path = f /\ s.text = o[f]
      BY <3>2
    <3> QED
      BY <3>3
  <2> HIDE DEF steps
  <2>5. ASSUME NEW f \in Paths
        PROVE  tree'[f] = o[f] \/
                 /\ \E k \in DOMAIN saved : k > n + 1 /\ saved[k].path = f
                 /\ \E i \in DOMAIN steps : steps[i] # Absent /\ tree'[f] = steps[i][f]
    <3>1. tree' = [tree EXCEPT ![s.path] = s.text] /\ DOMAIN tree = Paths
      BY <1>1, <2>1 DEF WriteTree, Trees
    <3>2. CASE f = s.path
      BY <2>4, <3>1, <3>2
    <3>3. CASE f # s.path
      <4>1. tree'[f] = tree[f]
        BY <3>1, <3>3
      <4>2. \A k \in DOMAIN saved : k > n /\ saved[k].path = f => k > n + 1
        BY <1>1, <1>3, <3>3
      <4> HIDE DEF saved, n
      <4> QED
        BY <1>2, <4>1, <4>2 DEF Returning, saved, n
    <3> QED
      BY <3>2, <3>3
  <2>6. Returning(job'[q], o, tree', steps)
    BY <2>2, <2>5 DEF Returning, Became
  <2>7. Way(job'[q], origin'[q]) = steps
    BY <1>5, <2>2 DEF Became
  <2> QED
    BY <1>2, <1>4, <2>2, <2>6, <2>7 DEF Became, Untouched
<1> QED
  BY <1>6, <1>7

LEMMA CrashKeeps ==
  ASSUME Typed, NEW q \in Procs, Crash(q), job[q].p # None,
         Untouched(job[q], origin[q], tree)
  PROVE  Untouched(job'[q], origin'[q], tree')
<1> DEFINE p == job[q].p
           o == origin[q]
           steps == Way(job[q], o)
<1>1. /\ job[q].at \in Ats \ {"idle", "load", "graph"} /\ p \in Proposals /\ job[q].end = "none"
      /\ job \in [Procs -> Job] /\ tree \in Trees /\ tree # Absent
  <2>1. job[q].at \in Ats /\ Ready(job[q]) /\ job[q].p \in Proposals \cup {None}
    BY DEF Typed, Shaped, Job
  <2>2. job[q].at # "idle"
    BY DEF Crash, At
  <2> QED
    BY <2>1, <2>2, SentinelAssumption DEF Ready, Typed, Shaped
<1>2. /\ o \in Trees /\ o # Absent /\ Through(steps, o, p) /\ steps[0] = o
      /\ Len(Changes(p)) \in Nat /\ DOMAIN steps = 0..Len(Changes(p))
  BY <1>1, WayLeads
<1>3. /\ Became(q, "idle", p, job[q].token, job[q].c, 0, None, "killed")
      /\ tree' = tree /\ origin' = origin
  BY <1>1, Ended DEF Crash, Ends
<1>4. Way(job'[q], origin'[q]) = steps
  BY <1>3 DEF Way, Became
<1> HIDE DEF steps
<1>5. ASSUME NEW n \in DOMAIN steps, tree = steps[n] PROVE Midway(tree, steps)
  BY <1>1, <1>5 DEF Midway
<1>6. Midway(tree, steps)
  <2>1. CASE job[q].at \in {"copy", "write", "restage", "snapshot"}
    <3>1. tree = o
      BY <2>1 DEF Untouched
    <3> QED
      BY <1>2, <1>5, <3>1
  <2>2. CASE job[q].at = "apply"
    <3>1. tree = steps[job[q].n] /\ job[q].n \in 0..Len(Changes(p))
      BY <1>1, <2>2 DEF Untouched, Typed, Ready, steps
    <3> QED
      BY <1>2, <1>5, <3>1
  <2>3. CASE job[q].at = "record"
    <3>1. tree = steps[Len(Changes(p))]
      BY <2>3 DEF Untouched, steps
    <3> QED
      BY <1>2, <1>5, <3>1
  <2>4. CASE job[q].at = "restore"
    <3>1. Returning(job[q], o, tree, steps)
      BY <2>4 DEF Untouched, steps
    <3>2. ASSUME NEW f \in Paths
          PROVE  \E n \in DOMAIN steps : steps[n] # Absent /\ tree[f] = steps[n][f]
      <4>1. CASE tree[f] = o[f]
        BY <1>2, <4>1
      <4>2. CASE tree[f] # o[f]
        BY <3>1, <4>2 DEF Returning
      <4> QED
        BY <4>1, <4>2
    <3> QED
      BY <3>2 DEF Midway
  <2> QED
    BY <1>1, <2>1, <2>2, <2>3, <2>4 DEF Ats, Accepting
<1> QED
  BY <1>3, <1>4, <1>6 DEF Became, Untouched

LEMMA RollbackInit == Init => Rollback
BY DEF Init, Idle, Rollback, Untouched

LEMMA RollbackKept ==
  ASSUME NEW r \in Procs, Kept(r), disturbed[r] \/ Untouched(job[r], origin[r], tree)
  PROVE  disturbed'[r] \/ Untouched(job'[r], origin'[r], tree')
<1> SUFFICES ASSUME ~disturbed'[r] PROVE Untouched(job'[r], origin'[r], tree')
  OBVIOUS
<1>1. /\ Untouched(job[r], origin[r], tree)
      /\ job'[r] = job[r] /\ origin'[r] = origin[r] /\ tree' = tree
  BY DEF Kept
<1> QED
  BY <1>1, Zenon

LEMMA RollbackStep == Typed /\ Reviewing /\ Rollback /\ [Next]_vars => Rollback'
<1> SUFFICES ASSUME Typed, Reviewing, Rollback, [Next]_vars PROVE Rollback'
  OBVIOUS
<1> DEFINE Now(r) == disturbed[r] \/ Untouched(job[r], origin[r], tree)
           Then(r) == disturbed'[r] \/ Untouched(job'[r], origin'[r], tree')
<1>0. /\ job \in [Procs -> Job] /\ origin \in [Procs -> Trees]
      /\ disturbed \in [Procs -> BOOLEAN]
      /\ \A r \in Procs : Now(r) /\ Ready(job[r])
  BY DEF Rollback, Typed, Shaped
<1> SUFFICES \A r \in Procs : Then(r)
  BY DEF Rollback
<1>1. ASSUME \A r \in Procs : Kept(r) PROVE \A r \in Procs : Then(r)
  BY <1>0, <1>1, RollbackKept
<1>2. ASSUME NEW q \in Procs, By(q) PROVE Then(q)
  <2> SUFFICES ASSUME ~disturbed'[q], job'[q].p # None
               PROVE  Untouched(job'[q], origin'[q], tree')
    BY DEF Untouched
  <2>1. CASE \E p \in Proposals : StageBegin(q, p)
    <3>1. PICK p \in Proposals : StageBegin(q, p)
      BY <2>1
    <3>2. job'[q].at = "copy" /\ job'[q].end = "none"
      BY <3>1, StageBegins DEF Became
    <3>3. origin'[q] = tree'
      BY <1>0, <3>1 DEF StageBegin, Begin
    <3> QED
      BY <3>2, <3>3 DEF Untouched
  <2>2. CASE \E p \in Proposals : AcceptBegin(q, p)
    BY <2>2, AcceptBegins DEF Became
  <2>3. CASE GraphBegin(q)
    BY <2>3, GraphBegins DEF Became
  <2>4. CASE StageCopy(q)
    <3>1. /\ job'[q].at \in {"write", "idle"} /\ job'[q].end \in {"none", "refused"}
          /\ job'[q].p = job[q].p
      BY <2>4, StageCopies DEF Became
    <3>2. /\ job[q].at = "copy" /\ tree' = tree /\ origin' = origin /\ ~disturbed[q]
      BY <2>4 DEF StageCopy, At, files, ghosts
    <3>3. tree = origin[q]
      BY <1>0, <3>1, <3>2 DEF Untouched
    <3> QED
      BY <3>1, <3>2, <3>3 DEF Untouched
  <2>5. CASE StageWrite(q)
    <3>1. job[q].at = "write" /\ job[q].end = "none"
      BY <1>0, <2>5 DEF StageWrite, At, Ready
    <3>2. End(q, "staged") \/ Next1(q)
      BY <2>5 DEF StageWrite
    <3>3. /\ job'[q].at \in {"write", "idle"} /\ job'[q].end \in {"none", "staged"}
          /\ job'[q].p = job[q].p
      BY <1>0, <3>1, <3>2, Ended, Went1 DEF Became, Ends
    <3>4. tree' = tree /\ origin' = origin /\ ~disturbed[q]
      BY <2>5 DEF StageWrite
    <3>5. tree = origin[q]
      BY <1>0, <3>1, <3>3, <3>4 DEF Untouched
    <3> QED
      BY <3>3, <3>4, <3>5 DEF Untouched
  <2>6. CASE AcceptLoad(q)
    <3>1. tree' = tree /\ origin' = origin /\ ~disturbed[q]
      BY <2>6 DEF AcceptLoad, files, ghosts
    <3>2. tree = origin[q]
      BY <2>6, <3>1 DEF Reviewing, Reviewed, AcceptLoad, At
    <3>3. job'[q].at = "restage" /\ job'[q].end = "none"
      BY <2>6, AcceptLoads DEF Became
    <3> QED
      BY <3>1, <3>2, <3>3 DEF Untouched
  <2>7. CASE AcceptRestage(q)
    <3>1. /\ job[q].at = "restage" /\ tree' = tree /\ origin' = origin /\ ~disturbed[q]
      BY <2>7 DEF AcceptRestage, At, files, ghosts
    <3>2. job[q].end = "none"
      BY <1>0, <3>1 DEF Ready
    <3>3. Goto(q, "snapshot") \/ End(q, "refused")
      BY <2>7 DEF AcceptRestage
    <3>4. /\ job'[q].at \in {"snapshot", "idle"} /\ job'[q].end \in {"none", "refused"}
          /\ job'[q].p = job[q].p
      BY <1>0, <3>2, <3>3, WentTo, Ended DEF Became, Ends, Ats, Accepting
    <3>5. tree = origin[q]
      BY <1>0, <3>1, <3>4 DEF Untouched
    <3> QED
      BY <3>1, <3>4, <3>5 DEF Untouched
  <2>8. CASE AcceptSnapshot(q)
    <3>1. /\ job[q].at = "snapshot" /\ tree' = tree /\ origin' = origin /\ ~disturbed[q]
      BY <2>8 DEF AcceptSnapshot, At, files, ghosts
    <3>2. /\ Became(q, "apply", job[q].p, job[q].token, job[q].c, 0, snapshotPaths(job[q].p), "none")
          /\ Saves(snapshotPaths(job[q].p), job[q].p, tree)
      BY <2>8, AcceptSnapshots
    <3>3. tree = origin[q]
      BY <1>0, <3>1, <3>2 DEF Untouched, Became
    <3>4. job[q].p \in Proposals
      BY <1>0, <3>1 DEF Ready, InHand, Accepting
    <3>5. Way(job'[q], origin'[q])[0] = origin[q]
      <4>1. Way(job'[q], origin'[q]) = Way(job[q], origin[q])
        BY <3>1, <3>2 DEF Way, Became
      <4> QED
        BY <3>4, <4>1, WayLeads
    <3> QED
      BY <3>1, <3>2, <3>3, <3>5 DEF Untouched, Became
  <2>9. CASE AcceptApply(q)
    <3>1. ~disturbed[q] /\ job[q].p # None
      BY <2>9, OwnKept
    <3> QED
      BY <1>0, <2>9, <3>1, ApplyKeeps
  <2>10. CASE AcceptRestore(q)
    <3>1. ~disturbed[q] /\ job[q].p # None
      BY <2>10, OwnKept
    <3> QED
      BY <1>0, <2>10, <3>1, RestoreKeeps
  <2>11. CASE AcceptRecord(q)
    <3>1. /\ job[q].at = "record" /\ tree' = tree /\ origin' = origin /\ ~disturbed[q]
      BY <2>11 DEF AcceptRecord, At, ghosts
    <3>2. PICK end \in {"accepted", "unrecorded"} : End(q, end)
      BY <2>11 DEF AcceptRecord
    <3>3. Became(q, "idle", job[q].p, job[q].token, job[q].c, 0, None, end)
      BY <1>0, <3>2, Ended DEF Ends
    <3>4. /\ tree = Way(job[q], origin[q])[Len(Changes(job[q].p))]
          /\ Matches(tree, job[q].c)
      BY <1>0, <3>1, <3>3 DEF Untouched, Became
    <3>5. Way(job'[q], origin'[q]) = Way(job[q], origin[q])
      BY <3>1, <3>3 DEF Way, Became
    <3> QED
      BY <3>1, <3>2, <3>3, <3>4, <3>5 DEF Untouched, Became
  <2>12. CASE GraphWrite(q)
    <3>1. job[q].at = "graph" /\ job[q].p = None
      BY <1>0, <2>12 DEF GraphWrite, At, Ready
    <3>2. (\E end \in {"written", "refused"} : End(q, end)) \/ Next1(q)
      BY <2>12 DEF GraphWrite
    <3> QED
      BY <1>0, <3>1, <3>2, Ended, Went1 DEF Became, Ends
  <2>13. CASE Crash(q)
    <3>1. job'[q].p = job[q].p /\ ~disturbed[q]
      BY <1>0, <2>13, Ended DEF Crash, Became, Ends
    <3> QED
      BY <1>0, <2>13, <3>1, CrashKeeps
  <2> QED
    BY <1>2, <2>1, <2>2, <2>3, <2>4, <2>5, <2>6, <2>7, <2>8, <2>9, <2>10, <2>11, <2>12,
       <2>13 DEF By
<1>3. ASSUME NEW q \in Procs, By(q) PROVE \A r \in Procs : Then(r)
  <2>1. \A r \in Procs : r # q => Then(r)
    BY <1>0, <1>3, OthersKept, RollbackKept
  <2> HIDE DEF Then
  <2> QED
    BY <1>2, <1>3, <2>1
<1> HIDE DEF Then
<1> QED
  BY <1>1, <1>3, Actors, EditorKeeps, StutterKeeps

(* An acceptance that nobody disturbs goes all the way or leaves no trace, *)
(* whichever of its writes fails, and a kill leaves every file as one of   *)
(* its changes left it (change.go:190-219).                                *)
THEOREM AcceptsWholeOrNot == Spec => []AcceptIsAtomic
<1>1. Typed /\ Rollback => AcceptIsAtomic
  <2> SUFFICES ASSUME Typed, Rollback, NEW q \in Procs, job[q].p # None, ~disturbed[q]
               PROVE  LET steps == ApplyChanges(origin[q], Plan[job[q].p].changes)
                          whole == steps[Len(Plan[job[q].p].changes)]
                      IN /\ job[q].end \in {"accepted", "unrecorded"} \/ At(q, "record") =>
                              tree = whole /\ Reproduces(tree, q)
                         /\ job[q].end \in {"refused", "restored"}
                              \/ job[q].at \in {"restage", "snapshot"} => tree = origin[q]
                         /\ job[q].end = "killed" =>
                              \A f \in Paths : \E n \in DOMAIN steps :
                                 steps[n] # Absent /\ tree[f] = steps[n][f]
    BY DEF AcceptIsAtomic
  <2>1. Untouched(job[q], origin[q], tree)
    BY DEF Rollback
  <2>2. Way(job[q], origin[q]) = ApplyChanges(origin[q], Plan[job[q].p].changes)
    BY DEF Way, Changes
  <2> QED
    BY <2>1, <2>2, Zenon DEF Untouched, Matches, Midway, Reproduces, Changes, At
<1> QED
  BY <1>1, TypedInit, TypedStep, CountedStep, ReviewInit, ReviewStep, RollbackInit, RollbackStep,
     PTL DEF Spec

-----------------------------------------------------------------------------
(* What graph-context serves. *)

(* Every other operation leaves the graph directory alone, and a graph     *)
(* command that begins has written nothing.                                *)
LEMMA ElsewhereKept ==
  ASSUME Typed, NEW q \in Procs, By(q), ~GraphWrite(q), ~(Crash(q) /\ At(q, "graph"))
  PROVE  /\ out' = out /\ job[q].at # "graph"
         /\ \/ GraphBegin(q) /\ job'[q].n = 0
            \/ job'[q].at # "graph" /\ overlap' = overlap /\ mixed' = mixed
<1>0. job \in [Procs -> Job] /\ Ready(job[q]) /\ mixed \in BOOLEAN
  BY DEF Typed, Shaped
<1>1. CASE \E p \in Proposals : StageBegin(q, p) \/ AcceptBegin(q, p)
  <2>1. PICK p \in Proposals : StageBegin(q, p) \/ AcceptBegin(q, p)
    BY <1>1
  <2>2. job'[q].at # "graph"
    BY <2>1, StageBegins, AcceptBegins DEF Became
  <2>3. job[q].at = "idle" /\ out' = out /\ overlap' = overlap /\ mixed' = mixed
    BY <2>1 DEF StageBegin, AcceptBegin, Begin, At
  <2> QED
    BY <2>2, <2>3
<1>2. CASE GraphBegin(q)
  <2>1. job'[q].n = 0
    BY <1>2, GraphBegins DEF Became
  <2> QED
    BY <1>2, <2>1 DEF GraphBegin, Begin, At
<1>3. CASE StageCopy(q)
  <2>1. job'[q].at # "graph"
    BY <1>3, StageCopies DEF Became
  <2> QED
    BY <1>3, <2>1 DEF StageCopy, At, files, ghosts
<1>4. CASE StageWrite(q)
  <2>1. job[q].at = "write" /\ (End(q, "staged") \/ Next1(q))
    BY <1>4 DEF StageWrite, At
  <2>2. job'[q].at # "graph"
    BY <1>0, <2>1, Ended, Went1 DEF Became, Ends
  <2> QED
    BY <1>4, <2>1, <2>2 DEF StageWrite
<1>5. CASE AcceptLoad(q)
  <2>1. job'[q].at # "graph"
    BY <1>5, AcceptLoads DEF Became
  <2> QED
    BY <1>5, <2>1 DEF AcceptLoad, At, files, ghosts
<1>6. CASE AcceptRestage(q) \/ AcceptSnapshot(q) \/ AcceptApply(q) \/ AcceptRestore(q)
             \/ AcceptRecord(q)
  <2>1. job[q].at \in Accepting
    BY <1>6, OwnKept
  <2>2. \/ \E at \in Accepting : Goto(q, at)
        \/ \E end \in Ends : End(q, end)
        \/ Next1(q) \/ AcceptSnapshot(q)
    BY <1>6 DEF AcceptRestage, AcceptApply, AcceptRestore, AcceptRecord, Accepting, Ends
  <2>3. job'[q].at # "graph"
    <3>1. CASE \E at \in Accepting : Goto(q, at)
      BY <1>0, <3>1, WentTo DEF Became, Accepting, Ats
    <3>2. CASE \E end \in Ends : End(q, end)
      BY <1>0, <3>2, Ended DEF Became
    <3>3. CASE Next1(q)
      BY <1>0, <2>1, <3>3, Went1 DEF Became, Accepting
    <3>4. CASE AcceptSnapshot(q)
      BY <3>4, AcceptSnapshots DEF Became
    <3> QED
      BY <2>2, <3>1, <3>2, <3>3, <3>4
  <2>4. out' = out /\ overlap' = overlap /\ mixed' = mixed
    BY <1>6 DEF AcceptRestage, AcceptSnapshot, AcceptApply, AcceptRestore, AcceptRecord,
                WriteTree, files, ghosts
  <2> QED
    BY <2>1, <2>3, <2>4 DEF Accepting
<1>7. CASE Crash(q)
  <2>1. job'[q].at = "idle"
    BY <1>0, <1>7, Ended DEF Crash, Became, Ends
  <2>2. ~At(q, "graph")
    BY <1>7
  <2> QED
    BY <1>0, <1>7, <2>1, <2>2 DEF Crash, At
<1> QED
  BY <1>1, <1>2, <1>3, <1>4, <1>5, <1>6, <1>7 DEF By

LEMMA PairedInit == Init => Paired
<1> SUFFICES ASSUME Init PROVE Paired
  OBVIOUS
<1>1. \A q \in Procs : ~At(q, "graph")
  BY DEF Init, Idle, At
<1>2. out["index"] = out["manifest"] /\ overlap = FALSE
  BY FilesInOrder DEF Init
<1> QED
  BY <1>1, <1>2 DEF Paired, Apart, Writing, Pair

(* A graph command that stops does so before its index, after its manifest *)
(* or leaves the files mixed.                                              *)
LEMMA PairedStop ==
  ASSUME Typed, Paired, NEW q \in Procs, At(q, "graph"), job'[q].at # "graph",
         \A r \in Procs : r # q => job'[r] = job[r],
         Torn(q) \/ UNCHANGED <<out, kept>>,
         overlap' = overlap, mixed' = (mixed \/ GraphFile(q) = "manifest")
  PROVE  Paired'
<1>0. overlap \in BOOLEAN /\ mixed \in BOOLEAN /\ job[q].n \in 0..5
  BY DEF Typed, Shaped, Ready, At
<1>1. Apart'
  BY DEF Paired, Apart, At
<1>2. overlap' \/ \A r \in Procs : Writing(r)'
  BY DEF Paired, Apart, Writing, At
<1>3. ASSUME ~mixed' PROVE Pair(out)'
  <2>1. ~mixed /\ ~overlap /\ job[q].n # 5
    <3>1. ~mixed /\ GraphFile(q) # "manifest"
      BY <1>3
    <3>2. ~overlap
      BY <3>1 DEF Paired, Apart
    <3>3. job[q].n # 5
      BY <3>1, FilesInOrder DEF GraphFile
    <3> QED
      BY <3>1, <3>2, <3>3
  <2>2. \A r \in Procs : ~Between(r)
    BY <2>1 DEF Paired, Apart, Between
  <2>3. Pair(out)
    BY <2>1, <2>2 DEF Paired
  <2>4. out'["index"] \in {None, out["index"]} /\ out'["manifest"] \in {None, out["manifest"]}
    BY TornLeaves
  <2> QED
    BY <2>3, <2>4 DEF Pair
<1> QED
  BY <1>1, <1>2, <1>3 DEF Paired

(* One that goes on to the next file has written the one it was at, or one *)
(* of the files of lines broke off.                                        *)
LEMMA PairedNext ==
  ASSUME Typed, Paired, NEW q \in Procs, At(q, "graph"), Next1(q),
         GraphFile(q) # "manifest",
         \/ out' = [out EXCEPT ![GraphFile(q)] = job[q].c]
         \/ Torn(q) /\ GraphFile(q) \in LineFiles,
         overlap' = overlap, mixed' = mixed
  PROVE  Paired'
<1> DEFINE n == job[q].n
           c == job[q].c
<1>0. /\ overlap \in BOOLEAN /\ mixed \in BOOLEAN /\ n \in 0..5 /\ job \in [Procs -> Job]
      /\ out \in [ToSet(GraphFiles) -> Graphs \cup {None}]
  BY DEF Typed, Shaped, Ready, At
<1>1. /\ job'[q].at = "graph" /\ job'[q].n = n + 1 /\ job'[q].c = c
      /\ \A r \in Procs : r # q => job'[r] = job[r]
  BY <1>0, Went1 DEF Became, At
<1>2. /\ n = 0 <=> GraphFile(q) = "graph"
      /\ n = 4 <=> GraphFile(q) = "index"
      /\ n # 5
  BY <1>0, FilesInOrder DEF GraphFile
<1>3. \A f \in {"graph", "index", "manifest"} :
         out'[f] = IF f = GraphFile(q) THEN c ELSE out[f]
  <2>1. CASE out' = [out EXCEPT ![GraphFile(q)] = c]
    BY <1>0, <2>1, FilesInOrder
  <2>2. CASE Torn(q) /\ GraphFile(q) \in LineFiles
    BY <2>2, FilesInOrder, TornLeaves DEF LineFiles
  <2> QED
    BY <2>1, <2>2
<1>4. Apart'
  BY <1>1 DEF Paired, Apart, At
<1>5. ASSUME ~overlap PROVE \A r \in Procs : Writing(r)'
  <2>1. Writing(q) /\ \A r \in Procs : r # q => ~At(r, "graph")
    BY <1>5 DEF Paired, Apart
  <2>2. \A r \in Procs : r # q => Writing(r)'
    BY <1>1, <2>1 DEF Writing, At
  <2>3. out'["graph"] = c
    BY <1>0, <1>2, <1>3, <2>1 DEF Writing
  <2>4. n + 1 >= 5 => out'["index"] = c
    BY <1>0, <1>2, <1>3
  <2>5. Writing(q)'
    <3> HIDE DEF n, c
    <3> QED
      BY <1>1, <2>3, <2>4 DEF Writing, At
  <2> QED
    BY <2>2, <2>5
<1>6. ASSUME ~mixed PROVE (\E r \in Procs : Between(r)') \/ Pair(out)'
  <2>1. CASE n = 4
    <3>1. Between(q)'
      BY <1>1, <2>1 DEF Between, At
    <3> QED
      BY <3>1
  <2>2. CASE n # 4
    <3>1. ~overlap /\ \A r \in Procs : ~Between(r)
      BY <1>2, <1>6 DEF Paired, Apart, Between
    <3>2. Pair(out)
      BY <1>6, <3>1 DEF Paired
    <3>3. out'["index"] = out["index"] /\ out'["manifest"] = out["manifest"]
      BY <1>2, <1>3, <2>2
    <3> QED
      BY <3>2, <3>3 DEF Pair
  <2> QED
    BY <2>1, <2>2
<1> QED
  BY <1>4, <1>5, <1>6 DEF Paired

(* One that began alone and ends by itself leaves one graph.               *)
LEMMA PairedEnd ==
  ASSUME Typed, Paired, NEW q \in Procs, At(q, "graph"), job'[q].at # "graph",
         \A r \in Procs : r # q => job'[r] = job[r],
         GraphFile(q) = "manifest", out' = [out EXCEPT !["manifest"] = job[q].c],
         overlap' = overlap, mixed' = overlap
  PROVE  Paired'
<1>0. /\ overlap \in BOOLEAN /\ job[q].n \in 0..5
      /\ out \in [ToSet(GraphFiles) -> Graphs \cup {None}]
  BY DEF Typed, Shaped, Ready, At
<1>1. job[q].n = 5
  BY <1>0, FilesInOrder DEF GraphFile
<1>2. Apart'
  BY DEF Paired, Apart, At
<1>3. overlap' \/ \A r \in Procs : Writing(r)'
  BY DEF Paired, Apart, Writing, At
<1>4. ASSUME ~overlap PROVE Pair(out)'
  <2>1. out["index"] = job[q].c
    BY <1>1, <1>4 DEF Paired, Writing
  <2>2. out'["index"] = job[q].c /\ out'["manifest"] = job[q].c
    BY <1>0, <2>1, FilesInOrder
  <2> QED
    BY <2>2 DEF Pair
<1> QED
  BY <1>2, <1>3, <1>4 DEF Paired

LEMMA PairedStep == Typed /\ Paired /\ [Next]_vars => Paired'
<1> SUFFICES ASSUME Typed, Paired, [Next]_vars PROVE Paired'
  OBVIOUS
<1>0. /\ job \in [Procs -> Job] /\ overlap \in BOOLEAN /\ mixed \in BOOLEAN
      /\ \A r \in Procs : Ready(job[r])
  BY DEF Typed, Shaped
<1>1. ASSUME NEW q \in Procs, GraphWrite(q) PROVE Paired'
  <2>1. /\ At(q, "graph") /\ overlap' = overlap
        /\ \A r \in Procs : r # q => job'[r] = job[r]
    BY <1>1, OthersKept DEF GraphWrite, By, Kept
  <2>2. ASSUME NEW end \in {"written", "refused"}, End(q, end) PROVE job'[q].at # "graph"
    BY <1>0, <2>2, Ended DEF Became, Ends
  <2> DEFINE verified == GraphFile(q) # "receipts" \/ VerifyProjection(Project(job[q].c))
  <2>3. CASE verified /\ out' = [out EXCEPT ![GraphFile(q)] = job[q].c]
               /\ GraphFile(q) = "manifest" /\ End(q, "written") /\ mixed' = overlap
    BY <2>1, <2>2, <2>3, PairedEnd
  <2>4. CASE /\ verified /\ GraphFile(q) # "manifest" /\ Next1(q) /\ mixed' = mixed
             /\ \/ out' = [out EXCEPT ![GraphFile(q)] = job[q].c]
                \/ Torn(q) /\ GraphFile(q) \in LineFiles
    BY <2>1, <2>4, PairedNext
  <2>5. CASE /\ verified /\ (Torn(q) \/ UNCHANGED <<out, kept>>) /\ End(q, "refused")
             /\ mixed' = (mixed \/ GraphFile(q) = "manifest")
    BY <2>1, <2>2, <2>5, PairedStop
  <2>6. CASE ~verified /\ UNCHANGED <<out, kept>> /\ End(q, "refused") /\ mixed' = mixed
    <3>1. job'[q].at # "graph"
      BY <2>2, <2>6
    <3>2. mixed' = (mixed \/ GraphFile(q) = "manifest")
      BY <1>0, <2>6
    <3> QED
      BY <2>1, <2>6, <3>1, <3>2, PairedStop
  <2> QED
    BY <1>1, <2>3, <2>4, <2>5, <2>6 DEF GraphWrite, Written, LineFiles
<1>2. ASSUME NEW q \in Procs, Crash(q), At(q, "graph") PROVE Paired'
  <2>1. \A r \in Procs : r # q => job'[r] = job[r]
    BY <1>2, OthersKept DEF By, Kept
  <2>2. job'[q].at # "graph"
    BY <1>0, <1>2, Ended DEF Crash, Became, Ends
  <2>3. /\ Torn(q) \/ UNCHANGED <<out, kept>>
        /\ overlap' = overlap /\ mixed' = (mixed \/ GraphFile(q) = "manifest")
    BY <1>2 DEF Crash
  <2> QED
    BY <1>2, <2>1, <2>2, <2>3, PairedStop
<1>3. ASSUME NEW q \in Procs, By(q), ~GraphWrite(q), ~(Crash(q) /\ At(q, "graph"))
      PROVE  Paired'
  <2>1. \A r \in Procs : r # q => job'[r] = job[r]
    BY <1>3, OthersKept DEF Kept
  <2>2. /\ out' = out /\ job[q].at # "graph"
        /\ \/ GraphBegin(q) /\ job'[q].n = 0
           \/ job'[q].at # "graph" /\ overlap' = overlap /\ mixed' = mixed
    BY <1>3, ElsewhereKept
  <2>3. CASE GraphBegin(q) /\ job'[q].n = 0
    <3>1. /\ overlap' = \E r \in Procs : At(r, "graph")
          /\ mixed' = (mixed \/ overlap')
      BY <2>3 DEF GraphBegin
    <3>2. Apart'
      BY <2>1, <2>2, <3>1 DEF Apart, At
    <3>3. ASSUME ~overlap' PROVE \A r \in Procs : Writing(r)'
      BY <2>1, <2>3, <3>1, <3>3 DEF Writing, At
    <3>4. ASSUME ~mixed' PROVE Pair(out)'
      <4>1. ~mixed /\ \A r \in Procs : ~At(r, "graph")
        BY <3>1, <3>4
      <4> QED
        BY <2>2, <4>1 DEF Paired, Between, Pair
    <3> QED
      BY <3>2, <3>3, <3>4 DEF Paired
  <2>4. CASE job'[q].at # "graph" /\ overlap' = overlap /\ mixed' = mixed
    <3>1. Apart' /\ (overlap' \/ \A r \in Procs : Writing(r)')
      BY <2>1, <2>2, <2>4 DEF Paired, Apart, Writing, At
    <3>2. \A r \in Procs : Between(r) => Between(r)'
      BY <2>1, <2>2 DEF Between, At
    <3> QED
      BY <2>2, <2>4, <3>1, <3>2 DEF Paired, Pair
  <2> QED
    BY <2>2, <2>3, <2>4
<1>4. ASSUME job' = job, out' = out, overlap' = overlap, mixed' = mixed PROVE Paired'
  BY <1>4 DEF Paired, Apart, Writing, Between, Pair, At
<1>5. ASSUME NEW e \in Edits, Edit(e) PROVE Paired'
  BY <1>4, <1>5 DEF Edit, WriteTree
<1>6. ASSUME UNCHANGED vars PROVE Paired'
  BY <1>4, <1>6 DEF vars, files, ghosts
<1> QED
  BY <1>1, <1>2, <1>3, <1>5, <1>6, Actors

(* What each file of lines lets a reader see, all of them if it is whole.   *)
LEMMA KeptLines ==
  ASSUME LinesTyped(kept)
  PROVE  /\ LoadedActs.receipts \subseteq Project(out["receipts"]).receipts
         /\ LoadedActs.evidence \subseteq Project(out["evidence"]).evidence
         /\ LoadedActs.links \subseteq Project(out["links"]).links
         /\ kept["receipts"] = Whole => LoadedActs.receipts = Project(out["receipts"]).receipts
         /\ kept["links"] = Whole => LoadedActs.links = Project(out["links"]).links
         /\ LoadedActs.graph = out["manifest"] /\ LoadedActs.root = RootReceipt(out["manifest"])
         /\ LoadedActs.index = Project(out["index"]).index
BY DEF LoadedActs, Keeps

(* Unless files mix, the index is of the graph that is served.             *)
LEMMA IndexIsPaired ==
  ASSUME Typed, Paired, ~mixed, \A f \in DOMAIN out : out[f] # None,
         out["graph"] = out["manifest"]
  PROVE  out["index"] = out["graph"]
<1> DEFINE g == out["graph"]
<1>0. None \notin {out["index"], out["manifest"]}
  BY FilesInOrder DEF Typed, Shaped
<1>1. CASE \E q \in Procs : Between(q)
  <2>1. PICK q \in Procs : Between(q)
    BY <1>1
  <2>2. Writing(q)
    BY DEF Paired, Apart
  <2>3. g = job[q].c /\ out["index"] = job[q].c
    BY <2>1, <2>2 DEF Writing, Between
  <2> QED
    BY <2>3
<1>2. CASE ~ (\E q \in Procs : Between(q))
  BY <1>0, <1>2 DEF Paired, Pair
<1> QED
  BY <1>1, <1>2

(* What is served is of one graph; links that are whole come with all the  *)
(* receipts, and all receipts with all the evidence.                       *)
LEMMA ServedIsOneGraph ==
  ASSUME Typed, Paired, \A f \in DOMAIN out : out[f] # None, Serves(LoadedActs)
  PROVE  LET acts == LoadedActs
             whole == Project(out["graph"])
         IN /\ out["graph"] \in Graphs /\ acts.root = RootReceipt(out["graph"])
            /\ acts.receipts \subseteq whole.receipts
            /\ acts.evidence \subseteq whole.evidence
            /\ acts.links \subseteq whole.links
            /\ kept["receipts"] = Whole \/ kept["links"] = Whole =>
                 acts.receipts = whole.receipts /\ acts.evidence = whole.evidence
            /\ kept["links"] = Whole => acts.links = whole.links
            /\ \A r \in acts.receipts : r.confirmed_by \in acts.evidence
            /\ ~mixed => acts.index = whole.index
<1> DEFINE acts == LoadedActs
           g == out["graph"]
           m == out["manifest"]
           l == out["links"]
<1>0. /\ DOMAIN out = {"graph", "receipts", "evidence", "links", "index", "manifest"}
      /\ \A f \in DOMAIN out : out[f] \in Graphs
      /\ LinesTyped(kept)
  BY FilesInOrder DEF Typed, Shaped
<1>1. /\ acts.receipts \subseteq Project(out["receipts"]).receipts
      /\ acts.evidence \subseteq Project(out["evidence"]).evidence
      /\ acts.links \subseteq Project(l).links
      /\ kept["receipts"] = Whole => acts.receipts = Project(out["receipts"]).receipts
      /\ kept["links"] = Whole => acts.links = Project(l).links
      /\ acts.graph = m /\ acts.root = RootReceipt(m) /\ acts.index = Project(out["index"]).index
  BY <1>0, KeptLines
<1>2. g = m /\ VerifyProjection(acts)
  BY <1>1 DEF Serves, CheckGraphDigest
<1> HIDE DEF acts
<1>4. /\ out["receipts"] = m /\ out["evidence"] = m /\ (acts.links # {} => l = m)
      /\ acts.links = Project(l).links /\ Repo \in NodeIDs(l) =>
           l = m /\ acts.receipts = Project(m).receipts
      /\ acts.receipts = Project(m).receipts => acts.evidence = Project(m).evidence
  BY <1>1, <1>2, VerifiedIsOneGraph
<1>5. Repo \in NodeIDs(l)
  BY <1>0, RepoIsNode DEF Graphs
<1>6. acts.links \subseteq Project(m).links /\ (kept["links"] = Whole => acts.links = Project(m).links)
  BY <1>1, <1>4, <1>5
<1>7. kept["receipts"] = Whole \/ kept["links"] = Whole =>
        acts.receipts = Project(m).receipts /\ acts.evidence = Project(m).evidence
  BY <1>1, <1>4, <1>5
<1>8. \A r \in acts.receipts : r.confirmed_by \in acts.evidence
  BY <1>2 DEF VerifyProjection
<1>9. ~mixed => acts.index = Project(g).index
  BY <1>1, <1>2, IndexIsPaired
<1>10. g \in Graphs
  BY <1>0
<1> HIDE DEF g, m
<1> QED
  BY <1>1, <1>2, <1>4, <1>6, <1>7, <1>8, <1>9, <1>10 DEF acts, g

LEMMA QueriesAreClamped ==
  \A query \in Queries : query.depth \in Nat /\ query.limit \in Nat \ {0}
<1> TAKE query \in Queries
<1> DEFINE d == query.depth
           l == query.limit
<1>1. d \in 0..6 /\ l \in 1..2000
  BY BoundAssumption
<1> HIDE DEF d, l
<1>2. d \in Nat
  BY <1>1
<1>3. l \in Nat \ {0}
  BY <1>1
<1> QED
  BY <1>2, <1>3 DEF d, l

(* However the graph commands died, failed or overlapped, what             *)
(* graph-context serves is of the graph it serves; and unless files mix of *)
(* the index too, so that the receipts of every view come with their       *)
(* evidence, and every node and edge with what supports it unless receipts *)
(* are missing (context.go:10, project.go:304).                            *)
THEOREM ContextServesOneGraph == Spec => []ContextIsWhole
<1>1. Typed /\ Paired => ContextIsWhole
  <2> DEFINE acts == LoadedActs
             g == out["graph"]
             bare == kept["links"] # Whole
             complete == kept["receipts"] = Whole \/ kept["links"] = Whole
             One == /\ acts.receipts \subseteq Project(g).receipts
                    /\ acts.evidence \subseteq Project(g).evidence
                    /\ acts.links \subseteq Project(g).links
                    /\ complete => acts.receipts = Project(g).receipts
                                     /\ acts.evidence = Project(g).evidence
                    /\ kept["links"] = Whole => acts.links = Project(g).links
             Backed(v) ==
               /\ \A r \in BuildContext(v, acts).receipts :
                     r.confirmed_by \in BuildContext(v, acts).evidence
               /\ complete => \A x \in NodeIDs(v) \cup EdgeIDs(v) :
                     Supported(x, BuildContext(v, acts), acts.root, bare)
  <2> SUFFICES ASSUME Typed, Paired, \A f \in DOMAIN out : out[f] # None, Serves(acts)
               PROVE  /\ One
                      /\ mixed \/ \A id \in NodeIDs(g), query \in Queries :
                           \A v \in Neighborhoods(g, {id}, query.depth, query.limit) :
                             ViewIsNear(g, id, query, v) /\ Backed(v)
    BY Zenon DEF ContextIsWhole, Supported
  <2>1. /\ g \in Graphs /\ One /\ acts.root = RootReceipt(g)
        /\ \A r \in acts.receipts : r.confirmed_by \in acts.evidence
        /\ ~mixed => acts.index = Project(g).index
    BY ServedIsOneGraph
  <2>2. IsGraph(g) /\ IsFiniteSet(NodeIDs(g))
    BY <2>1, EndsAreNodes, NodesAreFinite DEF Graphs
  <2> HIDE DEF g, acts
  <2>3. ASSUME ~mixed, NEW id \in NodeIDs(g), NEW query \in Queries,
               NEW v \in Neighborhoods(g, {id}, query.depth, query.limit)
        PROVE  ViewIsNear(g, id, query, v) /\ Backed(v)
    <3>1. query.depth \in Nat /\ query.limit \in Nat \ {0}
      BY QueriesAreClamped
    <3>2. /\ ViewIsNear(g, id, query, v)
          /\ v.nodes \subseteq g.nodes /\ v.edges \subseteq g.edges /\ IsGraph(v)
      BY <2>2, <3>1, ViewsAreNear
    <3>3. \A r \in BuildContext(v, acts).receipts :
             r.confirmed_by \in BuildContext(v, acts).evidence
      BY <2>1, <2>3, ContextEvidenced
    <3>4. ASSUME complete
          PROVE  \A x \in NodeIDs(v) \cup EdgeIDs(v) :
                    Supported(x, BuildContext(v, acts), acts.root, bare)
      <4>1. acts.receipts = Project(g).receipts /\ acts.index = Project(g).index
        BY <2>1, <2>3, <3>4
      <4>2. bare \in BOOLEAN /\ (bare \/ acts.links = Project(g).links)
        BY <2>1
      <4> HIDE DEF bare
      <4> QED
        BY <2>1, <3>2, <4>1, <4>2, ContextSupports
    <3> QED
      BY <3>2, <3>3, <3>4
  <2> HIDE DEF One, Backed
  <2> QED
    BY <2>1, <2>3
<1> QED
  BY <1>1, TypedInit, TypedStep, CountedStep, PairedInit, PairedStep, PTL DEF Spec

===============================================================================
