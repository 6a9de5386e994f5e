--------------------------- MODULE MCPartCustody ---------------------------
(* Instances of PartCustody for TLC: which contents the nodes may make.    *)
EXTENDS PartCustody, TLC

CONSTANTS c1, c2, d1, m1, m2, s1, a1, r1

(* Two cases whose archives are the same content, c2 of them done before.  *)
TwoMeshes ==
  (c1 :> ("mesh" :> {m1, m2} @@ "archive" :> {a1} @@ d1 :> {s1})) @@
  (c2 :> ("mesh" :> {} @@ "archive" :> {a1} @@ d1 :> {}))

OneCase == c1 :> ("mesh" :> {m1, m2} @@ "archive" :> {a1} @@ d1 :> {s1})

(* What is explored: telemetry and uploads apart, one thing at a time in   *)
(* the air, and few copies on the nodes' disks.                            *)
Told == \E c \in Cases : counted[c] \/ \E d \in Dirs : field[c][d] # "none" \/ curve[c][d] # "none"
Sent == \/ objects # ReleaseFiles \/ \E n \in Nodes : upload[n] # NoUpload
        \/ sweep.on \/ removal.on \/ \E s \in Shas : incoming[s] # Nothing
Left == \E n \in Nodes, c \in Cases : using[n][c] # NoSha /\ ~Holds(n, c)
Hand == {<<c, at>> \in Cases \X Locations : receipt[c][at].from = "hand"}
Quiet == (\A n \in Nodes : upload[n] = NoUpload) /\ \A s \in Shas : incoming[s] = Nothing
OnDisks == {copy.sha : copy \in UNION {disk[n] : n \in Nodes}}
Few  == /\ ~(Told /\ Sent) /\ ~(Left /\ (Sent \/ Hand # {}))
        /\ Sent => \A c \in Cases : life[c].state = "done" => life[c].result # NoSha
        /\ \A h \in Hand : h[1] \notin Finished /\ receipt[h[1]][h[2]].sha = a1
        /\ Cardinality(Hand) <= 1 /\ (Hand # {} => Quiet /\ ~Told /\ ~sweep.on)
        /\ Cardinality(landing) + Cardinality(verifying) <= 1
        /\ Cardinality({s \in Shas : incoming[s] # Nothing}) <= 1 /\ Cardinality(young) <= 1
        /\ {m1, m2} \subseteq objects => a1 \notin objects
        /\ removal.on => Quiet
        /\ Cardinality(UNION {disk[n] : n \in Nodes}) <= 3
        /\ (Sent /\ {m1, m2} \subseteq OnDisks) => s1 \notin OnDisks
        /\ \A n, m \in Nodes : n # m => disk[n] \cap disk[m] = {}
        /\ Cardinality({n \in Nodes : prune[n] # {}}) <= 1
        /\ (\E n \in Nodes : prune[n] # {}) => Quiet /\ ~sweep.on
        /\ \A n, m \in Nodes : (upload[n] # NoUpload /\ upload[m] # NoUpload) =>
                                 upload[n].of.part = upload[m].of.part

Symmetry == Permutations(Nodes) \cup Permutations({m1, m2})
=============================================================================
