---------------------------- MODULE SnapshotDiff ----------------------------
(***************************************************************************)
(* Comparing stored graphs (app/snapshots.py) and what the alerts take     *)
(* from a comparison (`_safe_output_changes` in app/alerts.py).            *)
(*                                                                         *)
(* Of a graph only the builds are kept: its content is a function from     *)
(* build ids to the outputs shown there (images and SBOMs), `state` tells  *)
(* whether its nodes are stale.  The edge of a build comes and goes with   *)
(* its node.                                                               *)
(***************************************************************************)
EXTENDS Naturals, FiniteSets, Sequences

Nodes(g) == DOMAIN g.content
Node(g, b) == [outputs |-> g.content[b], state |-> g.state]

(* diff_graphs: by id.                                                     *)
Diff(before, after) ==
  LET both == Nodes(before) \cap Nodes(after)
  IN  [added |-> Nodes(after) \ Nodes(before),
       removed |-> Nodes(before) \ Nodes(after),
       changed |-> {b \in both : Node(before, b) # Node(after, b)},
       outputChanges |-> {b \in both : before.content[b] # after.content[b]}]

(* Mutant: only builds of both graphs count.                               *)
SafeOutputChanges_Common(before, after) == Diff(before, after).outputChanges
(* Builds whose outputs changed, and builds with outputs that came or went. *)
SafeOutputChanges(before, after) ==
  LET diff == Diff(before, after)
  IN  diff.outputChanges
        \cup {b \in diff.added : after.content[b] # {}}
        \cup {b \in diff.removed : before.content[b] # {}}

(* snapshot_timeline over the snapshots `at` of the ids in S, newest first: *)
(* every one but the oldest is compared with the one before it.            *)
Timeline(S, at) ==
  [n \in 1..Cardinality(S) |->
     LET id == CHOOSE i \in S : Cardinality({j \in S : j > i}) = n - 1
         earlier == {j \in S : j < id}
         previous == IF earlier = {} THEN 0 ELSE CHOOSE j \in earlier : \A k \in earlier : k <= j
     IN  [id |-> id, nodeCount |-> Cardinality(Nodes(at[id])), previous |-> previous,
          changes |-> Diff(IF previous = 0 THEN at[id] ELSE at[previous], at[id])]]
=============================================================================
