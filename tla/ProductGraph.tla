---------------------------- MODULE ProductGraph ----------------------------
(***************************************************************************)
(* The graph a scan builds: Bitbucket projects contain repositories,       *)
(* repositories map to TeamCity projects, which contain build              *)
(* configurations, which ran builds (service.collect_live), with the       *)
(* mapping rules applied (mapping_rules.py), the mapping quality           *)
(* (mapping_quality.py) and the visual state (annotate_visual_state).      *)
(*                                                                         *)
(* Node ids carry their kind, so the kinds are disjoint constant sets.     *)
(* What the providers answer in one scan is a "world": the repositories    *)
(* they list, the VCS roots of each configuration that can be read, and    *)
(* what the builds show.                                                   *)
(***************************************************************************)
EXTENDS Naturals, Sequences, FiniteSets, Functions

CONSTANTS
  Projects, Repos, TcProjects, Configs, Builds,
  HomeOf,      \* the project of a repository, or Unassigned
  Unassigned,
  ProjectOf,   \* the TeamCity project of a configuration
  RunOf,       \* the configuration of a build
  Recency,     \* the builds, newest first: _build_recency_key
  Rules        \* the mapping rule of a configuration: its mode and repositories

ASSUME ProductGraphAssumption ==
  /\ Projects \cap (Repos \cup TcProjects \cup Configs \cup Builds) = {}
  /\ Repos \cap (TcProjects \cup Configs \cup Builds) = {}
  /\ TcProjects \cap (Configs \cup Builds) = {} /\ Configs \cap Builds = {}
  /\ HomeOf \in [Repos -> Projects \cup {Unassigned}]
  /\ Unassigned \notin Projects \cup TcProjects
  /\ ProjectOf \in [Configs -> TcProjects]
  /\ RunOf \in [Builds -> Configs]
  /\ Recency \in Seq(Builds) /\ IsInjective(Recency) /\ Range(Recency) = Builds
  /\ \A c \in Configs : Rules[c].mode \in {"none", "add", "replace"}

Ids == Projects \cup Repos \cup TcProjects \cup Configs \cup Builds
Links == [source : Ids, relation : {"contains", "maps_to", "ran_as"}, target : Ids]
Link(s, r, t) == [source |-> s, relation |-> r, target |-> t]

Sources(g, r, n) == {e.source : e \in {e \in g.edges : e.relation = r /\ e.target = n}}
Targets(g, r, n) == {e.target : e \in {e \in g.edges : e.relation = r /\ e.source = n}}
Runs(g, c) == Targets(g, "ran_as", c) \cap Builds

\* The subgraph on the nodes of S, with the links between them.
Induced(g, S) ==
  [g EXCEPT !.nodes = @ \cap S,
            !.edges = {e \in @ : e.source \in S /\ e.target \in S}]

(***************************************************************************)
(* Who owns a configuration.  A graph saved by an earlier version has no   *)
(* explicit mapping and keeps the association of its project.              *)
(***************************************************************************)
Owners(g, c) ==
  CASE g.mapping[c].state = "unavailable" -> {}
    [] g.mapping[c].state = "explicit" -> g.mapping[c].repos \cap Repos \cap g.nodes
    [] g.mapping[c].state = "legacy" ->
         UNION {Sources(g, "maps_to", p) \cap Repos : p \in Sources(g, "contains", c) \cap TcProjects}

(***************************************************************************)
(* The mapping of a configuration in a world: its roots that name exactly  *)
(* one listed repository, changed by its rule.  A root of no or of several *)
(* repositories, and a repository of the rule that is not listed, leave an *)
(* observation that is not an exact match.                                 *)
(***************************************************************************)
ResolveMapping(w, c) ==
  LET automatic == w.roots[c].repos \cap w.repos
      manual == Rules[c].repos \cap w.repos
  IN CASE Rules[c].mode = "none" -> automatic
       [] Rules[c].mode = "add" -> automatic \cup manual
       [] Rules[c].mode = "replace" -> manual

Missing(w, c) == Rules[c].mode # "none" /\ ~(Rules[c].repos \subseteq w.repos)

Mapping(w, c) ==
  IF w.roots[c].readable
  THEN [state |-> "explicit", repos |-> ResolveMapping(w, c), rule |-> Rules[c].mode,
        missing |-> Missing(w, c),
        failures |-> Missing(w, c) \/ ~(w.roots[c].repos \subseteq w.repos)]
  ELSE [state |-> "unavailable", repos |-> {}, rule |-> "none", missing |-> FALSE, failures |-> FALSE]

(***************************************************************************)
(* collect_live: every listed repository with its project, every           *)
(* configuration under its project, the links of its mapping, its builds.  *)
(* Of a configuration that cannot be read only its place is known.         *)
(***************************************************************************)
CollectedLinks(w) ==
  LET readable == {c \in Configs : w.roots[c].readable}
  IN {Link(HomeOf[r], "contains", r) : r \in {r \in w.repos : HomeOf[r] # Unassigned}}
     \cup {Link(ProjectOf[c], "contains", c) : c \in Configs}
     \cup (UNION {{Link(r, "maps_to", ProjectOf[c]) : r \in ResolveMapping(w, c)} : c \in readable})
     \cup {Link(RunOf[b], "ran_as", b) : b \in {b \in Builds : RunOf[b] \in readable}}

CollectLive(w) ==
  [nodes |-> w.repos \cup {e.source : e \in CollectedLinks(w)} \cup {e.target : e \in CollectedLinks(w)},
   edges |-> CollectedLinks(w),
   mapping |-> [c \in Configs |-> Mapping(w, c)],
   outputs |-> w.outputs, failed |-> w.failed]

\* A bug in the propagation: every repository of a coloured TeamCity project is coloured.
OutputBranch_Shared(g) ==
  LET configs == (UNION {Sources(g, "ran_as", b) : b \in g.outputs \cap g.nodes}) \cap Configs
      tcProjects == (UNION {Sources(g, "contains", c) : c \in configs}) \cap TcProjects
      repos == (UNION {Sources(g, "maps_to", p) : p \in tcProjects}) \cap Repos
      projects == (UNION {Sources(g, "contains", r) : r \in repos}) \cap Projects
  IN configs \cup tcProjects \cup repos \cup projects

(***************************************************************************)
(* annotate_visual_state: the nodes a build with outputs colours, upward   *)
(* through the chain.  A TeamCity project takes the outputs of all its     *)
(* configurations, a repository only of those that check it out.           *)
(***************************************************************************)
OutputBranch(g) ==
  LET builds == g.outputs \cap g.nodes
      configs == (UNION {Sources(g, "ran_as", b) : b \in builds}) \cap Configs
      tcProjects == (UNION {Sources(g, "contains", c) : c \in configs}) \cap TcProjects
      repos == UNION {Owners(g, c) : c \in configs}
      projects == (UNION {Sources(g, "contains", r) : r \in repos}) \cap Projects
  IN configs \cup tcProjects \cup repos \cup projects

(***************************************************************************)
(* annotate_mapping_quality.                                               *)
(***************************************************************************)
ConfigStatus(m) ==
  CASE m.state = "unavailable" -> "unknown"
    [] m.state # "unavailable" /\ m.repos = {} -> "unmapped"
    [] m.state # "unavailable" /\ m.repos # {} ->
         IF (IF m.rule = "replace" THEN m.missing ELSE m.failures) THEN "partial" ELSE "mapped"

\* A bug in the annotation: a project counts as mapped with one repository, mapped or not.
MappingStatus_AnyChild(g) ==
  [n \in g.nodes \ Builds |->
     IF n \in Configs THEN ConfigStatus(g.mapping[n])
     ELSE IF n \in Projects \/ \E e \in g.edges : e.relation = "maps_to" /\ n \in {e.source, e.target}
          THEN "mapped" ELSE "unmapped"]

MappingStatus(g) ==
  LET mapsTo == {e \in g.edges : e.relation = "maps_to"}
      mapped == {e.source : e \in mapsTo} \cup {e.target : e \in mapsTo}
      Plain(yes) == IF yes THEN "mapped" ELSE "unmapped"
  IN [n \in g.nodes \ Builds |->
        IF n \in Configs THEN ConfigStatus(g.mapping[n])
        ELSE IF n \in Projects THEN Plain(Targets(g, "contains", n) \cap mapped # {})
        ELSE Plain(n \in mapped)]

\* What refresh saves.
Annotated(g) ==
  [nodes |-> g.nodes, edges |-> g.edges, mapping |-> g.mapping, outputs |-> g.outputs,
   failed |-> g.failed, branch |-> OutputBranch(g), status |-> MappingStatus(g)]

\* A graph that an earlier version saved: the same links without explicit mappings.
LegacyMapping == [state |-> "legacy", repos |-> {}, rule |-> "none", missing |-> FALSE, failures |-> FALSE]
Legacy(g) == [g EXCEPT !.mapping = [c \in Configs |-> LegacyMapping]]
=============================================================================
