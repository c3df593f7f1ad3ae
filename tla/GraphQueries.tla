---------------------------- MODULE GraphQueries ----------------------------
(***************************************************************************)
(* What is read from the saved graph: the pages of the map and of a search *)
(* (subgraph.py), the same search page loaded through SQL                  *)
(* (graph_queries.py), the filters (filters.py), and the reports of impact *)
(* and of orphans (graph_analysis.py).                                     *)
(***************************************************************************)
EXTENDS ProductGraph, FiniteSetsExt

CONSTANTS
  Order,       \* the ids by kind and, within a kind, by label and id: _sort_key
  Queries,     \* the search texts; NoQuery is the empty one
  NoQuery,
  Matches,     \* the ids whose text holds a query
  Old,         \* the builds that finished before the period of the filter
  PageLimit, RepoLimit, BuildLimit

ASSUME GraphQueriesAssumption ==
  /\ Order \in Seq(Ids) /\ IsInjective(Order) /\ Range(Order) = Ids
  /\ NoQuery \in Queries /\ Matches \in [Queries \ {NoQuery} -> SUBSET Ids]
  /\ Old \subseteq Builds
  /\ {PageLimit, RepoLimit, BuildLimit} \subseteq Nat \ {0}

\* The elements of the sequence s that are in S, in its order.
InOrder(s, S) ==
  LET f[n \in 0..Len(s)] ==
        IF n = 0 THEN <<>> ELSE IF s[n] \in S THEN Append(f[n - 1], s[n]) ELSE f[n - 1]
  IN f[Len(s)]

Sorted(S) == InOrder(Order, S)
Elements(s) == {s[i] : i \in 1..Len(s)}
First(s, n) == SubSeq(s, 1, Min({n, Len(s)}))

\* A bug in the slicing: the page starts at its offset, counted from one.
Slice_FromOffset(s, offset) == SubSeq(s, Max({offset, 1}), Min({offset + PageLimit, Len(s)}))

Slice(s, offset) == SubSeq(s, offset + 1, Min({offset + PageLimit, Len(s)}))

\* The offset of the next page, 0 when this one is the last: nextCursor.
NextOffset(total, offset) == IF offset + PageLimit < total THEN offset + PageLimit ELSE 0

Page(g, matches, mode, total, offset) ==
  [nodes |-> g.nodes, edges |-> g.edges, matches |-> matches, mode |-> mode,
   offset |-> offset, next |-> NextOffset(total, offset)]

(***************************************************************************)
(* select_visible_page.  Around some repositories: their projects, the     *)
(* TeamCity projects they map to, the configurations of these that a       *)
(* repository of the page owns, and the builds of those.                   *)
(***************************************************************************)
\* A bug in the selection: the configurations of a shared project come along.
Around_Siblings(g, repos) ==
  LET linked == repos \cup UNION {Sources(g, "contains", r) \cup Targets(g, "maps_to", r) : r \in repos}
      configs == (UNION {Targets(g, "contains", p) : p \in linked \cap TcProjects}) \cap Configs
  IN linked \cup configs \cup UNION {Sources(g, "contains", c) \cup Runs(g, c) : c \in configs}

Around(g, repos) ==
  LET linked == repos \cup UNION {Sources(g, "contains", r) \cup Targets(g, "maps_to", r) : r \in repos}
      contained == UNION {Targets(g, "contains", p) : p \in linked \cap TcProjects}
      configs == {c \in contained \cap Configs : Owners(g, c) \cap repos # {}}
  IN linked \cup configs \cup UNION {Sources(g, "contains", c) \cup Runs(g, c) : c \in configs}

RepositoryMatches(g, q) == Repos \cap g.nodes \cap Matches[q]

ProjectPage(g, offset) ==
  LET candidates == Sorted(Projects \cap g.nodes)
      Shown(p) == Elements(First(Sorted(Targets(g, "contains", p) \cap Repos), RepoLimit))
      projects == Elements(Slice(candidates, offset))
  IN Page(Induced(g, Around(g, UNION {Shown(p) : p \in projects})), {}, "projects", Len(candidates), offset)

RepositoryPage(g, q, offset) ==
  LET candidates == Sorted(RepositoryMatches(g, q))
      repos == Elements(Slice(candidates, offset))
  IN Page(Induced(g, Around(g, repos)), repos, "repositories", Len(candidates), offset)

(***************************************************************************)
(* _connected_lineage: everything above the matches, then what can be      *)
(* reached below them without passing through a node found above.  A chain *)
(* has five kinds of nodes, so four steps reach all.                       *)
(***************************************************************************)
Above(g, roots) ==
  LET f[n \in 0..4] ==
        IF n = 0 THEN roots
        ELSE f[n - 1] \cup {e.source : e \in {e \in g.edges : e.target \in f[n - 1]}}
  IN f[4]

Below(g, roots, barred) ==
  LET f[n \in 0..4] ==
        IF n = 0 THEN roots
        ELSE f[n - 1] \cup ({e.target : e \in {e \in g.edges : e.source \in f[n - 1]}} \ barred)
  IN f[4]

ConnectedLineage(g, roots) ==
  LET above == Above(g, roots) IN above \cup Below(g, roots, above)

GeneralPage(g, q, offset) ==
  LET candidates == Sorted(g.nodes \cap Matches[q])
      matches == Elements(Slice(candidates, offset))
  IN Page(Induced(g, ConnectedLineage(g, matches)), matches, "repositories", Len(candidates), offset)

SelectVisiblePage(g, q, offset) ==
  IF q = NoQuery THEN ProjectPage(g, offset)
  ELSE IF RepositoryMatches(g, q) # {} THEN RepositoryPage(g, q, offset)
  ELSE GeneralPage(g, q, offset)

\* limit_builds_per_configuration: the newest builds of each configuration.
Newest(builds, limit) == Elements(First(InOrder(Recency, builds), limit))

LimitBuilds(g) ==
  LET kept == (g.nodes \ Builds) \cup UNION {Newest(Runs(g, c), BuildLimit) : c \in Configs}
  IN [g EXCEPT !.nodes = @ \cap kept,
               !.edges = {e \in @ : e.source \in kept /\ e.target \in kept}]

(***************************************************************************)
(* repository_search: the rows of one page, found by joins.  The subgraph  *)
(* of these rows goes through select_visible_page again; offset and total  *)
(* are those of the whole graph.  A limit of 0 means that every build of   *)
(* the configurations is loaded.                                           *)
(***************************************************************************)
\* A bug in the join: a graph saved without explicit mappings has no configurations.
SqlConfigs_ExplicitOnly(g, projects, repos) ==
  {c \in Configs : /\ Sources(g, "contains", c) \cap projects # {}
                   /\ g.mapping[c].repos \cap repos # {}}

SqlConfigs(g, projects, repos) ==
  {c \in Configs : /\ Sources(g, "contains", c) \cap projects # {}
                   /\ g.mapping[c].state # "unavailable"
                   /\ g.mapping[c].state = "explicit" => g.mapping[c].repos \cap repos # {}}

SqlRows(g, repos, buildLimit) ==
  LET related == UNION {Sources(g, "contains", r) \cup Targets(g, "maps_to", r) : r \in repos}
      configs == SqlConfigs(g, related \cap TcProjects, repos)
      Loaded(c) == IF buildLimit = 0 THEN Runs(g, c) ELSE Newest(Runs(g, c), buildLimit)
  IN repos \cup related \cup configs \cup UNION {Loaded(c) : c \in configs}

RepositorySearch(g, q, offset, buildLimit) ==
  LET candidates == Sorted(RepositoryMatches(g, q))
      rows == Induced(g, SqlRows(g, Elements(Slice(candidates, offset)), buildLimit))
  IN [SelectVisiblePage(rows, q, 0) EXCEPT !.offset = offset, !.next = NextOffset(Len(candidates), offset)]

(***************************************************************************)
(* filter_graph.  A filter is a record: a project and a TeamCity project  *)
(* (Unassigned for none), whether only configurations with outputs, with   *)
(* or without an image ("any" for both), only failed builds, only recent   *)
(* ones; issues asks for what is not mapped instead.                       *)
(***************************************************************************)
NoFilter == [project |-> Unassigned, tcProject |-> Unassigned, targetOnly |-> FALSE, image |-> "any",
             failed |-> FALSE, recent |-> FALSE, issues |-> FALSE]

OfBuilds(f) == f.image # "any" \/ f.failed \/ f.recent

VisibleBuilds(g, f) ==
  {b \in g.nodes \cap Builds : (f.failed => b \in g.failed) /\ (f.recent => b \notin Old)}

Filtered(g, f) ==
  LET scope == g.nodes \cap Repos \cap
                 (IF f.project = Unassigned THEN Repos ELSE Targets(g, "contains", f.project))
      Passes(c) ==
        /\ f.targetOnly => c \in g.branch
        /\ f.project # Unassigned => Owners(g, c) \cap scope # {}
        /\ f.tcProject # Unassigned => c \in Targets(g, "contains", f.tcProject)
        /\ f.image # "any" => ((Runs(g, c) \cap g.outputs # {}) <=> f.image = "yes")
        /\ f.failed \/ f.recent => Runs(g, c) \cap VisibleBuilds(g, f) # {}
      configs == {c \in g.nodes \cap Configs : Passes(c)}
      around == UNION {Sources(g, "contains", c) \cup (Runs(g, c) \cap VisibleBuilds(g, f)) : c \in configs}
      repos == UNION {Owners(g, c) \cap scope : c \in configs}
  IN configs \cup around \cup repos \cup UNION {Sources(g, "contains", r) : r \in repos}

FilterGraph(g, f) == IF f = NoFilter THEN g ELSE Induced(g, Filtered(g, f))

(***************************************************************************)
(* The list of mapping issues: what is not mapped with what contains it,   *)
(* then a page of its repositories and configurations.                     *)
(***************************************************************************)
Containers(g, S) == UNION {Sources(g, "contains", n) : n \in S}

MappingIssues(g) ==
  LET unmapped == {n \in g.nodes \cap (Repos \cup TcProjects \cup Configs) : g.status[n] # "mapped"}
  IN Induced(g, unmapped \cup Containers(g, unmapped))

IssueRoots(g) == {n \in g.nodes \cap (Repos \cup Configs) : g.status[n] # "mapped"}

IssuePage(g, offset) ==
  LET roots == Sorted(IssueRoots(g))
      page == Elements(Slice(roots, offset))
  IN Page(Induced(g, page \cup Containers(g, page)), page, "mapping_issues", Len(roots), offset)

(***************************************************************************)
(* The endpoint /api/graph.  A filter that looks at builds has to see      *)
(* their history, so SQL limits the builds only for the others; the limit  *)
(* of the interface is applied to what is left.                            *)
(***************************************************************************)
\* A bug in the endpoint: SQL limits the builds under every filter.
SqlBuildLimit_Always(f) == BuildLimit

SqlBuildLimit(f) == IF OfBuilds(f) THEN 0 ELSE BuildLimit

Onto(page, g) == [page EXCEPT !.nodes = g.nodes, !.edges = g.edges]
Whole(g, page) == [g EXCEPT !.nodes = page.nodes, !.edges = page.edges]

Finished(g, page, f) == Onto(page, LimitBuilds(FilterGraph(Whole(g, page), f)))

GraphReply(g, q, f, offset) ==
  IF f.issues
  THEN LET page == IssuePage(MappingIssues(g), offset) IN Onto(page, LimitBuilds(Whole(g, page)))
  ELSE IF q # NoQuery /\ RepositoryMatches(g, q) # {}
       THEN Finished(g, RepositorySearch(g, q, offset, SqlBuildLimit(f)), f)
       ELSE Finished(g, SelectVisiblePage(g, q, offset), f)

(***************************************************************************)
(* graph_analysis: what a change of a node affects, and the orphans.       *)
(***************************************************************************)
Descendants(g, n) ==
  LET f[i \in 0..2] ==
        IF i = 0 THEN {n}
        ELSE f[i - 1] \cup UNION {Targets(g, "contains", m) \cup Targets(g, "ran_as", m) : m \in f[i - 1]}
  IN f[2] \ {n}

RepositoryImpact(g, r) ==
  LET tcProjects == Targets(g, "maps_to", r)
      contained == (UNION {Targets(g, "contains", p) : p \in tcProjects}) \cap Configs
      configs == {c \in contained : r \in Owners(g, c)}
  IN {r} \cup tcProjects \cup configs \cup UNION {Descendants(g, c) : c \in configs}

Impact(g, n) ==
  CASE n \in Projects -> {n} \cup UNION {RepositoryImpact(g, r) : r \in Targets(g, "contains", n) \cap Repos}
    [] n \in Repos -> RepositoryImpact(g, n)
    [] n \in TcProjects \cup Configs -> {n} \cup Descendants(g, n)
    [] n \in Builds -> {n}

OrphanRepositories(g) == {r \in g.nodes \cap Repos : Targets(g, "maps_to", r) = {}}
OrphanConfigurations(g) == {c \in g.nodes \cap Configs : Owners(g, c) = {}}
=============================================================================
