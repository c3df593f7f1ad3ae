------------------------------- MODULE Browse -------------------------------
(***************************************************************************)
(* A reader of the map: asks for a page under a query and a filter, then   *)
(* for the next ones by the cursor of the last answer, while scans replace *)
(* the graph.  Every answer is computed from one committed graph (what the *)
(* response cache adds is modelled in GraphCache).                         *)
(***************************************************************************)
EXTENDS GraphQueries

CONSTANTS Worlds,    \* what the providers may answer in one scan
          Filters    \* the filters the reader uses

ASSUME BrowseAssumption ==
  /\ \A w \in Worlds : /\ w.repos \subseteq Repos /\ w.outputs \subseteq Builds /\ w.failed \subseteq Builds
                      /\ \A c \in Configs : w.roots[c].readable \in BOOLEAN
  /\ Filters \subseteq [project : Projects \cup {Unassigned}, tcProject : TcProjects \cup {Unassigned},
                      targetOnly : BOOLEAN, image : {"any", "yes", "no"},
                      failed : BOOLEAN, recent : BOOLEAN, issues : BOOLEAN]

VARIABLES
  graph,    \* the saved graph
  request,  \* the query and the filter of the reader
  cursor,   \* the offset of the next page; 0 when there is none
  reply,    \* the last answer, or NoReply after a scan
  seen,     \* the candidates the reader was shown, in order
  steady    \* no scan saved a graph since the reader's first page

vars == <<graph, request, cursor, reply, seen, steady>>

NoReply == [nodes |-> {}, edges |-> {}, matches |-> {}, mode |-> "none", offset |-> 0, next |-> 0]
Graphs == {Annotated(CollectLive(w)) : w \in Worlds}

\* The entries a page lists: the projects of the map, the matches of a search, the issues.
Listed(r) == Sorted(IF r.mode = "projects" THEN r.nodes \cap Projects ELSE r.matches)

Init ==
  /\ graph \in Graphs \cup {Annotated(Legacy(CollectLive(w))) : w \in Worlds}
  /\ request = [query |-> NoQuery, filter |-> NoFilter]
  /\ cursor = 0 /\ reply = NoReply /\ seen = <<>> /\ steady = FALSE

Answer(r, before) == reply' = r /\ cursor' = r.next /\ seen' = before \o Listed(r)

\* What was answered before does not matter, so one question for each graph is enough.
Ask ==
  /\ reply = NoReply
  /\ \E q \in Queries, f \in Filters :
    /\ Answer(GraphReply(graph, q, f, 0), <<>>)
    /\ request' = [query |-> q, filter |-> f]
    /\ steady' = TRUE
    /\ UNCHANGED graph

More ==
  /\ cursor # 0
  /\ Answer(GraphReply(graph, request.query, request.filter, cursor), IF steady THEN seen ELSE <<>>)
  /\ UNCHANGED <<graph, request, steady>>

Scan ==
  /\ graph' \in Graphs
  /\ reply' = NoReply /\ seen' = <<>> /\ steady' = FALSE
  /\ UNCHANGED <<request, cursor>>

Next == Ask \/ More \/ Scan
Spec == Init /\ [][Next]_vars
-----------------------------------------------------------------------------
Candidates ==
  IF request.filter.issues THEN IssueRoots(graph)
  ELSE IF request.query = NoQuery THEN graph.nodes \cap Projects
  ELSE IF RepositoryMatches(graph, request.query) # {} THEN RepositoryMatches(graph, request.query)
  ELSE graph.nodes \cap Matches[request.query]

\* Types: in particular an answer never links to a node it leaves out, which
\* the layout and the browser rely on.
TypeOK ==
  /\ graph.nodes \subseteq Ids /\ graph.edges \subseteq Links
  /\ request.query \in Queries /\ request.filter \in Filters \cup {NoFilter}
  /\ cursor \in Nat /\ steady \in BOOLEAN /\ Elements(seen) \subseteq Ids
  /\ reply.nodes \subseteq graph.nodes
  /\ \A e \in reply.edges : {e.source, e.target} \subseteq reply.nodes

\* While the graph stays, the pages a reader follows by cursor list every
\* candidate exactly once and in order, up to the last page (the cursors of
\* select_visible_page, repository_search and paginate_mapping_issues).
PagesPartition ==
  steady /\ (request.filter \in {NoFilter} \/ request.filter.issues) =>
    /\ seen = First(Sorted(Candidates), Len(seen))
    /\ cursor = 0 => Elements(seen) = Candidates

\* The page loaded through SQL is the page computed from the whole graph,
\* under every filter and after the build limit (graph_queries.py).
SqlSearchAgrees ==
  reply.mode = "repositories" /\ reply.matches # {} =>
    reply = Finished(graph, SelectVisiblePage(graph, request.query, reply.offset), request.filter)

\* On the map and on a search for repositories, the configurations shown are
\* exactly those owned by a repository shown, a filter only removing some: an
\* unmapped or unreadable one never borrows the repositories of its siblings.
OwnConfigurationsOnly ==
  reply.mode = "projects" \/ (reply.mode = "repositories" /\ reply.matches \cap Repos # {}) =>
    \A c \in graph.nodes \cap Configs :
      LET owned == Owners(graph, c) \cap reply.nodes # {}
      IN (c \in reply.nodes => owned) /\ (request.filter = NoFilter /\ owned => c \in reply.nodes)

\* A filter on builds looks at the whole history of a configuration, whatever
\* the limit of the interface: the newest builds of the state or the age asked
\* for are shown, however many newer ones do not match, and a configuration is
\* judged with or without images by all its builds (the order of filter and
\* limit in the graph endpoint).
MatchingHistoryShown ==
  LET f == request.filter
      Owned(r) == {c \in graph.nodes \cap Configs : r \in Owners(graph, c)}
  IN \A r \in reply.matches \cap Repos : \A c \in Owned(r) :
       /\ f = [NoFilter EXCEPT !.failed = f.failed, !.recent = f.recent] =>
            Newest(Runs(graph, c) \cap VisibleBuilds(graph, f), BuildLimit) \subseteq reply.nodes
       /\ f.image # "any" /\ f = [NoFilter EXCEPT !.image = f.image] =>
            (c \in reply.nodes <=> (f.image = "yes" <=> Runs(graph, c) \cap graph.outputs # {}))

\* The colour of a node and the report of its impact, computed in two places,
\* say the same: a node is on the branch of an output exactly when its impact
\* contains a build with outputs (annotate_visual_state, impact_report).
ColourIsImpact ==
  \A n \in graph.nodes \ Builds : n \in graph.branch <=> Impact(graph, n) \cap graph.outputs # {}

\* The mapping status, the orphans of the insights and the impact agree on
\* what is mapped: orphans are what is not mapped, and affect no configuration
\* (mapping_quality.py, graph_insights, impact_report).
MappingFactsAgree ==
  (\A c \in Configs : graph.mapping[c].state # "legacy") =>
    /\ \A r \in graph.nodes \cap (Repos \cup Projects) :
         graph.status[r] = "mapped" <=> Impact(graph, r) \cap Configs # {}
    /\ OrphanRepositories(graph) = {r \in graph.nodes \cap Repos : graph.status[r] # "mapped"}
    /\ OrphanConfigurations(graph) =
         {c \in graph.nodes \cap Configs : graph.status[c] \in {"unmapped", "unknown"}}
=============================================================================
