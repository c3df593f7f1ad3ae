SPECIFICATION Spec
CONSTANTS
  Projects = {"p1", "p2", "p3"}
  Repos = {"r1", "r2", "r3", "r4", "r5"}
  TcProjects = {"t1", "t2"}
  Configs = {"c1", "c2", "c3"}
  Builds = {"b1", "b2", "b3"}
  Unassigned = "none"
  HomeOf <- MCHomeOf
  ProjectOf <- MCProjectOf
  RunOf <- MCRunOf
  Recency <- MCRecency
  Rules <- MCRules
  Order <- MCOrder
  Queries = {"", "q1", "q2"}
  NoQuery = ""
  Matches <- MCMatches
  Old = {"b1"}
  PageLimit = 2
  RepoLimit = 1
  BuildLimit = 1
  Worlds <- MCWorlds
  Filters <- MCFilters
INVARIANTS
  PagesPartition
  SqlSearchAgrees
  OwnConfigurationsOnly
  MatchingHistoryShown
  ColourIsImpact
  MappingFactsAgree
