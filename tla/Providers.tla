----------------------------- MODULE Providers -----------------------------
(***************************************************************************)
(* What a scan reads from Bitbucket and TeamCity (app/collectors.py and    *)
(* the source cache of app/service.py): a listing in pages, the revision   *)
(* of each repository, and the sources of one configuration at these       *)
(* revisions.  Entries come and go, branches are pushed and deleted        *)
(* between any two requests, requests fail and are retried, and a later    *)
(* scan finds the sources that an earlier one stored.                      *)
(*                                                                         *)
(* A revision is a number, 0 where there is none; the text of a file at a  *)
(* revision is that revision.                                              *)
(***************************************************************************)
EXTENDS Integers, FiniteSets, FiniteSetsExt, SequencesExt

CONSTANTS
  Kinds,         \* which listings: "datacenter", "cloud", "teamcity", "builds"
  Items,         \* repositories, configurations or builds
  Home,          \* project of each item, "P" or "Q"
  FirstListing,  \* what is listed at first
  FirstHeads,    \* revisions of the default branches at first
  Crowded,       \* repositories with another branch that the branch filter finds
  Linked,        \* repositories that the configuration is built from
  Paths,         \* files that its steps name
  PageSize,      \* entries asked for in one request (100 in the code)
  Attempts,      \* API_RETRY_ATTEMPTS
  MaxChanges,    \* bound on what happens upstream
  MaxScans       \* bound on scans

ASSUME ProviderAssumption ==
  /\ Kinds \subseteq {"datacenter", "cloud", "teamcity", "builds"}
  /\ Home \in [Items -> {"P", "Q"}]
  /\ IsFiniteSet(Items) /\ IsFiniteSet(Paths) /\ Paths \subseteq Nat
  /\ FirstListing \in Seq(Items) /\ IsInjective(FirstListing) /\ FirstHeads \in [Items -> Nat]
  /\ Crowded \subseteq Items /\ Linked \subseteq Items
  /\ {PageSize, Attempts} \subseteq Nat \ {0} /\ {MaxChanges, MaxScans} \subseteq Nat

VARIABLES
  kind,      \* the listing that is read
  stuck,     \* the server does not advance its pages
  hashes,    \* Bitbucket Cloud reports the commit of the main branch
  listing,   \* upstream: the entries in their order
  head,      \* upstream: commit of each default branch
  crowded,   \* upstream: repositories with a second branch of a similar name
  changes,   \* upstream changes so far
  stored,    \* source cache: sources by the revisions of the repositories
  scan,      \* the scan: where it is and what it has read
  past       \* history: what the scan cannot know

server == <<kind, stuck, hashes, listing, head, crowded, changes>>
vars == <<server, stored, scan, past>>

Listed == {listing[i] : i \in DOMAIN listing}
Reads == kind \in {"datacenter", "cloud"}

(* A project of TeamCity lists the configurations of its subprojects, too. *)
Scopes == IF kind \in {"datacenter", "teamcity"} THEN <<"P", "Q">> ELSE <<"all">>
Belongs(i, s) == s = "all" \/ Home[i] = s \/ (kind = "teamcity" /\ s = "P")

(* Paths of the tree of a commit: one more file with the second commit.    *)
InTree(p, v) == v >= p

Blank == [phase |-> "idle", scope |-> 1, at |-> 0, visited |-> {}, last |-> FALSE, next |-> 0,
          tries |-> 0, ask |-> <<>>, branch |-> 0, got |-> <<>>, index |-> {}, read |-> {},
          sources |-> {}, complete |-> TRUE, scans |-> 0]

Init ==
  /\ kind \in Kinds
  /\ stuck \in BOOLEAN
  /\ hashes \in (IF kind = "cloud" THEN BOOLEAN ELSE {TRUE})
  /\ listing = FirstListing
  /\ head = FirstHeads
  /\ crowded = (IF kind = "datacenter" THEN Crowded ELSE {})
  /\ changes = 0
  /\ stored = <<>>
  /\ scan = Blank
  /\ past = [kept |-> {}, removals |-> 0, base |-> FirstHeads, gone |-> {}, dropped |-> {}]

-----------------------------------------------------------------------------
(* Upstream.                                                               *)

Change ==
  /\ changes < MaxChanges /\ changes' = changes + 1
  /\ UNCHANGED <<kind, stuck, hashes, stored, scan>>

(* A new entry, or one that can be read again; builds are listed newest first. *)
Appear(i) ==
  /\ i \notin Listed
  /\ \E n \in 1..(IF kind = "builds" THEN 1 ELSE Len(listing) + 1) : listing' = InsertAt(listing, n, i)
  /\ Change
  /\ UNCHANGED <<head, crowded, past>>

(* Deleted, moved away or no longer permitted: requests answer 404.        *)
Vanish(i) ==
  /\ \E n \in DOMAIN listing : listing[n] = i /\ listing' = RemoveAt(listing, n)
  /\ past' = [past EXCEPT !.kept = @ \ {i}, !.removals = @ + 1, !.gone = @ \cup {i}]
  /\ Change
  /\ UNCHANGED <<head, crowded>>

Push(i) ==
  /\ Reads /\ i \in Listed
  /\ head' = [head EXCEPT ![i] = @ + 1]
  /\ Change
  /\ UNCHANGED <<listing, crowded, past>>

DropBranch(i) ==
  /\ i \in crowded
  /\ crowded' = crowded \ {i}
  /\ past' = [past EXCEPT !.dropped = @ \cup {i}]
  /\ Change
  /\ UNCHANGED <<listing, head>>

-----------------------------------------------------------------------------
(* Listing.                                                                *)

Failed == [scan EXCEPT !.phase = "failed"]

(* repositories, build_types and builds: one loop in four variants.        *)
Begin ==
  /\ scan.phase \in {"idle", "done", "failed"} /\ scan.scans < MaxScans
  /\ scan' = [Blank EXCEPT !.phase = "page", !.scans = scan.scans + 1]
  /\ past' = [past EXCEPT !.kept = Listed, !.removals = 0, !.base = head, !.dropped = {}]
  /\ UNCHANGED <<server, stored>>

(* The listing is complete: the sources of the configuration are next.     *)
Key(s) == [i \in Linked \cap DOMAIN s.got |-> s.got[i]]
(* Mutant: whether a revision is known does not matter. *)
Cacheable_Always(s) == TRUE
Cacheable(s) == \A i \in DOMAIN Key(s) : Key(s)[i] # 0

(* Repositories whose default branch has no commit have no sources in Data *)
(* Center; in Cloud the branch is read by its name.                        *)
Readable(s) == {i \in DOMAIN Key(s) : kind = "cloud" \/ s.got[i] # 0}

Sources(s) ==
  CASE ~Reads -> [s EXCEPT !.phase = "done"]
    [] Reads /\ Cacheable(s) /\ Key(s) \in DOMAIN stored ->
         [s EXCEPT !.phase = "done", !.sources = stored[Key(s)]]
    [] OTHER ->
         [s EXCEPT !.phase = "sources", !.ask = SetToSeq(Readable(s)), !.at = 0]

(* Mutant: no check. *)
Repeats_Never(s) == FALSE
(* What stops a loop that the server does not advance: nothing for the     *)
(* configurations of TeamCity and for Bitbucket Cloud.                     *)
Repeats(s) ==
  CASE kind = "datacenter" -> s.next <= s.at
    [] kind = "builds" -> s.next \in s.visited \cup {s.at}
    [] OTHER -> FALSE

(* A page is used up.                                                      *)
Turn(s) ==
  CASE s.last /\ s.scope < Len(Scopes) ->
         [s EXCEPT !.scope = @ + 1, !.at = 0, !.visited = {}, !.phase = "page"]
    [] s.last /\ s.scope = Len(Scopes) -> Sources(s)
    [] ~s.last /\ Repeats(s) -> Failed
    [] OTHER -> [s EXCEPT !.at = s.next, !.visited = @ \cup {s.at}, !.phase = "page"]

(* Mutant: a short page is the last one, whatever nextHref says.           *)
LastPage_Short(page, more) == IF kind = "teamcity" THEN Len(page) < PageSize ELSE ~more
(* TeamCity's configurations are counted by the client: a page is the last *)
(* one when it is empty, or short and without nextHref.                    *)
LastPage(page, more) ==
  IF kind = "teamcity" THEN page = <<>> \/ (~more /\ Len(page) < PageSize) ELSE ~more

(* g with the values of f put in.                                         *)
With(g, f) == [x \in DOMAIN g \cup DOMAIN f |-> IF x \in DOMAIN f THEN f[x] ELSE g[x]]

Noted(s, found) == [s EXCEPT !.got = With(@, found)]

(* What a request for a project lists, in the order of the listing.        *)
Entries(s) ==
  LET first[n \in 0..Len(listing)] ==
        CASE n = 0 -> <<>>
          [] n # 0 /\ Belongs(listing[n], s) -> Append(first[n - 1], listing[n])
          [] OTHER -> first[n - 1]
  IN  first[Len(listing)]

(* At most n entries from an offset on: the server decides how many.       *)
Cut(s, at, n) == SubSeq(s, at + 1, Min({at + n, Len(s)}))

(* The page brings the revisions in Cloud; Data Center is asked for each.  *)
Page ==
  /\ scan.phase = "page"
  /\ \E n \in 1..PageSize :
       LET entries == Entries(Scopes[scan.scope])
           page == Cut(entries, scan.at, n)
           more == scan.at + n < Len(entries)
           found == [i \in ToSet(page) |-> IF kind = "cloud" /\ hashes THEN head[i] ELSE 0]
           read == [scan EXCEPT !.tries = 0, !.last = LastPage(page, more),
                                !.next = IF stuck THEN scan.at ELSE scan.at + Len(page)]
       IN  scan' = IF kind = "datacenter" /\ page # <<>>
                   THEN [read EXCEPT !.ask = page, !.phase = "default"]
                   ELSE Turn(Noted(read, found))
  /\ UNCHANGED <<server, stored, past>>

(* default_revision: which branch, then its commit among the branches.     *)
DefaultBranch ==
  /\ scan.phase = "default"
  /\ scan' = IF Head(scan.ask) \in Listed
             THEN [scan EXCEPT !.tries = 0, !.phase = "branches", !.branch = 0]
             ELSE Failed
  /\ UNCHANGED <<server, stored, past>>

Branches(i) ==
  (IF i \in crowded THEN <<"other">> ELSE <<>>) \o (IF head[i] # 0 THEN <<"default">> ELSE <<>>)

(* The revision of the first repository of the page is known.              *)
Revision(v) ==
  LET s == [Noted(scan, [i \in {Head(scan.ask)} |-> v]) EXCEPT !.tries = 0, !.ask = Tail(@), !.phase = "default"]
  IN  IF s.ask = <<>> THEN Turn(s) ELSE s

(* Mutant: only the first page of branches is looked at. *)
NextBranches_None(n) == Revision(0)
NextBranches(n) == IF stuck THEN Failed ELSE [scan EXCEPT !.tries = 0, !.branch = @ + n]

BranchPage ==
  /\ scan.phase = "branches"
  /\ \E n \in 1..PageSize :
       LET i == Head(scan.ask)
           seen == "default" \in ToSet(Cut(Branches(i), scan.branch, n))
       IN  scan' = CASE i \notin Listed -> Failed
                     [] i \in Listed /\ seen -> Revision(head[i])
                     [] i \in Listed /\ ~seen /\ scan.branch + n >= Len(Branches(i)) -> Revision(0)
                     [] OTHER -> NextBranches(n)
  /\ UNCHANGED <<server, stored, past>>

-----------------------------------------------------------------------------
(* Sources.                                                                *)

(* HTTP errors of the sources leave the configuration without any.         *)
Unavailable == [scan EXCEPT !.phase = "done", !.sources = {}, !.complete = FALSE]

(* The commit that is read: the recorded one, else the branch as it is.    *)
Commit(i) == IF scan.got[i] # 0 THEN scan.got[i] ELSE head[i]

Tree(i) == SetToSeq({p \in Paths : InTree(p, Commit(i))})

(* file_index of Data Center, of an immutable commit.                      *)
Index ==
  /\ scan.phase = "sources" /\ scan.ask # <<>> /\ kind = "datacenter"
  /\ \E n \in 1..PageSize :
       LET i == Head(scan.ask)
           page == Cut(Tree(i), scan.at, n)
           read == [scan EXCEPT !.tries = 0, !.at = @ + n, !.index = @ \cup ToSet(page)]
       IN  scan' = CASE i \notin Listed -> Unavailable
                     [] i \in Listed /\ scan.at + n >= Len(Tree(i)) ->
                          [read EXCEPT !.ask = Tail(@), !.at = 0, !.index = {},
                                       !.read = {i} \X read.index]
                     [] i \in Listed /\ scan.at + n < Len(Tree(i)) /\ stuck -> Unavailable
                     [] OTHER -> read
  /\ scan.read = {}
  /\ UNCHANGED <<server, stored, past>>

(* Cloud has no index: each path is tried.                                 *)
NoIndex ==
  /\ scan.phase = "sources" /\ scan.ask # <<>> /\ kind = "cloud" /\ scan.read = {}
  /\ scan' = [scan EXCEPT !.ask = Tail(@), !.read = {Head(scan.ask)} \X Paths]
  /\ UNCHANGED <<server, stored, past>>

(* file_text of several paths at once: 404 means that there is no file.    *)
Text ==
  /\ scan.phase = "sources"
  /\ \E r \in scan.read :
       scan' = [scan EXCEPT !.read = @ \ {r},
                            !.sources = @ \cup IF r[1] \in Listed /\ InTree(r[2], Commit(r[1]))
                                              THEN {<<r[1], r[2], Commit(r[1])>>} ELSE {}]
  /\ UNCHANGED <<server, stored, past>>

(* What was read in full at known revisions is kept for later scans.       *)
Store ==
  /\ scan.phase = "sources" /\ scan.ask = <<>> /\ scan.read = {}
  /\ scan' = [scan EXCEPT !.phase = "done"]
  /\ stored' = IF Cacheable(scan) THEN With(stored, [k \in {Key(scan)} |-> scan.sources]) ELSE stored
  /\ UNCHANGED <<server, past>>

(* Neither memory nor the persistent cache keeps an entry for certain.     *)
Forget ==
  /\ stored # <<>>
  /\ stored' = <<>>
  /\ UNCHANGED <<server, scan, past>>

-----------------------------------------------------------------------------
(* get_json tries again after 429, 5xx and transport errors; any other     *)
(* error, and every error of bounded_text, is raised.                      *)
GivesUp == IF scan.phase = "sources" THEN Unavailable ELSE Failed

Requesting ==
  \/ scan.phase \in {"page", "default", "branches"}
  \/ scan.phase = "sources" /\ (scan.ask # <<>> \/ scan.read # {})
Retries == scan.phase # "sources" \/ scan.read = {}

Fails ==
  /\ Requesting
  /\ scan' = IF Retries /\ scan.tries + 1 < Attempts THEN [scan EXCEPT !.tries = @ + 1] ELSE GivesUp
  /\ UNCHANGED <<server, stored, past>>

Refused ==
  /\ Requesting
  /\ scan' = GivesUp
  /\ UNCHANGED <<server, stored, past>>

Quiet == scan.phase \in {"idle", "done", "failed"} /\ UNCHANGED vars

Step == Page \/ DefaultBranch \/ BranchPage \/ Index \/ NoIndex \/ Text \/ Store \/ Fails \/ Refused

Next ==
  \/ Begin
  \/ Page
  \/ DefaultBranch
  \/ BranchPage
  \/ Index
  \/ NoIndex
  \/ Text
  \/ Store
  \/ Forget
  \/ Fails
  \/ Refused
  \/ \E i \in Items : Appear(i)
  \/ \E i \in Items : Vanish(i)
  \/ \E i \in Items : Push(i)
  \/ \E i \in Items : DropBranch(i)
  \/ Quiet

(* Every request ends within its timeout.                                  *)
Spec == Init /\ [][Next]_vars /\ WF_vars(Step)

-----------------------------------------------------------------------------
(* Correctness.                                                            *)

(* Variables have their types.                                             *)
TypeOK ==
  /\ listing \in Seq(Items) /\ IsInjective(listing)
  /\ head \in [Items -> Nat] /\ crowded \subseteq Items
  /\ DOMAIN scan.got \subseteq Items
  /\ scan.tries \in 0..(Attempts - 1)
  /\ scan.scope \in DOMAIN Scopes

(* A listing that was read to its end misses no more of the entries that   *)
(* were listed all the time than entries vanished while it was read: each  *)
(* of these moves one across a page boundary.  Entries that are added may  *)
(* be listed twice but hide none; entries keep their order upstream, and   *)
(* no limit stops the reading.                                             *)
ListingMissesOnlyMoved ==
  scan.phase \in {"sources", "done"} =>
    Cardinality(past.kept \ DOMAIN scan.got) <= past.removals

(* Data Center: a repository is recorded without a commit only if it had   *)
(* none when the scan began or a branch listed before was deleted.         *)
RevisionOverlooked ==
  kind = "datacenter" => \A i \in DOMAIN scan.got :
    scan.got[i] = 0 => past.base[i] = 0 \/ i \in past.dropped

(* Read now or stored by an earlier scan, the sources of a configuration   *)
(* are those of the revisions in this scan's graph, whatever was pushed    *)
(* meanwhile, and all of them unless a repository vanished at some time;   *)
(* without a known revision they are not older than this scan.             *)
SourcesOfRevision ==
  scan.phase = "done" /\ scan.complete /\ Reads =>
    /\ \A x \in scan.sources :
         IF scan.got[x[1]] # 0 THEN x[3] = scan.got[x[1]] ELSE x[3] >= past.base[x[1]]
    /\ \A i \in (Linked \cap DOMAIN scan.got) \ past.gone : \A p \in Paths :
         scan.got[i] # 0 /\ InTree(p, scan.got[i]) => <<i, p, scan.got[i]>> \in scan.sources

(* Every scan ends, also when requests fail, and for repositories of Data  *)
(* Center and for builds when a server repeats a page.  The links of       *)
(* Bitbucket Cloud and those of TeamCity's configurations are followed     *)
(* without such a check: there only a server that advances is promised.    *)
ScanEnds ==
  [](scan.phase = "page" /\ ~(kind \in {"cloud", "teamcity"} /\ stuck)
       => <>(scan.phase \in {"done", "failed"}))
=============================================================================
