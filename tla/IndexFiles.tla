----------------------------- MODULE IndexFiles -----------------------------
(***************************************************************************)
(* The files of an index, as commands write them and a server opens them   *)
(* (build.rs, merge.rs, index.rs, main.rs).  A segment is created under    *)
(* its final name and filled in place, index.json is written last, and     *)
(* nothing is renamed or locked; a command may be killed between any two   *)
(* writes.  Directories have paths: a refresh builds under the path "new"  *)
(* and moves it to "live" while no server runs (external: DEPLOYING.md).   *)
(***************************************************************************)
EXTENDS Integers, FiniteSets

CONSTANTS Dirs,         \* directories that an index may be in
          NoDir,        \* what a path leads to where nothing is
          MaxSegments,  \* segments of an index
          MaxBuilds,    \* commands that write an index
          LastCrawl     \* crawls, numbered from one

ASSUME IndexFilesAssumption ==
  /\ NoDir \notin Dirs
  /\ MaxSegments \in Nat \ {0} /\ MaxBuilds \in Nat /\ LastCrawl \in Nat

Paths  == {"live", "new", "merged", "old"}
Slots  == 0..(MaxSegments - 1)
Builds == 1..MaxBuilds

VARIABLES files,     \* per directory, segment-NNNNN.uruk: the build it is of, and whether whole
          json,      \* per directory, index.json likewise, with the segments it names
          finished,  \* per directory, the build that ended in it last, 0 after one that did not
          used,      \* per directory, the commands that wrote into it
          made,      \* per build, the crawl it is of; 0 when not begun
          command,   \* the command running: a build, its directory and how far it is
          indexAt,   \* the index directory a path leads to
          crawlAt,   \* the crawl store a path leads to; 0 where there is none
          step,      \* how far a refresh is with its moves
          server     \* what the server has open

dirVars  == <<files, json, finished, used, made>>
pathVars == <<indexAt, crawlAt, step>>
vars     == <<dirVars, command, pathVars, server>>

NoFile == [build |-> 0, whole |-> FALSE]
NoJson == [build |-> 0, whole |-> FALSE, segments |-> 0]
Idle   == [build |-> 0]
Down   == [up |-> FALSE]

Init ==
  /\ files = [d \in Dirs |-> [n \in Slots |-> NoFile]]
  /\ json = [d \in Dirs |-> NoJson]
  /\ finished = [d \in Dirs |-> 0] /\ used = [d \in Dirs |-> 0]
  /\ made = [b \in Builds |-> 0]
  /\ command = Idle
  /\ indexAt = [p \in Paths |-> NoDir] /\ crawlAt = [p \in Paths |-> 0]
  /\ step = 0 /\ server = Down

------------------------------------------------------------------------------
(***************************************************************************)
(* Opening: index.json must parse, and every segment it names must have    *)
(* its footer.  Nothing says which build a file is of.                     *)
(***************************************************************************)
\* A bug: an index is whatever segments are in its directory.
OpensByListing(d) == \E n \in Slots : files[d][n].whole

Opens(d) ==
  /\ json[d].whole
  /\ \A n \in Slots : n < json[d].segments => files[d][n].whole

Named(d) == {n \in Slots : n < json[d].segments}

\* Crawls that the documents of an index are of.
CrawlsOf(d) == {made[files[d][n].build] : n \in Named(d)}

------------------------------------------------------------------------------
(***************************************************************************)
(* Commands that write.  A build reads the crawl store beside its output;  *)
(* a merge reads an index that opens, and refuses the path it reads from   *)
(* when it is typed again in the same way.                                 *)
(***************************************************************************)
Unbegun == {b \in Builds : made[b] = 0}

NextBuild == CHOOSE b \in Unbegun : \A c \in Unbegun : b <= c

FreeDirs == {d \in Dirs : \A p \in Paths : indexAt[p] # d}

Crawl ==
  /\ command = Idle /\ step = 0
  /\ \E c \in 1..LastCrawl :
       /\ \A p \in Paths : crawlAt[p] < c
       /\ \A b \in Builds : made[b] < c
       /\ crawlAt' = [crawlAt EXCEPT !["new"] = c]
  /\ UNCHANGED <<dirVars, command, indexAt, step, server>>

\* A command that writes `count` segments of crawl c into directory d begins.
Begin(d, p, c, count) ==
  /\ command' = [build |-> NextBuild, dir |-> d, next |-> 0, count |-> count, open |-> FALSE, json |-> "unwritten"]
  /\ made' = [made EXCEPT ![NextBuild] = c]
  /\ finished' = [finished EXCEPT ![d] = 0]
  /\ used' = [used EXCEPT ![d] = IF indexAt[p] = NoDir THEN 1 ELSE @ + 1]
  /\ IF indexAt[p] = NoDir
     THEN /\ files' = [files EXCEPT ![d] = [n \in Slots |-> NoFile]]
          /\ json' = [json EXCEPT ![d] = NoJson]
     ELSE UNCHANGED <<files, json>>
  /\ indexAt' = [indexAt EXCEPT ![p] = d]
  /\ UNCHANGED <<crawlAt, step, server>>

\* The directory a path leads to, or one that is created for it.
DirFor(p) == IF indexAt[p] = NoDir THEN FreeDirs ELSE {indexAt[p]}

Build(p, count) ==
  /\ command = Idle /\ step = 0 /\ Unbegun # {} /\ crawlAt[p] # 0
  /\ \E d \in DirFor(p) : Begin(d, p, crawlAt[p], count)

\* Paths as they may be typed: the directory of new has two spellings.
Typed == Paths \cup {"./new"}

Place(p) == IF p = "./new" THEN "new" ELSE p

\* The two paths of a merge differ, as they are typed: another spelling of the
\* directory that it reads, or a link to it, gets past.
Distinct(p, q) == p # q

\* An index is overwritten only where it has been read: what a merge writes as
\* its n-th segment holds n segments of its source at least.
Merge(p, q, count) ==
  /\ command = Idle /\ step = 0 /\ Unbegun # {}
  /\ Distinct(p, q) /\ indexAt[p] # NoDir
  /\ Opens(indexAt[p]) /\ count <= json[indexAt[p]].segments
  /\ \E c \in CrawlsOf(indexAt[p]), d \in DirFor(Place(q)) : Begin(d, Place(q), c, count)

\* A bug: index.json is written before the segments that it names.
JsonsTurnFirst(c) == ~c.open

\* index.json is written when every segment is.
JsonsTurn(c) == ~c.open /\ c.next = c.count

InDir == UNCHANGED <<finished, used, made, pathVars, server>>

\* A segment is there, under its name, before it is whole.
CreateSegment ==
  /\ command # Idle /\ ~command.open /\ command.next < command.count /\ command.json = "unwritten"
  /\ files' = [files EXCEPT ![command.dir][command.next] = [build |-> command.build, whole |-> FALSE]]
  /\ command' = [command EXCEPT !.open = TRUE]
  /\ UNCHANGED json /\ InDir

FinishSegment ==
  /\ command # Idle /\ command.open
  /\ files' = [files EXCEPT ![command.dir][command.next].whole = TRUE]
  /\ command' = [command EXCEPT !.open = FALSE, !.next = @ + 1]
  /\ UNCHANGED json /\ InDir

\* So is index.json: it is emptied, then filled.
CreateJson ==
  /\ command # Idle /\ JsonsTurn(command) /\ command.json = "unwritten"
  /\ json' = [json EXCEPT ![command.dir] = NoJson]
  /\ command' = [command EXCEPT !.json = "empty"]
  /\ UNCHANGED files /\ InDir

FinishJson ==
  /\ command # Idle /\ command.json = "empty"
  /\ json' = [json EXCEPT ![command.dir] =
                [build |-> command.build, whole |-> TRUE, segments |-> command.count]]
  /\ finished' = [finished EXCEPT ![command.dir] = command.build]
  /\ command' = Idle
  /\ UNCHANGED <<files, used, made, pathVars, server>>

Kill ==
  /\ command # Idle /\ command' = Idle
  /\ UNCHANGED <<dirVars, pathVars, server>>

------------------------------------------------------------------------------
(***************************************************************************)
(* The server opens the index and the crawl store at "live", each or       *)
(* neither; that they are of one crawl is not looked at.                   *)
(***************************************************************************)

CanServe(paths, crawls) ==
  paths["live"] # NoDir /\ Opens(paths["live"]) /\ crawls["live"] # 0

Served(paths, crawls) ==
  IF ~CanServe(paths, crawls) THEN Down
  ELSE [up |-> TRUE, dir |-> paths["live"],
        index |-> CrawlsOf(paths["live"]), crawl |-> crawls["live"]]

(***************************************************************************)
(* External.  A refresh: the merged index takes the place of the one it    *)
(* was made from; then the server is stopped, the old pair is moved away,  *)
(* the new pair is moved in, and the server is started.  The machine may   *)
(* restart at any point, which starts the server.                          *)
(***************************************************************************)
Promote ==
  /\ command = Idle /\ step = 0 /\ indexAt["merged"] # NoDir /\ finished[indexAt["merged"]] # 0
  /\ indexAt' = [indexAt EXCEPT !["new"] = indexAt["merged"], !["merged"] = NoDir]
  /\ UNCHANGED <<dirVars, command, crawlAt, step, server>>

Stop ==
  /\ command = Idle /\ step = 0
  /\ crawlAt["new"] # 0 /\ indexAt["new"] # NoDir /\ finished[indexAt["new"]] # 0
  /\ made[finished[indexAt["new"]]] = crawlAt["new"]
  /\ step' = 1 /\ server' = Down
  /\ UNCHANGED <<dirVars, command, indexAt, crawlAt>>

Moved(at, from, to, nothing) == [at EXCEPT ![to] = at[from], ![from] = nothing]

\* A bug: each of the two is moved in as soon as its old one is out of the way.
MovesPairwise(k, at, from, to) ==
  <<k, at, from, to>> \in {<<1, "crawl", "live", "old">>, <<2, "crawl", "new", "live">>,
                           <<3, "index", "live", "old">>, <<4, "index", "new", "live">>}

Moves(k, at, from, to) ==
  <<k, at, from, to>> \in {<<1, "crawl", "live", "old">>, <<2, "index", "live", "old">>,
                           <<3, "crawl", "new", "live">>, <<4, "index", "new", "live">>}

MoveCrawl ==
  /\ \E from, to \in Paths :
       Moves(step, "crawl", from, to) /\ crawlAt' = Moved(crawlAt, from, to, 0)
  /\ step' = step + 1
  /\ UNCHANGED <<dirVars, command, indexAt, server>>

MoveIndex ==
  /\ \E from, to \in Paths :
       Moves(step, "index", from, to) /\ indexAt' = Moved(indexAt, from, to, NoDir)
  /\ step' = step + 1
  /\ UNCHANGED <<dirVars, command, crawlAt, server>>

Start ==
  /\ step = 5 /\ step' = 0
  /\ server' = Served(indexAt, crawlAt)
  /\ UNCHANGED <<dirVars, command, indexAt, crawlAt>>

Restart ==
  /\ command' = Idle
  /\ server' = Served(indexAt, crawlAt)
  /\ UNCHANGED <<dirVars, pathVars>>

\* A command that was killed is run again before the next one.
Succeeded(p) == indexAt[p] # NoDir /\ finished[indexAt[p]] # 0

Next ==
  \/ Crawl \/ Promote \/ Stop \/ MoveCrawl \/ MoveIndex \/ Start \/ Restart
  \/ \E count \in 1..MaxSegments :
       Build("new", count) \/ Build("live", count) \/ (Succeeded("new") /\ \E q \in Typed \ {"live", "old"} : Merge("new", q, count))
  \/ CreateSegment \/ FinishSegment \/ CreateJson \/ FinishJson \/ Kill

Spec == Init /\ [][Next]_vars

------------------------------------------------------------------------------
(***************************************************************************)
(* Type invariant.                                                         *)
(***************************************************************************)
Command ==
  [build : Builds, dir : Dirs, next : 0..MaxSegments, count : 1..MaxSegments, open : BOOLEAN,
   json : {"unwritten", "empty"}]

IndexFilesTypeOK ==
  /\ files \in [Dirs -> [Slots -> [build : 0..MaxBuilds, whole : BOOLEAN]]]
  /\ json \in [Dirs -> [build : 0..MaxBuilds, whole : BOOLEAN, segments : 0..MaxSegments]]
  /\ finished \in [Dirs -> 0..MaxBuilds] /\ used \in [Dirs -> Nat]
  /\ made \in [Builds -> 0..LastCrawl]
  /\ command = Idle \/ command \in Command
  /\ indexAt \in [Paths -> Dirs \cup {NoDir}] /\ crawlAt \in [Paths -> 0..LastCrawl]
  /\ step \in 0..5
  /\ server = Down \/ server \in [up : {TRUE}, dir : Dirs, index : SUBSET (0..LastCrawl), crawl : 1..LastCrawl]

\* Once a command has ended in a directory the index there opens and is that
\* command's and nothing else, whatever was killed there before: every segment
\* index.json names is of its build (build's and merge's order of writing).
FinishedIsWhole ==
  \A d \in Dirs : finished[d] # 0 =>
    /\ Opens(d) /\ json[d].build = finished[d]
    /\ \A n \in Named(d) : files[d][n].build = finished[d]

\* A command that has not ended, killed or still writing, leaves nothing that
\* opens in a directory that was new to it: index.json comes last.  (In one that
\* held an index it may: the old index.json with some segments replaced.)
HalfBuiltIsRefused ==
  \A d \in Dirs : used[d] = 1 /\ finished[d] = 0 => ~Opens(d)

\* The server never shows the index of one crawl with the pages of another,
\* wherever in a refresh the machine restarts: while either of the new pair is
\* in place, none of the old is (AppState's open; DEPLOYING.md's order of moves).
PairMatches == server.up => server.index = {server.crawl}

------------------------------------------------------------------------------
(***************************************************************************)
(* The invariant behind them, for IndexFilesProofs.                        *)
(***************************************************************************)
\* Commands are numbered in the order in which they begin, and every file is
\* of one that began.
Numbered ==
  /\ \E k \in 0..MaxBuilds : Unbegun = (k + 1)..MaxBuilds
  /\ \A d \in Dirs : finished[d] \notin Unbegun /\ \A n \in Slots : files[d][n].build \notin Unbegun

\* A command that runs has ended nothing in its directory yet, has written what
\* it says, and serves the pages of its crawl if it is live.
Running ==
  command # Idle =>
    LET d == command.dir
    IN  /\ finished[d] = 0 /\ command.build \notin Unbegun /\ step = 0
        /\ command.next <= command.count /\ (command.open => command.next < command.count)
        /\ \A n \in Slots : n < command.next => files[d][n] = [build |-> command.build, whole |-> TRUE]
        /\ command.open => files[d][command.next].build = command.build
        /\ command.json = "empty" => command.next = command.count /\ ~command.open /\ ~json[d].whole
        /\ d = indexAt["live"] => made[command.build] = crawlAt["live"]

\* An index.json that is not whole names nothing, one that is something; in a
\* directory used once it is whole only when its command has ended.
Manifests ==
  \A d \in Dirs : /\ json[d].whole <=> json[d].segments # 0
                  /\ used[d] = 1 /\ finished[d] = 0 => ~json[d].whole

\* No two paths lead to one directory, and none to one that nothing wrote into.
Apart ==
  /\ \A p, q \in Paths : p # q /\ indexAt[p] = indexAt[q] => indexAt[p] = NoDir
  /\ \A p \in Paths : indexAt[p] # NoDir => used[indexAt[p]] >= 1

\* All that an index names is of one crawl.
Pure(d, c) == d # NoDir /\ \A n \in Named(d) : files[d][n].build \in Builds /\ made[files[d][n].build] = c

\* How far a refresh is, and what may be in place at each step of it.
Refreshing ==
  /\ indexAt["live"] # NoDir /\ crawlAt["live"] # 0 => Pure(indexAt["live"], crawlAt["live"])
  /\ step # 0 => command = Idle
  /\ step \in {1, 2, 3} => crawlAt["new"] # 0 /\ Pure(indexAt["new"], crawlAt["new"])
  /\ step \in {2, 3} => crawlAt["live"] = 0
  /\ step \in {3, 4} => indexAt["live"] = NoDir
  /\ step = 4 => Pure(indexAt["new"], crawlAt["live"])

IndexFilesInv ==
  /\ IndexFilesTypeOK /\ FinishedIsWhole /\ PairMatches
  /\ Numbered /\ Running /\ Manifests /\ Apart /\ Refreshing
=============================================================================
