-------------------------- MODULE IndexFilesProofs --------------------------
(***************************************************************************)
(* Theorems about the files of an index, for any number of directories,    *)
(* segments, commands and crawls, and wherever a command is killed or the  *)
(* machine restarts.  The invariant is IndexFiles!IndexFilesInv; a lemma   *)
(* per action says that it is kept.                                        *)
(***************************************************************************)
EXTENDS IndexFiles, TLAPS

USE IndexFilesAssumption DEF IndexFilesAssumption

-----------------------------------------------------------------------------
(* The next number, and what an action leaves alone *)

\* Numbers are given in order, so there is a least one that is not given yet.
LEMMA NextNumber ==
  ASSUME Numbered, Unbegun # {}
  PROVE  /\ NextBuild \in Builds /\ NextBuild \in Unbegun
         /\ Unbegun \ {NextBuild} = (NextBuild + 1)..MaxBuilds
<1>1. PICK k \in 0..MaxBuilds : Unbegun = (k + 1)..MaxBuilds
  BY DEF Numbered
<1>2. k + 1 \in Unbegun /\ \A c \in Unbegun : k + 1 <= c
  BY <1>1
<1>3. NextBuild \in Unbegun /\ \A c \in Unbegun : NextBuild <= c
  BY <1>2 DEF NextBuild
<1>4. Unbegun \subseteq Builds /\ Builds \subseteq Int
  BY DEF Unbegun, Builds
<1>5. NextBuild = k + 1
  BY <1>2, <1>3, <1>4
<1>6. (k + 1)..MaxBuilds \ {k + 1} = (k + 1 + 1)..MaxBuilds
  OBVIOUS
<1> QED BY <1>1, <1>3, <1>4, <1>5, <1>6

\* The files of a directory do not depend on paths, steps or the server.
LEMMA FilesAlone ==
  ASSUME UNCHANGED dirVars
  PROVE  /\ FinishedIsWhole' <=> FinishedIsWhole
         /\ Manifests' <=> Manifests
         /\ Numbered' <=> Numbered
         /\ Unbegun' = Unbegun
         /\ \A d, c : Pure(d, c)' <=> Pure(d, c)
BY DEF dirVars, FinishedIsWhole, Manifests, Numbered, Unbegun, Pure, Named, Opens

\* An index whose command has ended is of the crawl of that command.
LEMMA FinishedIsPure ==
  ASSUME IndexFilesTypeOK, FinishedIsWhole, NEW d \in Dirs, finished[d] # 0
  PROVE  Pure(d, made[finished[d]])
<1>1. finished[d] \in Builds
  BY DEF IndexFilesTypeOK, Builds
<1> QED BY <1>1 DEF FinishedIsWhole, Pure

\* An index that opens and is of one crawl has documents of that crawl only.
LEMMA PureIsOneCrawl ==
  ASSUME IndexFilesTypeOK, Manifests, NEW d \in Dirs, NEW c, Opens(d), Pure(d, c)
  PROVE  CrawlsOf(d) = {c}
<1>1. json[d].segments \in 0..MaxSegments /\ json[d].segments # 0
  BY DEF IndexFilesTypeOK, Manifests, Opens
<1>2. 0 \in Named(d)
  BY <1>1 DEF Named, Slots
<1> QED BY <1>2 DEF CrawlsOf, Pure

\* What the server opens is a pair, when what is in place is.
LEMMA ServedIsPair ==
  ASSUME IndexFilesTypeOK, Manifests, Refreshing
  PROVE  LET s == Served(indexAt, crawlAt)
         IN  /\ s = Down \/ s \in [up : {TRUE}, dir : Dirs, index : SUBSET (0..LastCrawl), crawl : 1..LastCrawl]
             /\ s.up => s.index = {s.crawl}
<1>1. CASE ~CanServe(indexAt, crawlAt)
  BY <1>1 DEF Served, Down
<1>2. CASE CanServe(indexAt, crawlAt)
  <2>1. /\ indexAt["live"] \in Dirs /\ Opens(indexAt["live"])
        /\ crawlAt["live"] \in 1..LastCrawl
    BY <1>2 DEF CanServe, IndexFilesTypeOK, Paths
  <2>2. CrawlsOf(indexAt["live"]) = {crawlAt["live"]}
    BY <2>1, PureIsOneCrawl DEF Refreshing
  <2>3. Served(indexAt, crawlAt) = [up |-> TRUE, dir |-> indexAt["live"], index |-> {crawlAt["live"]}, crawl |-> crawlAt["live"]]
    BY <1>2, <2>2 DEF Served
  <2>4. {crawlAt["live"]} \in SUBSET (0..LastCrawl)
    BY <2>1
  <2> QED BY <2>1, <2>3, <2>4
<1> QED BY <1>1, <1>2

-----------------------------------------------------------------------------
(* The initial states *)

LEMMA FilesInit == Init => IndexFilesInv
<1>1. SUFFICES ASSUME Init PROVE IndexFilesInv
  OBVIOUS
<1>2. IndexFilesTypeOK
  BY <1>1 DEF Init, IndexFilesTypeOK, NoFile, NoJson, Builds
<1>3. FinishedIsWhole /\ PairMatches
  BY <1>1 DEF Init, FinishedIsWhole, PairMatches, Down
<1>4. Numbered
  <2>1. Unbegun = 1..MaxBuilds
    BY <1>1 DEF Init, Unbegun, Builds
  <2>2. \E k \in 0..MaxBuilds : Unbegun = (k + 1)..MaxBuilds
    <3>1. 0 \in 0..MaxBuilds /\ Unbegun = (0 + 1)..MaxBuilds
      BY <2>1
    <3> QED BY <3>1
  <2>3. \A d \in Dirs : finished[d] = 0 /\ \A n \in Slots : files[d][n].build = 0
    BY <1>1 DEF Init, NoFile
  <2> QED BY <2>1, <2>2, <2>3 DEF Numbered
<1>5. Running /\ Manifests /\ Apart /\ Refreshing
  BY <1>1 DEF Init, Running, Manifests, Apart, Refreshing, NoJson, Paths
<1> QED BY <1>2, <1>3, <1>4, <1>5 DEF IndexFilesInv

-----------------------------------------------------------------------------
(* Actions that move paths, and the server *)

LEMMA PathsType ==
  ASSUME IndexFilesTypeOK, UNCHANGED <<dirVars, command, server>>,
         indexAt' \in [Paths -> Dirs \cup {NoDir}], crawlAt' \in [Paths -> 0..LastCrawl], step' \in 0..5
  PROVE  IndexFilesTypeOK'
BY DEF IndexFilesTypeOK, dirVars

LEMMA CrawlKeeps == ASSUME IndexFilesInv, Crawl PROVE IndexFilesInv'
<1>1. FinishedIsWhole' /\ Manifests' /\ Numbered'
  BY FilesAlone DEF Crawl, IndexFilesInv
<1>2. PICK c \in 1..LastCrawl : crawlAt' = [crawlAt EXCEPT !["new"] = c]
  BY DEF Crawl
<1>3. IndexFilesTypeOK'
  <2>1. crawlAt' \in [Paths -> 0..LastCrawl]
    <3>1. c \in 0..LastCrawl /\ crawlAt \in [Paths -> 0..LastCrawl]
      BY DEF IndexFilesInv, IndexFilesTypeOK
    <3> QED BY <1>2, <3>1
  <2>2. indexAt' \in [Paths -> Dirs \cup {NoDir}] /\ step' \in 0..5
    BY DEF Crawl, IndexFilesInv, IndexFilesTypeOK
  <2> QED BY <2>1, <2>2, PathsType DEF Crawl, IndexFilesInv
<1>4. crawlAt'["live"] = crawlAt["live"] /\ step = 0 /\ step' = 0
  BY <1>2 DEF Crawl, IndexFilesInv, IndexFilesTypeOK, Paths
<1>5. PairMatches' /\ Apart' /\ Running'
  BY <1>4 DEF Crawl, IndexFilesInv, PairMatches, Apart, Running, dirVars
<1>6. Refreshing'
  BY <1>4, FilesAlone DEF Crawl, IndexFilesInv, Refreshing
<1> QED BY <1>1, <1>3, <1>5, <1>6 DEF IndexFilesInv

LEMMA PromoteKeeps == ASSUME IndexFilesInv, Promote PROVE IndexFilesInv'
<1>1. FinishedIsWhole' /\ Manifests' /\ Numbered'
  BY FilesAlone DEF Promote, IndexFilesInv
<1>2. IndexFilesTypeOK'
  <2>1. indexAt' \in [Paths -> Dirs \cup {NoDir}]
    <3>1. indexAt \in [Paths -> Dirs \cup {NoDir}] /\ "merged" \in Paths
      BY DEF IndexFilesInv, IndexFilesTypeOK, Paths
    <3>2. indexAt["merged"] \in Dirs \cup {NoDir}
      BY <3>1
    <3> QED BY <3>1, <3>2 DEF Promote
  <2>2. crawlAt' \in [Paths -> 0..LastCrawl] /\ step' \in 0..5
    BY DEF Promote, IndexFilesInv, IndexFilesTypeOK
  <2> QED BY <2>1, <2>2, PathsType DEF Promote, IndexFilesInv
<1>3. /\ indexAt'["live"] = indexAt["live"] /\ indexAt'["old"] = indexAt["old"]
      /\ indexAt'["new"] = indexAt["merged"] /\ indexAt'["merged"] = NoDir
      /\ step = 0 /\ step' = 0
  BY DEF Promote, IndexFilesInv, IndexFilesTypeOK, Paths
<1>4. Apart'
  BY <1>3 DEF Promote, IndexFilesInv, Apart, dirVars, Paths
<1>5. PairMatches' /\ Running'
  BY <1>3 DEF Promote, IndexFilesInv, PairMatches, Running, dirVars
<1>6. Refreshing'
  BY <1>3, FilesAlone DEF Promote, IndexFilesInv, Refreshing
<1> QED BY <1>1, <1>2, <1>4, <1>5, <1>6 DEF IndexFilesInv

LEMMA StopKeeps == ASSUME IndexFilesInv, Stop PROVE IndexFilesInv'
<1>1. FinishedIsWhole' /\ Manifests' /\ Numbered'
  BY FilesAlone DEF Stop, IndexFilesInv
<1>2. IndexFilesTypeOK'
  BY DEF Stop, IndexFilesInv, IndexFilesTypeOK, dirVars, Down
<1>3. PairMatches' /\ Apart' /\ Running'
  BY DEF Stop, IndexFilesInv, PairMatches, Apart, Running, dirVars, Down
<1>4. Refreshing'
  <2>1. indexAt["new"] \in Dirs
    BY DEF Stop, IndexFilesInv, IndexFilesTypeOK, Paths
  <2>2. Pure(indexAt["new"], crawlAt["new"])
    BY <2>1, FinishedIsPure DEF Stop, IndexFilesInv
  <2> QED BY <2>2, FilesAlone DEF Stop, IndexFilesInv, Refreshing
<1> QED BY <1>1, <1>2, <1>3, <1>4 DEF IndexFilesInv

LEMMA MoveCrawlKeeps == ASSUME IndexFilesInv, MoveCrawl PROVE IndexFilesInv'
<1>1. FinishedIsWhole' /\ Manifests' /\ Numbered'
  BY FilesAlone DEF MoveCrawl, IndexFilesInv
<1>2. \/ step = 1 /\ crawlAt' = Moved(crawlAt, "live", "old", 0)
      \/ step = 3 /\ crawlAt' = Moved(crawlAt, "new", "live", 0)
  BY DEF MoveCrawl, Moves
<1>3. command = Idle
  BY <1>2 DEF IndexFilesInv, Refreshing
<1>4. PairMatches' /\ Apart' /\ Running'
  BY <1>3 DEF MoveCrawl, IndexFilesInv, PairMatches, Apart, Running, dirVars
<1>5. crawlAt \in [Paths -> 0..LastCrawl] /\ 0 \in 0..LastCrawl /\ Paths = {"live", "old", "new", "merged"}
  BY DEF IndexFilesInv, IndexFilesTypeOK, Paths
<1>6. crawlAt' \in [Paths -> 0..LastCrawl] => IndexFilesTypeOK'
  <2>1. indexAt' \in [Paths -> Dirs \cup {NoDir}] /\ step' \in 0..5
    BY <1>2 DEF MoveCrawl, IndexFilesInv, IndexFilesTypeOK
  <2> QED BY <2>1, PathsType DEF MoveCrawl, IndexFilesInv
<1>7. CASE step = 1
  <2>1. crawlAt' = Moved(crawlAt, "live", "old", 0)
    BY <1>2, <1>7
  <2>2. /\ crawlAt' \in [Paths -> 0..LastCrawl]
        /\ crawlAt'["live"] = 0 /\ crawlAt'["new"] = crawlAt["new"]
    BY <1>5, <2>1 DEF Moved
  <2>3. Refreshing'
    BY <1>3, <1>7, <2>2, FilesAlone DEF MoveCrawl, IndexFilesInv, Refreshing
  <2> QED BY <1>1, <1>4, <1>6, <2>2, <2>3 DEF IndexFilesInv
<1>8. CASE step = 3
  <2>1. crawlAt' = Moved(crawlAt, "new", "live", 0)
    BY <1>2, <1>8
  <2>2. /\ crawlAt' \in [Paths -> 0..LastCrawl]
        /\ crawlAt'["live"] = crawlAt["new"]
    BY <1>5, <2>1 DEF Moved
  <2>3. Refreshing'
    BY <1>3, <1>8, <2>2, FilesAlone DEF MoveCrawl, IndexFilesInv, Refreshing
  <2> QED BY <1>1, <1>4, <1>6, <2>2, <2>3 DEF IndexFilesInv
<1> QED BY <1>2, <1>7, <1>8

LEMMA MoveIndexKeeps == ASSUME IndexFilesInv, MoveIndex PROVE IndexFilesInv'
<1>1. FinishedIsWhole' /\ Manifests' /\ Numbered'
  BY FilesAlone DEF MoveIndex, IndexFilesInv
<1>2. \/ step = 2 /\ indexAt' = Moved(indexAt, "live", "old", NoDir)
      \/ step = 4 /\ indexAt' = Moved(indexAt, "new", "live", NoDir)
  BY DEF MoveIndex, Moves
<1>3. command = Idle
  BY <1>2 DEF IndexFilesInv, Refreshing
<1>4. PairMatches' /\ Running' /\ Apart /\ used' = used
  BY <1>3 DEF MoveIndex, IndexFilesInv, PairMatches, Running, dirVars
<1>5. /\ indexAt \in [Paths -> Dirs \cup {NoDir}] /\ NoDir \in Dirs \cup {NoDir}
      /\ Paths = {"live", "old", "new", "merged"}
  BY DEF IndexFilesInv, IndexFilesTypeOK, Paths
<1>6. indexAt' \in [Paths -> Dirs \cup {NoDir}] => IndexFilesTypeOK'
  <2>1. crawlAt' \in [Paths -> 0..LastCrawl] /\ step' \in 0..5
    BY <1>2 DEF MoveIndex, IndexFilesInv, IndexFilesTypeOK
  <2> QED BY <2>1, PathsType DEF MoveIndex, IndexFilesInv
<1>7. CASE step = 2
  <2>1. indexAt' = Moved(indexAt, "live", "old", NoDir)
    BY <1>2, <1>7
  <2>2. /\ indexAt' \in [Paths -> Dirs \cup {NoDir}]
        /\ indexAt'["live"] = NoDir /\ indexAt'["new"] = indexAt["new"]
        /\ indexAt'["old"] = indexAt["live"] /\ indexAt'["merged"] = indexAt["merged"]
    BY <1>5, <2>1 DEF Moved
  <2>3. Refreshing'
    BY <1>3, <1>7, <2>2, FilesAlone DEF MoveIndex, IndexFilesInv, Refreshing
  <2>4. Apart'
    BY <1>4, <1>5, <2>2 DEF Apart
  <2> QED BY <1>1, <1>4, <1>6, <2>2, <2>3, <2>4 DEF IndexFilesInv
<1>8. CASE step = 4
  <2>1. indexAt' = Moved(indexAt, "new", "live", NoDir)
    BY <1>2, <1>8
  <2>2. /\ indexAt' \in [Paths -> Dirs \cup {NoDir}]
        /\ indexAt'["live"] = indexAt["new"] /\ indexAt'["new"] = NoDir
        /\ indexAt'["old"] = indexAt["old"] /\ indexAt'["merged"] = indexAt["merged"]
    BY <1>5, <2>1 DEF Moved
  <2>3. Refreshing'
    BY <1>3, <1>8, <2>2, FilesAlone DEF MoveIndex, IndexFilesInv, Refreshing
  <2>4. Apart'
    BY <1>4, <1>5, <2>2 DEF Apart
  <2> QED BY <1>1, <1>4, <1>6, <2>2, <2>3, <2>4 DEF IndexFilesInv
<1> QED BY <1>2, <1>7, <1>8

LEMMA StartKeeps == ASSUME IndexFilesInv, Start PROVE IndexFilesInv'
<1>1. FinishedIsWhole' /\ Manifests' /\ Numbered'
  BY FilesAlone DEF Start, IndexFilesInv
<1>2. IndexFilesTypeOK' /\ PairMatches'
  <2>1. step' \in 0..5
    BY DEF Start
  <2> QED BY <2>1, ServedIsPair DEF Start, IndexFilesInv, IndexFilesTypeOK, PairMatches, dirVars
<1>3. command = Idle
  BY DEF Start, IndexFilesInv, Refreshing
<1>4. Apart' /\ Running'
  BY <1>3 DEF Start, IndexFilesInv, Apart, Running, dirVars
<1>5. Refreshing'
  BY <1>3, FilesAlone DEF Start, IndexFilesInv, Refreshing
<1> QED BY <1>1, <1>2, <1>4, <1>5 DEF IndexFilesInv

LEMMA RestartKeeps == ASSUME IndexFilesInv, Restart PROVE IndexFilesInv'
<1>1. FinishedIsWhole' /\ Manifests' /\ Numbered'
  BY FilesAlone DEF Restart, IndexFilesInv
<1>2. IndexFilesTypeOK' /\ PairMatches'
  BY ServedIsPair DEF Restart, IndexFilesInv, IndexFilesTypeOK, PairMatches, dirVars, pathVars
<1>3. Apart' /\ Running'
  BY DEF Restart, IndexFilesInv, Apart, Running, dirVars, pathVars
<1>4. Refreshing'
  BY FilesAlone DEF Restart, IndexFilesInv, Refreshing, pathVars
<1> QED BY <1>1, <1>2, <1>3, <1>4 DEF IndexFilesInv

LEMMA KillKeeps == ASSUME IndexFilesInv, Kill PROVE IndexFilesInv'
<1>1. FinishedIsWhole' /\ Manifests' /\ Numbered'
  BY FilesAlone DEF Kill, IndexFilesInv
<1>2. IndexFilesTypeOK' /\ PairMatches'
  BY DEF Kill, IndexFilesInv, IndexFilesTypeOK, PairMatches, dirVars, pathVars
<1>3. Apart' /\ Running'
  BY DEF Kill, IndexFilesInv, Apart, Running, dirVars, pathVars
<1>4. Refreshing'
  BY FilesAlone DEF Kill, IndexFilesInv, Refreshing, pathVars
<1> QED BY <1>1, <1>2, <1>3, <1>4 DEF IndexFilesInv

-----------------------------------------------------------------------------
(* Commands that write *)

\* An index stays of one crawl when its files, and the numbers they carry, do.
LEMMA PureKept ==
  ASSUME Numbered, NEW d \in Dirs, NEW c, Pure(d, c),
         files'[d] = files[d], json'[d] = json[d],
         \A b \in Builds \ Unbegun : made'[b] = made[b]
  PROVE  Pure(d, c)'
<1>1. Named(d)' = Named(d)
  BY DEF Named
<1>2. \A n \in Named(d) : files[d][n].build \notin Unbegun
  BY DEF Numbered, Named
<1> QED BY <1>1, <1>2 DEF Pure

LEMMA BeginKeeps ==
  ASSUME IndexFilesInv, command = Idle, step = 0, Unbegun # {},
         NEW p \in Paths, NEW d \in DirFor(p), NEW c \in 1..LastCrawl, NEW count \in 1..MaxSegments,
         p = "live" => c = crawlAt["live"],
         Begin(d, p, c, count)
  PROVE  IndexFilesInv'
<1>1. /\ NextBuild \in Builds /\ NextBuild \in Unbegun
      /\ Unbegun \ {NextBuild} = (NextBuild + 1)..MaxBuilds
  BY NextNumber DEF IndexFilesInv
<1>2. PICK b \in Builds : b = NextBuild
  BY <1>1
<1>3. indexAt \in [Paths -> Dirs \cup {NoDir}] /\ made \in [Builds -> 0..LastCrawl]
  BY DEF IndexFilesInv, IndexFilesTypeOK
<1>4. d \in Dirs /\ d # NoDir /\ (indexAt[p] = NoDir \/ indexAt[p] = d) /\ \A q \in Paths : q # p => indexAt[q] # d
  BY <1>3 DEF DirFor, FreeDirs, IndexFilesInv, Apart
<1>5. /\ indexAt' \in [Paths -> Dirs \cup {NoDir}]
      /\ indexAt'[p] = d /\ \A q \in Paths : q # p => indexAt'[q] = indexAt[q]
  BY <1>3, <1>4 DEF Begin
<1>6. /\ made' \in [Builds -> 0..LastCrawl]
      /\ made'[b] = c /\ \A a \in Builds : a # b => made'[a] = made[a]
  <2>1. c \in 0..LastCrawl /\ made' = [made EXCEPT ![b] = c]
    BY <1>2 DEF Begin
  <2> QED BY <1>3, <2>1
<1>7. Unbegun' = Unbegun \ {b} /\ b \in Unbegun
  <2>1. c # 0
    OBVIOUS
  <2> QED BY <1>1, <1>2, <1>6, <2>1 DEF Unbegun
<1>8. /\ \A e \in Dirs : e # d => files'[e] = files[e] /\ json'[e] = json[e]
      /\ indexAt[p] # NoDir => files' = files /\ json' = json
      /\ indexAt[p] = NoDir => files'[d] = [n \in Slots |-> NoFile] /\ json'[d] = NoJson
  BY <1>4 DEF Begin, IndexFilesInv, IndexFilesTypeOK
<1>9. finished'[d] = 0 /\ \A e \in Dirs : e # d => finished'[e] = finished[e]
  BY <1>4 DEF Begin, IndexFilesInv, IndexFilesTypeOK
<1>10. /\ used \in [Dirs -> Nat] /\ used' \in [Dirs -> Nat]
       /\ used'[d] = (IF indexAt[p] = NoDir THEN 1 ELSE used[d] + 1)
       /\ \A e \in Dirs : e # d => used'[e] = used[e]
  BY <1>4 DEF Begin, IndexFilesInv, IndexFilesTypeOK
<1>11. IndexFilesTypeOK'
  <2>1. files' \in [Dirs -> [Slots -> [build : 0..MaxBuilds, whole : BOOLEAN]]]
    <3>1. files \in [Dirs -> [Slots -> [build : 0..MaxBuilds, whole : BOOLEAN]]]
      BY DEF IndexFilesInv, IndexFilesTypeOK
    <3>2. [n \in Slots |-> NoFile] \in [Slots -> [build : 0..MaxBuilds, whole : BOOLEAN]]
      BY DEF NoFile
    <3> QED BY <1>4, <3>1, <3>2 DEF Begin
  <2>2. json' \in [Dirs -> [build : 0..MaxBuilds, whole : BOOLEAN, segments : 0..MaxSegments]]
    <3>1. json \in [Dirs -> [build : 0..MaxBuilds, whole : BOOLEAN, segments : 0..MaxSegments]]
      BY DEF IndexFilesInv, IndexFilesTypeOK
    <3>2. NoJson \in [build : 0..MaxBuilds, whole : BOOLEAN, segments : 0..MaxSegments]
      BY DEF NoJson
    <3> QED BY <1>4, <3>1, <3>2 DEF Begin
  <2>3. finished' \in [Dirs -> 0..MaxBuilds]
    <3>1. finished \in [Dirs -> 0..MaxBuilds] /\ 0 \in 0..MaxBuilds
      BY DEF IndexFilesInv, IndexFilesTypeOK
    <3> QED BY <1>4, <3>1 DEF Begin
  <2>4. command' \in Command
    <3>1. 0 \in 0..MaxSegments
      OBVIOUS
    <3> QED BY <1>2, <1>4, <3>1 DEF Begin, Command
  <2> QED BY <1>5, <1>6, <1>10, <2>1, <2>2, <2>3, <2>4 DEF Begin, IndexFilesInv, IndexFilesTypeOK
<1>12. FinishedIsWhole'
  <2>1. SUFFICES ASSUME NEW e \in Dirs, finished'[e] # 0
                 PROVE  (Opens(e) /\ json[e].build = finished[e] /\ \A n \in Named(e) : files[e][n].build = finished[e])'
    BY DEF FinishedIsWhole
  <2>2. e # d /\ files'[e] = files[e] /\ json'[e] = json[e] /\ finished'[e] = finished[e]
    BY <1>8, <1>9, <2>1
  <2> QED BY <2>1, <2>2 DEF FinishedIsWhole, IndexFilesInv, Opens, Named
<1>13. Numbered'
  <2>1. b \in 0..MaxBuilds /\ Unbegun' = (b + 1)..MaxBuilds
    BY <1>1, <1>2, <1>7 DEF Builds
  <2>2. 0 \notin Unbegun
    BY DEF Unbegun, Builds
  <2>3. \A e \in Dirs : finished'[e] \notin Unbegun'
    BY <1>7, <1>9, <2>2 DEF IndexFilesInv, Numbered
  <2>4. \A e \in Dirs, n \in Slots : files'[e][n].build \notin Unbegun'
    <3>1. SUFFICES ASSUME NEW e \in Dirs, NEW n \in Slots PROVE files'[e][n].build \notin Unbegun'
      OBVIOUS
    <3>2. files'[e] = files[e] \/ files'[e][n] = NoFile
      BY <1>8
    <3> QED BY <1>7, <2>2, <3>2 DEF IndexFilesInv, Numbered, NoFile
  <2> QED BY <2>1, <2>3, <2>4 DEF Numbered
<1>14. Running'
  <2>1. /\ command'.dir = d /\ command'.build = b /\ command'.next = 0 /\ command'.count = count
        /\ command'.open = FALSE /\ command'.json = "unwritten"
    BY <1>2 DEF Begin
  <2>2. \A n \in Slots : ~(n < 0)
    BY DEF Slots
  <2>3. d = indexAt'["live"] => p = "live"
    BY <1>4, <1>5 DEF Paths
  <2>4. step' = 0 /\ crawlAt' = crawlAt
    BY DEF Begin
  <2> QED BY <1>6, <1>7, <1>9, <2>1, <2>2, <2>3, <2>4 DEF Running
<1>15. Manifests'
  <2>1. \A e \in Dirs : e # d => used'[e] = used[e] /\ json'[e] = json[e] /\ finished'[e] = finished[e]
    BY <1>8, <1>9, <1>10
  <2>2. CASE indexAt[p] = NoDir
    BY <1>8, <2>1, <2>2 DEF IndexFilesInv, Manifests, NoJson
  <2>3. CASE indexAt[p] # NoDir
    <3>1. used[d] >= 1 /\ used'[d] # 1
      BY <1>4, <1>10, <2>3 DEF IndexFilesInv, Apart
    <3> QED BY <1>8, <2>1, <2>3, <3>1 DEF IndexFilesInv, Manifests
  <2> QED BY <2>2, <2>3
<1>16. Apart'
  <2>1. \A q, r \in Paths : q # r /\ indexAt'[q] = indexAt'[r] => indexAt'[q] = NoDir
    BY <1>4, <1>5 DEF IndexFilesInv, Apart
  <2>2. used'[d] >= 1
    BY <1>4, <1>10
  <2>3. \A q \in Paths : indexAt'[q] # NoDir => used'[indexAt'[q]] >= 1
    BY <1>3, <1>4, <1>5, <1>10, <2>2 DEF IndexFilesInv, Apart
  <2> QED BY <2>1, <2>3 DEF Apart
<1>17. Refreshing'
  <2>1. SUFFICES ASSUME indexAt'["live"] # NoDir, crawlAt'["live"] # 0
                 PROVE  Pure(indexAt["live"], crawlAt["live"])'
    BY DEF Begin, Refreshing
  <2>2. "live" \in Paths /\ crawlAt' = crawlAt
    BY DEF Begin, Paths
  <2>3. \A a \in Builds \ Unbegun : made'[a] = made[a]
    BY <1>6, <1>7
  <2>4. CASE p = "live" /\ indexAt[p] = NoDir
    <3>1. indexAt'["live"] = d /\ Named(d)' = {}
      BY <1>5, <1>8, <2>4 DEF Named, NoJson, Slots
    <3> QED BY <1>4, <3>1 DEF Pure
  <2>5. CASE ~(p = "live" /\ indexAt[p] = NoDir)
    <3>1. PICK e \in Dirs : e = indexAt["live"] /\ indexAt'["live"] = e
      BY <1>3, <1>4, <1>5, <2>1, <2>2, <2>5
    <3>2. files'[e] = files[e] /\ json'[e] = json[e]
      BY <1>4, <1>5, <1>8, <2>2, <2>5, <3>1
    <3>3. PICK x \in 0..LastCrawl : x = crawlAt["live"]
      BY <2>2 DEF IndexFilesInv, IndexFilesTypeOK
    <3>4. Pure(e, x)
      BY <1>4, <2>1, <2>2, <3>1, <3>3 DEF IndexFilesInv, Refreshing, Pure
    <3>5. Pure(e, x)'
      BY <2>3, <3>2, <3>4, PureKept DEF IndexFilesInv
    <3> QED BY <2>2, <3>1, <3>3, <3>5
  <2> QED BY <2>4, <2>5
<1>18. PairMatches'
  BY DEF Begin, IndexFilesInv, PairMatches
<1> QED BY <1>11, <1>12, <1>13, <1>14, <1>15, <1>16, <1>17, <1>18 DEF IndexFilesInv

\* What is known of a command that runs, and of the crawl and the index that
\* are live while it does.
LEMMA CommandRuns ==
  ASSUME IndexFilesInv, command # Idle
  PROVE  /\ command \in Command /\ step = 0 /\ finished[command.dir] = 0
         /\ command.build \in Builds /\ command.build \notin Unbegun
         /\ command.dir \in Dirs /\ made[command.build] \in 0..LastCrawl
<1>1. command \in Command
  BY DEF IndexFilesInv, IndexFilesTypeOK
<1>2. command.build \in Builds /\ command.dir \in Dirs
  BY <1>1 DEF Command
<1> QED BY <1>1, <1>2 DEF IndexFilesInv, IndexFilesTypeOK, Running

\* Of what a command writes, only the index in its own directory can lose its
\* one crawl.
LEMMA LiveKept ==
  ASSUME IndexFilesInv, command # Idle, UNCHANGED <<made, pathVars>>,
         NEW d \in Dirs, d = command.dir,
         \A e \in Dirs : e # d => files'[e] = files[e] /\ json'[e] = json[e],
         NEW x, x = made[command.build],
         Pure(d, x) => Pure(d, x)'
  PROVE  Refreshing'
<1>1. step' = 0 /\ indexAt' = indexAt /\ crawlAt' = crawlAt
  BY CommandRuns DEF pathVars
<1>2. SUFFICES ASSUME indexAt["live"] # NoDir, crawlAt["live"] # 0
               PROVE  Pure(indexAt["live"], crawlAt["live"])'
  BY <1>1 DEF Refreshing
<1>3. PICK e \in Dirs : e = indexAt["live"]
  BY <1>2 DEF IndexFilesInv, IndexFilesTypeOK, Paths
<1>4. PICK c \in 0..LastCrawl : c = crawlAt["live"]
  BY DEF IndexFilesInv, IndexFilesTypeOK, Paths
<1>5. Pure(e, c)
  BY <1>2, <1>3, <1>4 DEF IndexFilesInv, Refreshing
<1>6. CASE e = d
  <2>1. c = x
    BY <1>3, <1>4, <1>6 DEF IndexFilesInv, Running
  <2> QED BY <1>1, <1>3, <1>4, <1>5, <1>6, <2>1
<1>7. CASE e # d
  <2>1. files'[e] = files[e] /\ json'[e] = json[e]
    BY <1>7
  <2>2. Pure(e, c)'
    BY <1>5, <2>1, PureKept DEF IndexFilesInv
  <2> QED BY <1>1, <1>3, <1>4, <2>2
<1> QED BY <1>6, <1>7

\* The paths and what the server has open do not depend on files.
LEMMA PathsAlone ==
  ASSUME IndexFilesInv, UNCHANGED <<used, indexAt, server>>
  PROVE  Apart' /\ PairMatches'
BY DEF IndexFilesInv, Apart, PairMatches

LEMMA CreateSegmentKeeps == ASSUME IndexFilesInv, CreateSegment PROVE IndexFilesInv'
<1>1. PICK d \in Dirs : d = command.dir
  BY CommandRuns DEF CreateSegment
<1>2. PICK b \in Builds : b = command.build
  BY CommandRuns DEF CreateSegment
<1>3. PICK k \in Slots : k = command.next
  BY CommandRuns DEF CreateSegment, Command, Slots
<1>4. /\ files \in [Dirs -> [Slots -> [build : 0..MaxBuilds, whole : BOOLEAN]]]
      /\ command \in Command /\ command # Idle /\ b \notin Unbegun /\ finished[d] = 0 /\ step = 0
  BY <1>1, <1>2, CommandRuns DEF CreateSegment, IndexFilesInv, IndexFilesTypeOK
<1>5. files' = [files EXCEPT ![d][k] = [build |-> b, whole |-> FALSE]]
  BY <1>1, <1>2, <1>3 DEF CreateSegment
<1>6. files' \in [Dirs -> [Slots -> [build : 0..MaxBuilds, whole : BOOLEAN]]]
  BY <1>4, <1>5 DEF Builds
<1>7. /\ files'[d][k] = [build |-> b, whole |-> FALSE]
      /\ \A n \in Slots : n # k => files'[d][n] = files[d][n]
      /\ \A e \in Dirs : e # d => files'[e] = files[e]
  BY <1>4, <1>5
<1>8. UNCHANGED <<json, finished, used, made, pathVars, server>> /\ UNCHANGED <<indexAt, crawlAt, step>>
  BY DEF CreateSegment, InDir, pathVars
<1>9. IndexFilesTypeOK'
  <2>1. command' \in Command
    BY <1>4 DEF CreateSegment, Command
  <2> QED BY <1>6, <1>8, <2>1 DEF IndexFilesInv, IndexFilesTypeOK
<1>10. FinishedIsWhole'
  BY <1>4, <1>7, <1>8 DEF IndexFilesInv, FinishedIsWhole, Opens, Named
<1>11. Numbered'
  <2>1. Unbegun' = Unbegun
    BY <1>8 DEF Unbegun
  <2>2. \A e \in Dirs, n \in Slots : files'[e][n].build = b \/ files'[e][n] = files[e][n]
    BY <1>7
  <2> QED BY <1>4, <1>8, <2>1, <2>2 DEF IndexFilesInv, Numbered
<1>12. Running'
  <2>1. /\ command'.dir = d /\ command'.build = b /\ command'.next = k /\ command'.count = command.count
        /\ command'.open = TRUE /\ command'.json = "unwritten"
    BY <1>1, <1>2, <1>3, <1>4 DEF CreateSegment, Command
  <2>2. \A n \in Slots : n < k => files'[d][n] = [build |-> b, whole |-> TRUE]
    <3>1. \A n \in Slots : n < k => n # k
      BY DEF Slots
    <3>2. \A n \in Slots : n < k => files[d][n] = [build |-> b, whole |-> TRUE]
      BY <1>1, <1>2, <1>3, <1>4 DEF IndexFilesInv, Running
    <3> QED BY <1>7, <3>1, <3>2
  <2>3. k < command.count /\ k <= command.count
    BY <1>3, <1>4 DEF CreateSegment, Command
  <2>4. d = indexAt["live"] => made[b] = crawlAt["live"]
    BY <1>1, <1>2, <1>4 DEF IndexFilesInv, Running
  <2>5. Unbegun' = Unbegun
    BY <1>8 DEF Unbegun
  <2>6. files'[d][k].build = b /\ finished'[d] = 0 /\ step' = 0 /\ b \notin Unbegun'
    BY <1>4, <1>7, <1>8, <2>5
  <2>7. indexAt' = indexAt /\ crawlAt' = crawlAt /\ made' = made
    BY <1>8
  <2> QED BY <2>1, <2>2, <2>3, <2>4, <2>6, <2>7 DEF Running
<1>13. Manifests'
  BY <1>8 DEF IndexFilesInv, Manifests
<1>14. Refreshing'
  <2>1. PICK x \in 0..LastCrawl : x = made[b]
    BY DEF IndexFilesInv, IndexFilesTypeOK
  <2>2. Pure(d, x) => Pure(d, x)'
    BY <1>7, <1>8, <2>1 DEF Pure, Named
  <2> QED BY <1>1, <1>2, <1>4, <1>7, <1>8, <2>1, <2>2, LiveKept
<1> QED BY <1>8, <1>9, <1>10, <1>11, <1>12, <1>13, <1>14, PathsAlone DEF IndexFilesInv

LEMMA FinishSegmentKeeps == ASSUME IndexFilesInv, FinishSegment PROVE IndexFilesInv'
<1>1. PICK d \in Dirs : d = command.dir
  BY CommandRuns DEF FinishSegment
<1>2. PICK b \in Builds : b = command.build
  BY CommandRuns DEF FinishSegment
<1>3. command \in Command /\ command # Idle /\ b \notin Unbegun /\ finished[d] = 0 /\ step = 0
  BY <1>1, <1>2, CommandRuns DEF FinishSegment
<1>4. command.open /\ command.next < command.count /\ command.json = "unwritten"
  BY <1>3 DEF FinishSegment, IndexFilesInv, Running, Command
<1>5. PICK k \in Slots : k = command.next
  BY <1>3, <1>4 DEF Command, Slots
<1>6. /\ files \in [Dirs -> [Slots -> [build : 0..MaxBuilds, whole : BOOLEAN]]]
      /\ files[d][k] \in [build : 0..MaxBuilds, whole : BOOLEAN] /\ files[d][k].build = b
  BY <1>1, <1>2, <1>3, <1>4, <1>5 DEF IndexFilesInv, IndexFilesTypeOK, Running
<1>7. files' = [files EXCEPT ![d][k].whole = TRUE]
  BY <1>1, <1>5 DEF FinishSegment
<1>8. files' \in [Dirs -> [Slots -> [build : 0..MaxBuilds, whole : BOOLEAN]]]
  BY <1>6, <1>7
<1>9. /\ files'[d][k] = [build |-> b, whole |-> TRUE]
      /\ \A n \in Slots : n # k => files'[d][n] = files[d][n]
      /\ \A e \in Dirs : e # d => files'[e] = files[e]
  BY <1>6, <1>7
<1>10. UNCHANGED <<json, finished, used, made, pathVars, server>> /\ UNCHANGED <<indexAt, crawlAt, step>>
  BY DEF FinishSegment, InDir, pathVars
<1>11. IndexFilesTypeOK'
  <2>1. command' \in Command
    <3>1. command.next + 1 \in 0..MaxSegments
      BY <1>3, <1>4 DEF Command
    <3> QED BY <1>3, <3>1 DEF FinishSegment, Command
  <2> QED BY <1>8, <1>10, <2>1 DEF IndexFilesInv, IndexFilesTypeOK
<1>12. FinishedIsWhole'
  BY <1>3, <1>9, <1>10 DEF IndexFilesInv, FinishedIsWhole, Opens, Named
<1>13. Numbered'
  <2>1. Unbegun' = Unbegun
    BY <1>10 DEF Unbegun
  <2> QED BY <1>3, <1>9, <1>10, <2>1 DEF IndexFilesInv, Numbered
<1>14. Running'
  <2>1. /\ command'.dir = d /\ command'.build = b /\ command'.next = k + 1 /\ command'.count = command.count
        /\ command'.open = FALSE /\ command'.json = "unwritten"
    BY <1>1, <1>2, <1>3, <1>4, <1>5 DEF FinishSegment, Command
  <2>2. \A n \in Slots : n < k + 1 => files'[d][n] = [build |-> b, whole |-> TRUE]
    <3>1. \A n \in Slots : n < k + 1 => n < k \/ n = k
      BY DEF Slots
    <3>2. \A n \in Slots : n < k => files[d][n] = [build |-> b, whole |-> TRUE]
      BY <1>1, <1>2, <1>3, <1>5 DEF IndexFilesInv, Running
    <3> QED BY <1>9, <3>1, <3>2
  <2>3. k + 1 <= command.count
    BY <1>3, <1>4, <1>5 DEF Command, Slots
  <2>4. d = indexAt["live"] => made[b] = crawlAt["live"]
    BY <1>1, <1>2, <1>3 DEF IndexFilesInv, Running
  <2>5. Unbegun' = Unbegun
    BY <1>10 DEF Unbegun
  <2> QED BY <1>3, <1>10, <2>1, <2>2, <2>3, <2>4, <2>5 DEF Running
<1>15. Manifests'
  BY <1>10 DEF IndexFilesInv, Manifests
<1>16. Refreshing'
  <2>1. PICK x \in 0..LastCrawl : x = made[b]
    BY DEF IndexFilesInv, IndexFilesTypeOK
  <2>2. Pure(d, x) => Pure(d, x)'
    BY <1>9, <1>10, <2>1 DEF Pure, Named
  <2> QED BY <1>1, <1>2, <1>3, <1>9, <1>10, <2>1, <2>2, LiveKept
<1> QED BY <1>10, <1>11, <1>12, <1>13, <1>14, <1>15, <1>16, PathsAlone DEF IndexFilesInv

LEMMA CreateJsonKeeps == ASSUME IndexFilesInv, CreateJson PROVE IndexFilesInv'
<1>1. PICK d \in Dirs : d = command.dir
  BY CommandRuns DEF CreateJson
<1>2. PICK b \in Builds : b = command.build
  BY CommandRuns DEF CreateJson
<1>3. command \in Command /\ command # Idle /\ b \notin Unbegun /\ finished[d] = 0 /\ step = 0
  BY <1>1, <1>2, CommandRuns DEF CreateJson
<1>4. command.next = command.count /\ ~command.open
  BY DEF CreateJson, JsonsTurn
<1>5. /\ json \in [Dirs -> [build : 0..MaxBuilds, whole : BOOLEAN, segments : 0..MaxSegments]]
      /\ NoJson \in [build : 0..MaxBuilds, whole : BOOLEAN, segments : 0..MaxSegments]
  BY DEF IndexFilesInv, IndexFilesTypeOK, NoJson
<1>6. json' = [json EXCEPT ![d] = NoJson]
  BY <1>1 DEF CreateJson
<1>7. json' \in [Dirs -> [build : 0..MaxBuilds, whole : BOOLEAN, segments : 0..MaxSegments]]
  BY <1>5, <1>6
<1>8. json'[d] = NoJson /\ \A e \in Dirs : e # d => json'[e] = json[e]
  BY <1>5, <1>6
<1>9. UNCHANGED <<files, finished, used, made, pathVars, server>> /\ UNCHANGED <<indexAt, crawlAt, step>>
  BY DEF CreateJson, InDir, pathVars
<1>10. IndexFilesTypeOK'
  <2>1. command' \in Command
    BY <1>3 DEF CreateJson, Command
  <2> QED BY <1>7, <1>9, <2>1 DEF IndexFilesInv, IndexFilesTypeOK
<1>11. FinishedIsWhole'
  BY <1>3, <1>8, <1>9 DEF IndexFilesInv, FinishedIsWhole, Opens, Named
<1>12. Numbered'
  BY <1>9 DEF IndexFilesInv, Numbered, Unbegun
<1>13. Running'
  <2>1. /\ command'.dir = d /\ command'.build = b /\ command'.next = command.next /\ command'.count = command.count
        /\ command'.open = FALSE /\ command'.json = "empty"
    BY <1>1, <1>2, <1>3, <1>4 DEF CreateJson, Command
  <2>2. \A n \in Slots : n < command.next => files[d][n] = [build |-> b, whole |-> TRUE]
    BY <1>1, <1>2, <1>3 DEF IndexFilesInv, Running
  <2>3. d = indexAt["live"] => made[b] = crawlAt["live"]
    BY <1>1, <1>2, <1>3 DEF IndexFilesInv, Running
  <2>4. Unbegun' = Unbegun
    BY <1>9 DEF Unbegun
  <2>5. command.next <= command.count
    BY <1>3, <1>4 DEF Command
  <2>6. ~json'[d].whole /\ finished'[d] = 0 /\ step' = 0 /\ b \notin Unbegun' /\ files' = files
    BY <1>3, <1>8, <1>9, <2>4 DEF NoJson
  <2>7. indexAt' = indexAt /\ crawlAt' = crawlAt /\ made' = made
    BY <1>9
  <2> QED BY <1>4, <2>1, <2>2, <2>3, <2>5, <2>6, <2>7 DEF Running
<1>14. Manifests'
  BY <1>8, <1>9 DEF IndexFilesInv, Manifests, NoJson
<1>15. Refreshing'
  <2>1. PICK x \in 0..LastCrawl : x = made[b]
    BY DEF IndexFilesInv, IndexFilesTypeOK
  <2>2. Named(d)' = {}
    BY <1>8 DEF Named, NoJson, Slots
  <2>3. Pure(d, x) => Pure(d, x)'
    BY <2>2 DEF Pure
  <2> QED BY <1>1, <1>2, <1>3, <1>8, <1>9, <2>1, <2>3, LiveKept
<1> QED BY <1>9, <1>10, <1>11, <1>12, <1>13, <1>14, <1>15, PathsAlone DEF IndexFilesInv

LEMMA FinishJsonKeeps == ASSUME IndexFilesInv, FinishJson PROVE IndexFilesInv'
<1>1. PICK d \in Dirs : d = command.dir
  BY CommandRuns DEF FinishJson
<1>2. PICK b \in Builds : b = command.build
  BY CommandRuns DEF FinishJson
<1>3. PICK k \in 1..MaxSegments : k = command.count
  BY CommandRuns DEF FinishJson, Command
<1>4. command \in Command /\ command # Idle /\ b \notin Unbegun /\ step = 0
  BY <1>1, <1>2, CommandRuns DEF FinishJson
<1>5. \A n \in Slots : n < k => files[d][n] = [build |-> b, whole |-> TRUE]
  BY <1>1, <1>2, <1>3, <1>4 DEF FinishJson, IndexFilesInv, Running
<1>6. /\ json \in [Dirs -> [build : 0..MaxBuilds, whole : BOOLEAN, segments : 0..MaxSegments]]
      /\ finished \in [Dirs -> 0..MaxBuilds] /\ b \in 0..MaxBuilds /\ b # 0
  BY DEF IndexFilesInv, IndexFilesTypeOK, Builds
<1>7. /\ json' = [json EXCEPT ![d] = [build |-> b, whole |-> TRUE, segments |-> k]]
      /\ finished' = [finished EXCEPT ![d] = b]
  BY <1>1, <1>2, <1>3 DEF FinishJson
<1>8. json' \in [Dirs -> [build : 0..MaxBuilds, whole : BOOLEAN, segments : 0..MaxSegments]]
  <2>1. [build |-> b, whole |-> TRUE, segments |-> k] \in [build : 0..MaxBuilds, whole : BOOLEAN, segments : 0..MaxSegments]
    BY <1>6
  <2> QED BY <1>6, <1>7, <2>1
<1>9. /\ json'[d] = [build |-> b, whole |-> TRUE, segments |-> k] /\ \A e \in Dirs : e # d => json'[e] = json[e]
      /\ finished'[d] = b /\ \A e \in Dirs : e # d => finished'[e] = finished[e]
      /\ finished' \in [Dirs -> 0..MaxBuilds]
  BY <1>6, <1>7
<1>10. UNCHANGED <<files, used, made, pathVars, server>> /\ UNCHANGED <<indexAt, crawlAt, step>> /\ command' = Idle
  BY DEF FinishJson, pathVars
<1>11. IndexFilesTypeOK'
  BY <1>8, <1>9, <1>10 DEF IndexFilesInv, IndexFilesTypeOK
<1>12. FinishedIsWhole'
  <2>1. (Opens(d) /\ json[d].build = finished[d] /\ \A n \in Named(d) : files[d][n].build = finished[d])'
    BY <1>5, <1>9, <1>10 DEF Opens, Named
  <2>2. \A e \in Dirs : e # d /\ finished'[e] # 0 =>
          (Opens(e) /\ json[e].build = finished[e] /\ \A n \in Named(e) : files[e][n].build = finished[e])'
    BY <1>9, <1>10 DEF IndexFilesInv, FinishedIsWhole, Opens, Named
  <2> QED BY <2>1, <2>2 DEF FinishedIsWhole
<1>13. Numbered'
  <2>1. Unbegun' = Unbegun
    BY <1>10 DEF Unbegun
  <2> QED BY <1>4, <1>9, <1>10, <2>1 DEF IndexFilesInv, Numbered
<1>14. Running'
  BY <1>10 DEF Running
<1>15. Manifests'
  <2>1. k # 0
    OBVIOUS
  <2> QED BY <1>6, <1>9, <1>10, <2>1 DEF IndexFilesInv, Manifests
<1>16. Refreshing'
  <2>1. PICK x \in 0..LastCrawl : x = made[b]
    BY DEF IndexFilesInv, IndexFilesTypeOK
  <2>2. Pure(d, x) => Pure(d, x)'
    BY <1>5, <1>9, <1>10, <2>1 DEF Pure, Named
  <2> QED BY <1>1, <1>2, <1>4, <1>9, <1>10, <2>1, <2>2, LiveKept
<1> QED BY <1>10, <1>11, <1>12, <1>13, <1>14, <1>15, <1>16, PathsAlone DEF IndexFilesInv

LEMMA BuildKeeps ==
  ASSUME IndexFilesInv, NEW p \in {"new", "live"}, NEW count \in 1..MaxSegments, Build(p, count)
  PROVE  IndexFilesInv'
<1>1. p \in Paths /\ indexAt \in [Paths -> Dirs \cup {NoDir}] /\ crawlAt[p] \in 0..LastCrawl
  BY DEF Paths, IndexFilesInv, IndexFilesTypeOK
<1>2. PICK c \in 1..LastCrawl : c = crawlAt[p]
  BY <1>1 DEF Build
<1>3. PICK d \in DirFor(p) : Begin(d, p, c, count)
  BY <1>2 DEF Build
<1>4. p = "live" => c = crawlAt["live"]
  BY <1>2
<1>5. command = Idle /\ step = 0 /\ Unbegun # {}
  BY DEF Build
<1> QED BY <1>1, <1>3, <1>4, <1>5, BeginKeeps

LEMMA MergeKeeps ==
  ASSUME IndexFilesInv, NEW q \in Typed \ {"live", "old"}, NEW count \in 1..MaxSegments,
         Succeeded("new"), Merge("new", q, count)
  PROVE  IndexFilesInv'
<1>1. /\ Place(q) \in {"merged", "new"} /\ Place(q) \in Paths /\ "new" \in Paths
      /\ indexAt \in [Paths -> Dirs \cup {NoDir}]
  BY DEF Typed, Place, Paths, IndexFilesInv, IndexFilesTypeOK
<1>2. PICK source \in Dirs : source = indexAt["new"]
  BY <1>1 DEF Merge
<1>3. PICK c \in CrawlsOf(source), d \in DirFor(Place(q)) : Begin(d, Place(q), c, count)
  BY <1>2 DEF Merge
<1>4. finished[source] # 0 /\ Opens(source)
  BY <1>2 DEF Succeeded, Merge
<1>5. c = made[finished[source]]
  <2>1. PICK x : x = made[finished[source]]
    OBVIOUS
  <2>2. Pure(source, x)
    BY <1>4, <2>1, FinishedIsPure DEF IndexFilesInv
  <2>3. CrawlsOf(source) = {x}
    BY <1>4, <2>2, PureIsOneCrawl DEF IndexFilesInv
  <2> QED BY <1>3, <2>1, <2>3
<1>6. c \in 1..LastCrawl
  <2>1. finished[source] \in Builds /\ finished[source] \notin Unbegun
    BY <1>4 DEF IndexFilesInv, IndexFilesTypeOK, Numbered, Builds
  <2>2. made[finished[source]] \in 0..LastCrawl /\ made[finished[source]] # 0
    BY <2>1 DEF IndexFilesInv, IndexFilesTypeOK, Unbegun
  <2> QED BY <1>5, <2>2
<1>7. Place(q) = "live" => c = crawlAt["live"]
  BY <1>1
<1>8. command = Idle /\ step = 0 /\ Unbegun # {}
  BY DEF Merge
<1> QED BY <1>1, <1>3, <1>6, <1>7, <1>8, BeginKeeps

-----------------------------------------------------------------------------
(* Every step *)

LEMMA FilesStutter == ASSUME IndexFilesInv, UNCHANGED vars PROVE IndexFilesInv'
<1>1. FinishedIsWhole' /\ Manifests' /\ Numbered'
  BY FilesAlone DEF vars, IndexFilesInv
<1>2. IndexFilesTypeOK' /\ PairMatches'
  BY DEF vars, IndexFilesInv, IndexFilesTypeOK, PairMatches, dirVars, pathVars
<1>3. Apart' /\ Running'
  BY DEF vars, IndexFilesInv, Apart, Running, dirVars, pathVars, Unbegun
<1>4. Refreshing'
  BY FilesAlone DEF vars, IndexFilesInv, Refreshing, pathVars
<1> QED BY <1>1, <1>2, <1>3, <1>4 DEF IndexFilesInv

LEMMA FilesStep == IndexFilesInv /\ [Next]_vars => IndexFilesInv'
<1>1. SUFFICES ASSUME IndexFilesInv, [Next]_vars PROVE IndexFilesInv'
  OBVIOUS
<1>2. CASE Crawl \/ Promote \/ Stop \/ MoveCrawl \/ MoveIndex \/ Start \/ Restart \/ Kill
  BY <1>1, <1>2, CrawlKeeps, PromoteKeeps, StopKeeps, MoveCrawlKeeps, MoveIndexKeeps, StartKeeps, RestartKeeps, KillKeeps
<1>3. CASE \E count \in 1..MaxSegments : Build("new", count) \/ Build("live", count)
  BY <1>1, <1>3, BuildKeeps
<1>4. CASE \E count \in 1..MaxSegments, q \in Typed \ {"live", "old"} : Succeeded("new") /\ Merge("new", q, count)
  BY <1>1, <1>4, MergeKeeps
<1>5. CASE CreateSegment \/ FinishSegment \/ CreateJson \/ FinishJson
  BY <1>1, <1>5, CreateSegmentKeeps, FinishSegmentKeeps, CreateJsonKeeps, FinishJsonKeeps
<1>6. CASE UNCHANGED vars
  BY <1>1, <1>6, FilesStutter
<1> QED BY <1>1, <1>2, <1>3, <1>4, <1>5, <1>6 DEF Next

\* Invariant: the whole of it, with the types of the variables.
THEOREM IndexFilesAreSound == Spec => []IndexFilesInv
<1>1. IndexFilesInv /\ [Next]_vars => IndexFilesInv'
  BY FilesStep
<1> QED BY FilesInit, <1>1, PTL DEF Spec

\* An index whose command ended opens, and is that command's and no other's,
\* whatever was killed in its directory before (build, merge, flush).
THEOREM FinishedIsAlwaysWhole == Spec => []FinishedIsWhole
<1>1. IndexFilesInv => FinishedIsWhole
  BY DEF IndexFilesInv
<1> QED BY IndexFilesAreSound, <1>1, PTL

\* What a command leaves that was killed in a directory new to it never opens:
\* index.json comes last (build, merge; Index::open).
THEOREM HalfBuiltIsAlwaysRefused == Spec => []HalfBuiltIsRefused
<1>1. IndexFilesInv => HalfBuiltIsRefused
  BY DEF IndexFilesInv, Manifests, HalfBuiltIsRefused, Opens
<1> QED BY IndexFilesAreSound, <1>1, PTL

\* Wherever in a refresh the machine restarts, the server shows an index with
\* the pages of its own crawl (AppState; DEPLOYING.md).
THEOREM PairAlwaysMatches == Spec => []PairMatches
<1>1. IndexFilesInv => PairMatches
  BY DEF IndexFilesInv
<1> QED BY IndexFilesAreSound, <1>1, PTL
=============================================================================
