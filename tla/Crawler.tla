------------------------------ MODULE Crawler ------------------------------
(***************************************************************************)
(* The crawl loop (crates/uruk-crawl/src/crawler.rs) over the frontier: one *)
(* loop that dispatches URLs to concurrent tasks and absorbs what they     *)
(* bring back, and the tasks, each of which sees one URL through: the      *)
(* host's robots.txt on first contact, a pause, then the page.             *)
(*                                                                         *)
(* The loop is sequential.  phase says where it is: taking URLs from the   *)
(* frontier ("dispatch"), awaiting join_next ("join"), sleeping until a    *)
(* host cools down ("sleep"), or over.  A task advances whenever its await *)
(* is answered, whatever the loop is doing.                                *)
(*                                                                         *)
(* A site is what it answers: RobotsOf[h] holds the answers host h may     *)
(* give for robots.txt, Web[u] those it may give for the page u.  Parsing  *)
(* is abstracted to the outcome: the links to queue (none under nofollow)  *)
(* and whether the page is to be stored (not under noindex or noarchive,   *)
(* nor when it is empty or a near-duplicate).                              *)
(***************************************************************************)
EXTENDS Frontier

CONSTANTS
  Tasks,      \* the slots of the JoinSet; there are config.concurrency of them
  Seeds,      \* config.seeds
  MaxPages,   \* config.max_pages
  RobotsOf,   \* the answers a host may give for robots.txt
  Web,        \* the answers a page may give
  Brittle,    \* the hosts whose pages may make a task panic
  Horizon,    \* BOUND: how far the histories of time count
  None

Robots == [status : {"body", "missing", "denied", "unavailable"},
           allowed : SUBSET Urls,   \* the URLs a body's rules allow
           root : BOOLEAN,          \* whether they allow "/"
           delay : CrawlDelays]     \* the Crawl-delay, 0 when there is none

Answer == [kind : {"page", "redirect", "error"},
           links : Links,           \* a page's links, a redirect's one target
           keep : BOOLEAN]          \* whether the page is worth storing

ASSUME CrawlerAssumption ==
  /\ Seeds \in Links
  /\ Tasks # {}     \* the command line raises a concurrency of 0 to 1
  /\ MaxPages \in Nat
  /\ Brittle \subseteq Hosts
  /\ 0 \in CrawlDelays
  /\ RobotsOf \in [Hosts -> SUBSET Robots]
  /\ Web \in [Urls -> SUBSET Answer]
  \* The histories count as far as any delay reaches.
  /\ Horizon \in Nat /\ Horizon >= DefaultDelay
  /\ \A d \in CrawlDelays : d <= Horizon
  /\ None \notin Urls /\ None \notin Robots

VARIABLES
  phase,   \* where run() is
  napping, \* the time the loop still sleeps
  task,    \* the tasks of the JoinSet
  robots,  \* RobotsCache
  stored,  \* CrawlState.stored
  quiet,   \* history: time since a request to the host was last outstanding
  asked,   \* history: robots.txt requests made to the host
  paged    \* history: page requests made to the host, counted up to 2

loopVars == <<phase, napping, stored>>
histories == <<quiet, asked, paged>>
vars == <<frontierVars, loopVars, task, robots, histories>>

\* What a completed task reports; "none" until it completes.
NoOutcome == [kind |-> "none", links |-> {}, keep |-> FALSE]
Disallowed(kind) == [NoOutcome EXCEPT !.kind = kind]
Outcome == Answer \cup {NoOutcome, Disallowed("path"), Disallowed("host")}

Idle == [stage |-> "idle", url |-> None, depth |-> 0, rules |-> None,
         made |-> FALSE, nap |-> 0, outcome |-> NoOutcome]

Stages == {"idle", "start", "robots", "pause", "page", "done", "panicked"}

TaskState == [stage : Stages, url : Urls \cup {None}, depth : Nat,
              rules : Robots \cup {None}, made : BOOLEAN, nap : Nat,
              outcome : Outcome]

TypeOK ==
  /\ FrontierTypeOK
  /\ phase \in {"seed", "dispatch", "join", "sleep", "done", "failed"}
  /\ napping \in Nat
  /\ task \in [Tasks -> TaskState]
  /\ \A t \in Tasks : task[t].stage # "idle" => task[t].url \in Urls
  /\ robots \in [Hosts -> Robots \cup {None}]
  /\ stored \in 0..MaxPages
  /\ quiet \in [Hosts -> 0..Horizon]
  /\ asked \in [Hosts -> Nat]
  /\ paged \in [Hosts -> 0..2]

Running(t) == task[t].stage # "idle"
HostOfTask(t) == HostOf[task[t].url]

\* The tasks whose request host h has yet to answer.
Requesting(h) ==
  {t \in Tasks : task[t].stage \in {"robots", "page"} /\ HostOfTask(t) = h}

-----------------------------------------------------------------------------
(* robots.txt *)

\* Mutant: not knowing the rules is taken for permission.
AllowsUnavailable(r, u) ==
  \/ r.status \in {"missing", "unavailable"}
  \/ r.status = "body" /\ u \in r.allowed

\* Robots::allows on the result of Robots::from_fetch: a missing file allows
\* everything, a refused or unavailable one nothing.
Allows(r, u) ==
  \/ r.status = "missing"
  \/ r.status = "body" /\ u \in r.allowed

AllowsRoot(r) == r.status = "missing" \/ (r.status = "body" /\ r.root)

\* Robots::crawl_delay: only a body declares one.
CrawlDelay(r) == IF r.status = "body" THEN r.delay ELSE 0

-----------------------------------------------------------------------------
(* run, before the loop: every seed is pushed; with none accepted, or with no
   store to write to, it fails.  (What follows the loop is left out.)       *)

Init ==
  /\ FrontierInit
  /\ phase = "seed"
  /\ napping = 0
  /\ task = [t \in Tasks |-> Idle]
  /\ robots = [h \in Hosts |-> None]
  /\ stored = 0
  /\ quiet = [h \in Hosts |-> Horizon]
  /\ asked = [h \in Hosts |-> 0]
  /\ paged = [h \in Hosts |-> 0]

PushSeeds ==
  /\ phase = "seed"
  /\ Offer(Seeds, 0, fetched)
  /\ \/ phase' = "failed"
     \/ queued' # 0 /\ phase' = IF MaxPages = 0 THEN "done" ELSE "dispatch"
  /\ UNCHANGED <<readyIn, fetched, delay, blocked, inFlight, handed,
                 napping, stored, task, robots, histories>>

-----------------------------------------------------------------------------
(* dispatch *)

\* next() gave h's front URL: spawn visit() for it.
Dispatch(t, h) ==
  /\ phase = "dispatch"
  /\ ~Running(t)
  /\ Take(h)
  /\ task' = [task EXCEPT ![t] = [Idle EXCEPT !.stage = "start",
                                    !.url = Head(queue[h]).url,
                                    !.depth = Head(queue[h]).depth]]
  /\ UNCHANGED <<loopVars, robots, histories>>

\* dispatch returns: every slot is taken, or next() has nothing ready.
Dispatched ==
  /\ phase = "dispatch"
  /\ (\A t \in Tasks : Running(t)) \/ (\A h \in Hosts : ~Ready(h))

AwaitTask ==
  /\ Dispatched
  /\ \E t \in Tasks : Running(t)
  /\ phase' = "join"
  /\ UNCHANGED <<frontierVars, napping, stored, task, robots, histories>>

\* Nothing runs, but a host is cooling down: sleep until the first is ready.
Sleep ==
  /\ Dispatched
  /\ \A t \in Tasks : ~Running(t)
  /\ phase' = "sleep"
  /\ napping' \in WaitTimes
  /\ UNCHANGED <<frontierVars, stored, task, robots, histories>>

Wake ==
  /\ phase = "sleep"
  /\ napping = 0
  /\ phase' = "dispatch"
  /\ UNCHANGED <<frontierVars, napping, stored, task, robots, histories>>

\* Mutant: Exhausted is believed without looking at the tasks in flight.
ExhaustedHasty ==
  /\ Dispatched
  /\ Cooling = {}
  /\ phase' = "done"
  /\ task' = [t \in Tasks |-> Idle]
  /\ UNCHANGED <<frontierVars, napping, stored, robots, histories>>

\* Nothing runs and nothing is even waiting: the crawl is over.
Exhausted ==
  /\ Dispatched
  /\ \A t \in Tasks : ~Running(t)
  /\ Cooling = {}
  /\ phase' = "done"
  /\ UNCHANGED <<frontierVars, napping, stored, task, robots, histories>>

-----------------------------------------------------------------------------
(* visit: one task, one URL *)

\* Ask the rules: request the page, or report that it may not be requested.
Decide(t, r) ==
  LET h == HostOfTask(t)
  IN  IF Allows(r, task[t].url)
      THEN /\ task' = [task EXCEPT ![t].stage = "page", ![t].rules = r]
           /\ quiet' = [quiet EXCEPT ![h] = 0]
           /\ paged' = [paged EXCEPT ![h] = IF @ < 2 THEN @ + 1 ELSE 2]
      ELSE /\ task' = [task EXCEPT
                ![t].stage = "done", ![t].rules = r,
                ![t].outcome = Disallowed(IF AllowsRoot(r) THEN "path" ELSE "host")]
           /\ UNCHANGED <<quiet, paged>>

\* robots_for finds the host's rules in the cache: no request, no pause.
UseKnownRobots(t) ==
  /\ task[t].stage = "start"
  /\ robots[HostOfTask(t)] # None
  /\ Decide(t, robots[HostOfTask(t)])
  /\ UNCHANGED <<frontierVars, loopVars, robots, asked>>

\* First contact: request robots.txt.
AskRobots(t) ==
  /\ task[t].stage = "start"
  /\ robots[HostOfTask(t)] = None
  /\ task' = [task EXCEPT ![t].stage = "robots"]
  /\ quiet' = [quiet EXCEPT ![HostOfTask(t)] = 0]
  /\ asked' = [asked EXCEPT ![HostOfTask(t)] = @ + 1]
  /\ UNCHANGED <<frontierVars, loopVars, robots, paged>>

\* Mutant: the page is requested straight after robots.txt.
RobotsAnswerHasty(t) ==
  /\ task[t].stage = "robots"
  /\ \E r \in RobotsOf[HostOfTask(t)] :
       /\ task' = [task EXCEPT ![t].stage = "pause", ![t].rules = r,
                               ![t].made = TRUE]
       /\ robots' = [robots EXCEPT ![HostOfTask(t)] = IF @ = None THEN r ELSE @]
  /\ UNCHANGED <<frontierVars, loopVars, histories>>

\* The answer is cached unless the host has one already, and the task pauses
\* for the configured delay before it speaks to the host again.
RobotsAnswer(t) ==
  /\ task[t].stage = "robots"
  /\ \E r \in RobotsOf[HostOfTask(t)] :
       /\ task' = [task EXCEPT ![t].stage = "pause", ![t].rules = r,
                               ![t].made = TRUE, ![t].nap = DefaultDelay]
       /\ robots' = [robots EXCEPT ![HostOfTask(t)] = IF @ = None THEN r ELSE @]
  /\ UNCHANGED <<frontierVars, loopVars, histories>>

Proceed(t) ==
  /\ task[t].stage = "pause"
  /\ task[t].nap = 0
  /\ Decide(t, task[t].rules)
  /\ UNCHANGED <<frontierVars, loopVars, robots, asked>>

\* Fetcher::get returns: a page, a redirect handed back rather than followed,
\* or an error, which is what a timeout comes to as well.  An error's
\* Retry-After comes with it and nothing reads it.
PageAnswer(t) ==
  /\ task[t].stage = "page"
  /\ \E a \in Web[task[t].url] :
       /\ task' = [task EXCEPT ![t].stage = "done", ![t].outcome = a]
  /\ UNCHANGED <<frontierVars, loopVars, robots, histories>>

Panic(t) ==
  /\ task[t].stage \in {"start", "robots", "pause", "page"}
  /\ HostOfTask(t) \in Brittle
  /\ task' = [task EXCEPT ![t] = [Idle EXCEPT !.stage = "panicked",
                                    !.url = task[t].url]]
  /\ UNCHANGED <<frontierVars, loopVars, robots, histories>>

-----------------------------------------------------------------------------
(* absorb *)

\* The task made no request at all.
Skipped(t) == task[t].outcome.kind \in {"path", "host"} /\ ~task[t].made

\* The first half of absorb: release the host, then apply its Crawl-delay.
Release(t) ==
  LET h == HostOfTask(t)
  IN  /\ IF Skipped(t) THEN NoteSkipped(h) ELSE NoteFetched(h)
      /\ IF task[t].made
           THEN SetHostDelay(h, CrawlDelay(task[t].rules))
           ELSE UNCHANGED delay

Completed(t, kind) ==
  /\ phase = "join"
  /\ task[t].stage = "done"
  /\ task[t].outcome.kind = kind

\* Back to the head of the loop; when enough is stored the loop ends and the
\* outstanding tasks are aborted.
Resume(t) ==
  IF stored' < MaxPages
    THEN /\ phase' = "dispatch"
         /\ task' = [task EXCEPT ![t] = Idle]
    ELSE /\ phase' = "done"
         /\ task' = [s \in Tasks |-> Idle]

\* A redirect is requeued at the depth of the URL it was found at.
AbsorbRedirect(t) ==
  /\ Completed(t, "redirect")
  /\ Release(t)
  /\ Offer(task[t].outcome.links, task[t].depth, fetched')
  /\ UNCHANGED stored
  /\ Resume(t)
  /\ UNCHANGED <<blocked, handed, napping, robots, histories>>

\* keep: queue the page's links one hop deeper, and store it or not.
AbsorbPage(t) ==
  /\ Completed(t, "page")
  /\ Release(t)
  /\ Offer(task[t].outcome.links, task[t].depth + 1, fetched')
  /\ stored' = IF task[t].outcome.keep THEN stored + 1 ELSE stored
  /\ Resume(t)
  /\ UNCHANGED <<blocked, handed, napping, robots, histories>>

\* keep fails to write the record: run returns the error at once.
StoreFails(t) ==
  /\ Completed(t, "page")
  /\ task[t].outcome.keep
  /\ Release(t)
  /\ Offer(task[t].outcome.links, task[t].depth + 1, fetched')
  /\ phase' = "failed"
  /\ task' = [s \in Tasks |-> Idle]
  /\ UNCHANGED <<stored, blocked, handed, napping, robots, histories>>

AbsorbPathDisallowed(t) ==
  /\ Completed(t, "path")
  /\ Release(t)
  /\ UNCHANGED stored
  /\ Resume(t)
  /\ UNCHANGED <<queue, queued, seen, blocked, handed, napping, robots, histories>>

AbsorbHostDisallowed(t) ==
  /\ Completed(t, "host")
  /\ Release(t)
  /\ BlockHost(HostOfTask(t))
  /\ UNCHANGED stored
  /\ Resume(t)
  /\ UNCHANGED <<seen, handed, napping, robots, histories>>

AbsorbError(t) ==
  /\ Completed(t, "error")
  /\ Release(t)
  /\ UNCHANGED stored
  /\ Resume(t)
  /\ UNCHANGED <<queue, queued, seen, blocked, handed, napping, robots, histories>>

\* join_next yields a panic: it is counted, and nothing else is touched.
JoinPanicked(t) ==
  /\ phase = "join"
  /\ task[t].stage = "panicked"
  /\ UNCHANGED stored
  /\ Resume(t)
  /\ UNCHANGED <<frontierVars, napping, robots, histories>>

-----------------------------------------------------------------------------

\* One unit of time passes, for the frontier, the loop and every task.
TimePasses ==
  /\ phase \notin {"done", "failed"}
  /\ CoolDown
  /\ napping' = Cooled(napping)
  /\ task' = [t \in Tasks |-> [task[t] EXCEPT !.nap = Cooled(@)]]
  /\ quiet' = [h \in Hosts |->
       IF Requesting(h) # {} THEN 0
       ELSE IF quiet[h] < Horizon THEN quiet[h] + 1 ELSE Horizon]
  /\ UNCHANGED <<queue, fetched, delay, blocked, inFlight, seen, queued, handed,
                 phase, stored, robots, asked, paged>>

\* The crawl is over: nothing happens any more.
Over == phase \in {"done", "failed"} /\ UNCHANGED vars

Join(t) ==
  \/ AbsorbRedirect(t)
  \/ AbsorbPage(t)
  \/ StoreFails(t)
  \/ AbsorbPathDisallowed(t)
  \/ AbsorbHostDisallowed(t)
  \/ AbsorbError(t)
  \/ JoinPanicked(t)

\* What the loop does next.
Loop ==
  \/ PushSeeds
  \/ \E t \in Tasks, h \in Hosts : Dispatch(t, h)
  \/ AwaitTask
  \/ Sleep
  \/ Wake
  \/ Exhausted
  \/ \E t \in Tasks : Join(t)

\* What task t does next.
Visit(t) ==
  \/ UseKnownRobots(t)
  \/ AskRobots(t)
  \/ RobotsAnswer(t)
  \/ Proceed(t)
  \/ PageAnswer(t)

Next ==
  \/ Loop
  \/ \E t \in Tasks : Visit(t) \/ Panic(t)
  \/ TimePasses
  \/ Over

Spec == Init /\ [][Next]_vars

\* The runtime polls what is ready, timers fire, and every request is answered
\* or times out (DEFAULT_TIMEOUT); nobody owes us a panic or a failing disk.
Fairness ==
  /\ WF_vars(Loop)
  /\ \A t \in Tasks : WF_vars(Visit(t))
  /\ WF_vars(TimePasses)

FairSpec == Spec /\ Fairness

-----------------------------------------------------------------------------
(* Safety *)

\* One task at a time has a host: its robots.txt is never raced, and it sees
\* at most one request at once (crawler.rs: "Concurrency is across hosts and
\* never within one").
OneTaskPerHost ==
  \A s, t \in Tasks :
    Running(s) /\ Running(t) /\ HostOfTask(s) = HostOfTask(t) => s = t

\* A host's robots.txt is requested once at most, however many of its URLs are
\* visited and whatever becomes of the tasks ("robots.txt is never fetched
\* twice").
RobotsAskedOnce == \A h \in Hosts : asked[h] <= 1

\* A page is requested only once its host's robots.txt has been answered, with
\* a file that allows the page or with word that there is none; a refusal, a
\* server error, a redirect or a timeout is never permission.
RobotsObeyed ==
  \A t \in Tasks : task[t].stage = "page" =>
    LET r == robots[HostOfTask(t)]
    IN  /\ r # None
        /\ r.status \notin {"denied", "unavailable"}
        /\ r.status = "body" => task[t].url \in r.allowed

\* A host marked off limits is left alone for good: nothing is queued for it
\* and no task has it, though its URLs keep turning up as links.
BlockedIsSilent ==
  \A h \in Hosts : blocked[h] =>
    /\ queue[h] = <<>>
    /\ \A t \in Tasks : Running(t) => HostOfTask(t) # h

\* The crawl does not end early: it ends with as many pages as were asked for,
\* or with no URL waiting anywhere (frontier.rs: "The caller must check its own
\* in-flight work before concluding the crawl is over").  Only a host on which a
\* task panicked may be left with a queue.
EndIsJustified ==
  phase = "done" =>
    \/ stored = MaxPages
    \/ \A h \in Hosts : queue[h] = <<>> \/ (h \in Brittle /\ inFlight[h])

\* Where no task panics, a host is held in flight exactly while a task has it:
\* no way through visit and absorb forgets to release the host, and none
\* releases a host that another task still has.
HeldMeansVisited ==
  phase \notin {"done", "failed"} =>
    \A h \in Hosts \ Brittle :
      inFlight[h] <=> \E t \in Tasks : Running(t) /\ HostOfTask(t) = h

-----------------------------------------------------------------------------
(* The inductive invariant *)

\* Of a host that is free: it is at rest long enough once its cooldown is
\* over, and whoever asked for its robots.txt left the answer in the cache.
AtRest(h) ==
  ~inFlight[h] =>
    /\ readyIn[h] + quiet[h] >= DefaultDelay
    /\ robots[h] = None => asked[h] = 0

\* Of a task and the host it has, stage by stage.
AtWork(t) ==
  LET h == HostOfTask(t)
      in(stage) == task[t].stage = stage
  IN  Running(t) =>
        /\ inFlight[h]
        /\ ~blocked[h]
        /\ in("start") =>
             quiet[h] >= DefaultDelay /\ (robots[h] = None => asked[h] = 0)
        /\ in("robots") => robots[h] = None
        /\ in("pause") \/ in("page") \/ in("done") =>
             robots[h] # None /\ task[t].rules = robots[h]
        /\ in("pause") => task[t].nap + quiet[h] >= DefaultDelay
        /\ in("page") => Allows(robots[h], task[t].url)
        /\ in("done") /\ Skipped(t) => quiet[h] >= DefaultDelay
        /\ in("panicked") => h \in Brittle

\* Of a host that is held: a task has it, unless one panicked.
Held(h) ==
  inFlight[h] /\ h \notin Brittle /\ phase \notin {"done", "failed"} =>
    \E t \in Tasks : Running(t) /\ HostOfTask(t) = h

\* The loop runs only while pages are missing.
Unfinished ==
  /\ phase = "seed" => stored = 0
  /\ phase \in {"dispatch", "join", "sleep"} => stored < MaxPages

CrawlerInv ==
  /\ TypeOK
  /\ Books
  /\ DelayAtLeastDefault
  /\ OneTaskPerHost
  /\ RobotsAskedOnce
  /\ \A h \in Hosts : AtRest(h)
  /\ \A t \in Tasks : AtWork(t)
  /\ \A h \in Hosts : Held(h)
  /\ Unfinished
  /\ EndIsJustified

\* The Crawl-delay of a host as far as it is known; 0 before the first answer.
Declared(h) == IF robots[h] = None THEN 0 ELSE CrawlDelay(robots[h])

\* From its second page on, host h has rested as long as it declared.
RestedAsDeclared(h) == paged[h] = 2 => quiet[h] >= Declared(h)

\* Of a host that is free: its delay is the one it declared or a longer one,
\* and its cooldown gives it that much rest from the second page on.
SettledAtRest(h) ==
  /\ robots[h] = None => paged[h] = 0
  /\ ~inFlight[h] =>
       /\ delay[h] >= Declared(h)
       /\ paged[h] = 2 => readyIn[h] + quiet[h] >= Declared(h)

\* Of a visit: the one that asked for robots.txt comes before the host's first
\* page is counted, and every later one finds the delay applied.
SettledAtWork(t) ==
  LET h == HostOfTask(t)
      in(stage) == task[t].stage = stage
  IN  Running(t) /\ ~in("panicked") =>
        /\ in("start") \/ in("robots") => ~task[t].made
        /\ in("pause") => task[t].made /\ paged[h] = 0
        /\ task[t].made => paged[h] <= 1
        /\ ~task[t].made => delay[h] >= Declared(h)
        /\ in("start") \/ (in("done") /\ Skipped(t)) => RestedAsDeclared(h)

Settled ==
  /\ \A h \in Hosts : SettledAtRest(h)
  /\ \A t \in Tasks : SettledAtWork(t)

SettleInv == CrawlerInv /\ Settled

-----------------------------------------------------------------------------
(* What a step may never do *)

Requests(h) == Requesting(h) = {} /\ Requesting(h)' # {}

\* Politeness: the configured delay has passed since the host's last request
\* was answered whenever the next one is made, robots.txt included, whatever
\* the answers were and whichever tasks made them (README: "never faster than
\* the configured delay").
Polite == [][\A h \in Hosts : Requests(h) => quiet[h] >= DefaultDelay]_vars

\* From the third page on, a host is also given the Crawl-delay it declared.
CrawlDelaySettles ==
  [][\A h \in Hosts : Requests(h) /\ paged[h] = 2 =>
       quiet[h] >= CrawlDelay(robots[h])]_vars

\* The target of a redirect is visited like any other URL: when it is absorbed
\* the target was visited, or is waiting now, or may not be queued at all
\* (fetch.rs: a 3xx "goes through the frontier like any other URL").
RedirectsRequeued ==
  [][\A t \in Tasks : AbsorbRedirect(t) =>
       \A u \in task[t].outcome.links :
         \/ u \in handed \cup WaitingUrls'
         \/ u \in Refused \/ blocked[HostOf[u]] \/ task[t].depth > MaxDepth
         \/ fetched'[HostOf[u]] >= MaxPagesPerHost]_vars

-----------------------------------------------------------------------------
(* Liveness *)

\* Every crawl ends, even when tasks panic, sites fail or redirect in circles
\* and hosts are blocked ("A panicking task must not take the crawl down with
\* it").
Ends == <>(phase \in {"done", "failed"})
=============================================================================
