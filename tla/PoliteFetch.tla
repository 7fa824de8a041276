------------------------------ MODULE PoliteFetch ------------------------------
(***************************************************************************)
(* What fetch, head_ok and fetch_with_escalation of                        *)
(* src/apps/scraping/fetching.py do before and after a request to one      *)
(* domain: the robots check with the copy of robots.txt each process keeps *)
(* for an hour (robots.py), which may itself have to be read through the   *)
(* throttle, the slot of Throttle, the request, and the second, browser    *)
(* fetch of an escalation.  Every worker is a process.  Processes meet at  *)
(* the throttle only, so it is enough to follow some of them, the          *)
(* crawlers, through their calls; the others just come and go there.       *)
(*                                                                         *)
(* The conditional GET state that fetch keeps is in Fetching.              *)
(***************************************************************************)
EXTENDS Throttle, Robots

CONSTANTS
  Crawlers,      \* the workers that are followed through their calls
  Paths,         \* the paths that are asked for
  Bodies,        \* the bodies robots.txt may have
  Unreadable,    \* fetch_robots_raw had no answer 200: the body is empty
  RobotsTTL,     \* CACHE_TTL_SECONDS, in windows
  AllowDynamic,  \* FETCH_ALLOW_DYNAMIC
  SampleBodies,  \* bodies of robots.txt to try the parser alone on,
  SamplePaths    \* with these paths

ASSUME PoliteFetchAssumption ==
  /\ Crawlers \subseteq Workers
  /\ Paths # {}
  /\ Paths \cup SamplePaths \subseteq Words
  /\ Bodies \cup SampleBodies \subseteq Seq(Lines)
  /\ Unreadable \notin Bodies
  /\ RobotsTTL \in Nat
  /\ AllowDynamic \in BOOLEAN

VARIABLES
  stage,  \* stage[w]: where worker w is in a call of the layer
  kind,   \* kind[w]: what has been called; "render" is the browser's fetch
  path,   \* path[w]: the path asked for
  asked,  \* asked[w]: the window in which w began to read robots.txt
  cache   \* cache[w]: the copy of robots.txt of the process, if it has one, the window
          \* it is dated with, and (history) the window in which the site answered

callVars == <<stage, kind, path, asked>>
fetchVars == <<vars, callVars, cache>>

NoCopy == [body |-> Unreadable, at |-> -1, answered |-> -1]

\* head_ok goes the way of fetch.
Kinds == {"fetch", "escalate", "render"}

\* _parse_body of what the site answered
Text(body) == IF body = Unreadable THEN <<>> ELSE body

AnyPath == CHOOSE p \in Paths : TRUE

FetchInit ==
  /\ Init
  /\ stage = [w \in Crawlers |-> "idle"]
  /\ kind = [w \in Crawlers |-> "fetch"]
  /\ path = [w \in Crawlers |-> AnyPath]
  /\ asked = [w \in Crawlers |-> 0]
  /\ cache = [w \in Crawlers |-> NoCopy]

Stage(w, s) ==
  /\ stage' = [stage EXCEPT ![w] = s]
  /\ UNCHANGED <<kind, path, asked>>

\* The call of w returns or raises, and its process has no more use for its data.
Finish(w) ==
  /\ stage' = [stage EXCEPT ![w] = "idle"]
  /\ kind' = [kind EXCEPT ![w] = "fetch"]
  /\ path' = [path EXCEPT ![w] = AnyPath]
  /\ asked' = [asked EXCEPT ![w] = 0]

-----------------------------------------------------------------------------
(* The robots check *)

\* A call for a path of the domain.  A URL of a blocked domain is turned away here.
Begin(w) ==
  /\ stage[w] = "idle"
  /\ stage' = [stage EXCEPT ![w] = "check"]
  /\ \E k \in Kinds \ {"render"} : kind' = [kind EXCEPT ![w] = k]
  /\ \E p \in Paths : path' = [path EXCEPT ![w] = p]
  /\ UNCHANGED <<vars, asked, cache>>

\* Copies expire by the second: one that is RobotsTTL windows old may still be fresh.
HasCopy(w) == cache[w].at >= 0

Fresh_Longer(w) == HasCopy(w) /\ window - cache[w].at <= RobotsTTL + 1

Fresh(w) == HasCopy(w) /\ window - cache[w].at <= RobotsTTL

Stale(w) == HasCopy(w) => window - cache[w].at >= RobotsTTL

UseCopy(w) ==
  /\ stage[w] = "check"
  /\ Fresh(w)
  /\ Stage(w, "verdict")
  /\ UNCHANGED <<vars, cache>>

\* robots.txt is read through the throttle of the domain, without the robots check.

ReadRobots(w) ==
  /\ stage[w] = "check"
  /\ Stale(w)
  /\ stage' = [stage EXCEPT ![w] = "reading"]
  /\ asked' = [asked EXCEPT ![w] = window]
  /\ Call(w)
  /\ UNCHANGED <<kind, path, cache>>

\* The site answers; its answer is dated from before the wait for the slot.  An error
\* or a status other than 200 counts as an empty body, and is kept as long.

RobotsAnswer(w) ==
  /\ stage[w] = "reading"
  /\ pc[w] = "slot"
  /\ \E body \in Bodies \cup {Unreadable} :
       cache' = [cache EXCEPT ![w] = [body |-> body, at |-> asked[w], answered |-> window]]
  /\ Leave(w)
  /\ stage' = [stage EXCEPT ![w] = "verdict"]
  /\ asked' = [asked EXCEPT ![w] = 0]
  /\ UNCHANGED <<kind, path>>

\* No slot: acquire_slot raises through fetch_robots_raw and the caller's check, in
\* head_ok too, whose try block begins behind the check.
RobotsFails(w) ==
  /\ stage[w] = "reading"
  /\ pc[w] \in Outcomes \ {"slot"}
  /\ Leave(w)
  /\ Finish(w)
  /\ UNCHANGED cache

Refuse(w) ==
  /\ stage[w] = "verdict"
  /\ ~IsAllowed(Text(cache[w].body), path[w])
  /\ Finish(w)
  /\ UNCHANGED <<vars, cache>>

Admit(w) ==
  /\ stage[w] = "verdict"
  /\ IsAllowed(Text(cache[w].body), path[w])
  /\ Call(w)
  /\ Stage(w, "slot")
  /\ UNCHANGED cache

-----------------------------------------------------------------------------
(* The request *)

\* The request fails, is answered with an error or too large a body, or its redirects
\* end on a blocked domain; or the answer is what the caller wanted.  An escalation
\* that has its page over HTTP fetches it again with the browser, from the robots
\* check on, whatever it looks like.
Escalates(w) == kind[w] = "escalate" /\ AllowDynamic

Get(w) ==
  /\ stage[w] = "slot"
  /\ pc[w] = "slot"
  /\ Leave(w)
  /\ Finish(w)
  /\ UNCHANGED cache

GetAgain(w) ==
  /\ stage[w] = "slot"
  /\ pc[w] = "slot"
  /\ Escalates(w)
  /\ Leave(w)
  /\ stage' = [stage EXCEPT ![w] = "check"]
  /\ kind' = [kind EXCEPT ![w] = "render"]
  /\ UNCHANGED <<path, asked, cache>>

\* No slot for the request: an error of fetch, False from head_ok, and for the
\* browser's fetch the page that came over HTTP.
NoSlot(w) ==
  /\ stage[w] = "slot"
  /\ pc[w] \in Outcomes \ {"slot"}
  /\ Leave(w)
  /\ Finish(w)
  /\ UNCHANGED cache

\* The process is killed, and its copy of robots.txt goes with it.
Kill(w) ==
  /\ stage[w] # "idle"
  /\ IF pc[w] = "out" THEN UNCHANGED vars ELSE Leave(w)
  /\ Finish(w)
  /\ cache' = [cache EXCEPT ![w] = NoCopy]

-----------------------------------------------------------------------------
InSlot(w) ==
  /\ \/ ReadClock(w)
     \/ AddCounter(w)
     \/ Grant(w)
     \/ Exceed(w)
     \/ Missing(w)
     \/ GiveBack(w)
     \/ Poll(w)
     \/ BackendFails(w)
  /\ UNCHANGED <<callVars, cache>>

FetchStep(w) ==
  \/ Begin(w)
  \/ UseCopy(w)
  \/ ReadRobots(w)
  \/ RobotsAnswer(w)
  \/ RobotsFails(w)
  \/ Refuse(w)
  \/ Admit(w)
  \/ Get(w)
  \/ GetAgain(w)
  \/ NoSlot(w)
  \/ Kill(w)

\* A worker that is not followed enters and leaves acquire_slot.
Other(w) ==
  /\ Call(w) \/ Leave(w)
  /\ UNCHANGED <<callVars, cache>>

FetchNext ==
  \/ \E w \in Workers : InSlot(w)
  \/ \E w \in Crawlers : FetchStep(w)
  \/ \E w \in Workers \ Crawlers : Other(w)
  \/ Tick /\ UNCHANGED <<callVars, cache>>
  \/ (\E k \in Windows : Expire(k)) /\ UNCHANGED <<callVars, cache>>

FetchSpec == FetchInit /\ [][FetchNext]_fetchVars
-----------------------------------------------------------------------------
(* Properties *)

\* Type invariant: no copy is dated after the answer it holds, and a worker waits for
\* a slot only where the layer asks for one.
FetchTypeOK ==
  /\ stage \in [Crawlers -> {"idle", "check", "reading", "verdict", "slot"}]
  /\ kind \in [Crawlers -> Kinds]
  /\ path \in [Crawlers -> Paths]
  /\ asked \in [Crawlers -> Windows]
  /\ \A w \in Crawlers :
       /\ cache[w].body \in Bodies \cup {Unreadable}
       /\ -1 <= cache[w].at /\ cache[w].at <= cache[w].answered /\ cache[w].answered <= window
  /\ \A w \in Crawlers : pc[w] # "out" <=> stage[w] \in {"reading", "slot"}

\* The parser reads every robots.txt of a form it is meant for as its rules say
\* ("no rules -> allow; more-specific rule wins", robots.py), for every path: all it
\* misreads are of the forms Plain excludes.  It is about the parser alone, and the
\* initial state is where to evaluate it once.
Agreement == FetchInit => \A body \in Misread(SampleBodies, SamplePaths) : ~Plain(body)

\* A worker goes on to the slot of its page only if the robots.txt of its process
\* admits the path by its own words, or was not to be read, or has a form the parser
\* misreads; and it judges by a copy only while it is no older than the copies last,
\* counted from the site's answer: however often a copy is used, however long the
\* workers wait for slots, and in the second fetch of an escalation too.
RobotsHonoured ==
  [][\A w \in Crawlers :
       /\ stage[w] = "check" /\ stage'[w] = "verdict" => window - cache'[w].answered <= RobotsTTL
       /\ stage[w] = "verdict" /\ stage'[w] = "slot" =>
            \/ cache[w].body = Unreadable
            \/ ~Plain(cache[w].body)
            \/ Admits(cache[w].body, path[w])]_fetchVars

=============================================================================
