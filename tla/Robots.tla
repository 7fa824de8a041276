--------------------------------- MODULE Robots ---------------------------------
(***************************************************************************)
(* src/apps/scraping/robots.py: the lines of a robots.txt parsed into      *)
(* blocks, the block selected for an agent, and the verdict of a block on  *)
(* a path; and, to compare them with, what the lines say by the rules the  *)
(* comments of the file appeal to (groups of agents, longest match).       *)
(*                                                                         *)
(* A line is a key and a value.  Names of agents, in lower case, and paths *)
(* are sequences of pieces, so that a prefix of a string is a prefix of a  *)
(* sequence, and the longer of two prefixes of a string is the longer      *)
(* sequence.  A loop of the code is a function on the number of elements   *)
(* it has been through, which ThrottleProofs reasons about by induction on *)
(* that number.  The size limit of a body, crawl delays, session probes and   *)
(* sitemaps are left out: no verdict depends on them.                      *)
(***************************************************************************)
EXTENDS Integers, Sequences, SequencesExt, FiniteSetsExt

CONSTANT Pieces  \* what the names of agents and the paths are made of

ASSUME RobotsAssumption == {"*", "study", "tracker", "bot", "/1.0"} \subseteq Pieces

Words == Seq(Pieces)

\* The lines that have a colon.
Lines == [key : STRING, value : Words]

Star == <<"*">>

\* USER_AGENT_KEY
Bot == <<"study", "tracker", "bot", "/1.0">>

Block(agents) == [agents |-> agents, allow |-> <<>>, disallow |-> <<>>]

-----------------------------------------------------------------------------
(* Parsing *)

\* _apply_rule: a blank Disallow is no rule, a blank Allow is one.
ApplyRule(b, line) ==
  CASE line.key = "allow" -> [b EXCEPT !.allow = Append(@, line.value)]
    [] line.key = "disallow" /\ line.value # <<>> ->
         [b EXCEPT !.disallow = Append(@, line.value)]
    [] OTHER -> b

\* A line of an agent opens a block: once there is one, current_has_ua_line stays
\* True, and so no block ever has a second agent.
NameAgent(blocks, line) == Append(blocks, Block(<<line.value>>))

\* Rules before any agent apply to "*".
AddRule(blocks, line) ==
  IF blocks = <<>> THEN <<ApplyRule(Block(<<Star>>), line)>>
  ELSE [blocks EXCEPT ![Len(blocks)] = ApplyRule(@, line)]

ParseLine(blocks, line) ==
  CASE line.key = "user-agent" /\ line.value # <<>> -> NameAgent(blocks, line)
    [] line.key = "sitemap" /\ line.value # <<>> -> blocks
    [] OTHER -> AddRule(blocks, line)

\* _parse_body
Parse(body) ==
  LET blocks[n \in 0..Len(body)] ==  \* of the first n lines
        IF n = 0 THEN <<>> ELSE ParseLine(blocks[n - 1], body[n])
  IN blocks[Len(body)]

-----------------------------------------------------------------------------
(* Selecting a block, and its verdict *)

Longer(best, x) == best = <<>> \/ Len(x) > Len(best)

\* RulesBlock.matches: the longest entry that is "*" or begins the name, or <<>>.
Match(block, agent) ==
  LET Fits(entry) == entry = Star \/ IsPrefix(entry, agent)
      best[n \in 0..Len(block.agents)] ==  \* of the first n entries
        CASE n = 0 -> <<>>
          [] n > 0 /\ Fits(block.agents[n]) /\ Longer(best[n - 1], block.agents[n]) -> block.agents[n]
          [] OTHER -> best[n - 1]
  IN best[Len(block.agents)]

\* RobotRules.select_for: the first block with the longest match, else the last
\* block for "*", else the first block, whoever that is for.
Select(blocks, agent) ==
  LET m(i) == Match(blocks[i], agent)
      named == {i \in DOMAIN blocks : m(i) \notin {<<>>, Star}}
      longest == {i \in named : \A j \in named : Len(m(j)) <= Len(m(i))}
      stars == {i \in DOMAIN blocks : m(i) = Star}
  IN CASE named # {} -> blocks[Min(longest)]
       [] named = {} /\ stars # {} -> blocks[Max(stars)]
       [] named = {} /\ stars = {} /\ blocks # <<>> -> blocks[1]
       [] OTHER -> Block(<<>>)

\* _most_specific: the last of the rules that begins the path, or <<>>.
MostSpecific(path, rules) ==
  LET best[n \in 0..Len(rules)] ==  \* of the first n rules
        CASE n = 0 -> <<>>
          [] n > 0 /\ IsPrefix(rules[n], path) -> rules[n]
          [] OTHER -> best[n - 1]
  IN best[Len(rules)]

\* RulesBlock.allowed
BlockAllows_AllowFirst(block, path) ==
  MostSpecific(path, block.allow) # <<>> \/ MostSpecific(path, block.disallow) = <<>>

BlockAllows(block, path) ==
  LET disallow == MostSpecific(path, block.disallow)
      allow == MostSpecific(path, block.allow)
  IN disallow = <<>> \/ Len(allow) > Len(disallow)

\* is_allowed, for the agent of this program
IsAllowed(body, path) == BlockAllows(Select(Parse(body), Bot), path)

-----------------------------------------------------------------------------
(* What the lines of a body say *)

AgentLines(body) == {i \in DOMAIN body : body[i].key = "user-agent" /\ body[i].value # <<>>}

RuleLines(body) == {i \in DOMAIN body : body[i].key \in {"allow", "disallow"} /\ body[i].value # <<>>}

\* Rule i belongs to agent line a: after a, and with no agent line in between but
\* those of the same group, which no rule separates from a.
Governs(body, a, i) ==
  /\ a < i
  /\ \A j \in AgentLines(body) : a < j /\ j < i =>
       \A r \in RuleLines(body) : ~(a < r /\ r < j)

\* The agent lines that speak to this program: those with the longest name that
\* begins its own, else those for everybody.
Addressed(body) ==
  LET named == {a \in AgentLines(body) : IsPrefix(body[a].value, Bot)}
      longest == {a \in named : \A b \in named : Len(body[b].value) <= Len(body[a].value)}
  IN IF named # {} THEN longest ELSE {a \in AgentLines(body) : body[a].value = Star}

\* The rules of the addressed groups that begin the path, by key.
Applicable(body, path, key) ==
  {body[i].value : i \in {r \in RuleLines(body) :
      /\ body[r].key = key
      /\ IsPrefix(body[r].value, path)
      /\ \E a \in Addressed(body) : Governs(body, a, r)}}

\* "no rules -> allow; more-specific rule wins"
Admits(body, path) ==
  \A d \in Applicable(body, path, "disallow") :
    \E a \in Applicable(body, path, "allow") : Len(a) > Len(d)

\* The forms the parser reads as they are meant: every group has one agent, no
\* agent two groups, nothing precedes the first agent, somebody addresses this
\* program or everybody, no Allow is blank, and the rules of a group come shortest
\* first.
Plain(body) ==
  LET agents == AgentLines(body)
  IN /\ \A i \in DOMAIN body \ agents : body[i].key # "sitemap" =>
          \E a \in agents : a < i
     /\ \A a, b \in agents : a < b =>
          /\ body[a].value # body[b].value
          /\ \E r \in RuleLines(body) : a < r /\ r < b
     /\ agents # {} => Addressed(body) # {}
     /\ \A i \in DOMAIN body : body[i].key = "allow" => body[i].value # <<>>
     /\ \A i, j \in RuleLines(body) : i < j /\ body[i].key = body[j].key =>
          \/ Len(body[i].value) <= Len(body[j].value)
          \/ \E a \in agents : i < a /\ a < j

\* The bodies that keep the program from a path they admit, or the other way round.
Misread(bodies, paths) ==
  {body \in bodies : \E p \in paths : IsAllowed(body, p) # Admits(body, p)}
=============================================================================
