----------------------------- MODULE MCPoliteFetch -----------------------------
(* PoliteFetch on small instances. *)
EXTENDS PoliteFetch

Home == <<"/">>
Jobs == <<"/", "jobs">>

AllPieces == {"*", "study", "tracker", "bot", "/1.0", "other", "/", "jobs", "/1", "map", "2"}

AllPaths == {Home, Jobs, <<"/", "jobs", "/1">>}
AskedPaths == {Jobs}

Line(k, v) == [key |-> k, value |-> v]

\* Everybody is kept from /jobs, but this program is not.
Named == <<Line("user-agent", Star), Line("disallow", Jobs),
           Line("user-agent", <<"study", "tracker">>), Line("disallow", <<>>)>>

\* Everybody is kept from everything but the home page.
Closed == <<Line("user-agent", Star), Line("disallow", Home), Line("crawl-delay", <<"2">>)>>

ServedBodies == {Named, Closed}

\* Every robots.txt of up to four lines of these.
SomeLines ==
  [key : {"allow", "disallow"}, value : {<<>>, Home, Jobs}]
    \cup [key : {"user-agent"}, value : {<<>>, Star, <<"study", "tracker">>, <<"other">>}]
    \cup [key : {"sitemap"}, value : {<<>>, <<"map">>}]

ShortBodies == UNION {[1..n -> SomeLines] : n \in 0..4}
=============================================================================
