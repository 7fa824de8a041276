-------------------------- MODULE MCDetectionPipeline --------------------------
(* DetectionPipeline for a company with a board and three pages. *)
EXTENDS DetectionPipeline, TLC

CONSTANTS board, careers, sub, deep

MCUrlOrder == <<careers, sub, board, deep>>
MCTraits ==
  [u \in {board, careers, sub, deep} |->
     CASE u = board -> {"ats_host", "org_named"}
       [] u = careers -> {"career_path_keyword"}
       [] u = sub -> {"career_subdomain"}
       [] u = deep -> {"career_path_keyword", "deep_path"}]
MCGuesses == <<board>>
MCPaths == <<careers>>
MCSubdomains == <<sub>>

MCSites ==
  {[home |-> home, anchors |-> anchors, header |-> header, footer |-> footer,
    ruled |-> ruled, sitemaps |-> sitemaps, listed |-> {careers, deep},
    answer |-> (board :> b @@ careers :> c @@ sub :> s @@ deep :> "ok"),
    shows |-> (board :> shown @@ careers :> {"title_keyword", "handle"} @@ sub :> shown @@ deep :> {"json_ld_jobposting", "single_posting"})] :
   home \in {"ok", "other", "down"}, anchors \in SUBSET {board},
   header \in SUBSET {careers, deep}, footer \in SUBSET {careers}, ruled \in SUBSET {careers},
   sitemaps \in {<<"gone", "gone", "leaf">>, <<"index", "leaf">>},
   b \in {"ok", "tagged", "down"}, c \in Answers, s \in {"ok", "tagged", "foreign"},
   shown \in {{}, {"handle", "json_ld_jobposting"}}}
=============================================================================
