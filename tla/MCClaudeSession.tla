---------------------------- MODULE MCClaudeSession ----------------------------
(***************************************************************************)
(* Each call starts at most one session, and so does each interrupt of a   *)
(* request: twice as many queries as requests are enough.                  *)
(***************************************************************************)
EXTENDS ClaudeRefinement

Combinations == {{"settings", "files"}, {"idle", "fail"},
                 {"yield", "dispose", "fail"}, {"fail"}}
FilesOnly == {{"files"}}
===============================================================================
