---------------------------- MODULE MCAgentPack -----------------------------
(* Three names under .agents/skills; skills of up to two bytes, or of three,  *)
(* which is too many; and three versions of AGENTS.md: the usual one, one with *)
(* the sections swapped and another in between, one whose stance is empty.     *)
EXTENDS AgentPack

MCDocs == {<<"title", "text", "stance", "text", "text", "rules", "bullets">>,
           <<"title", "rules", "bullets", "other", "bullets", "stance", "text">>,
           <<"title", "stance", "rules", "bullets">>}
MCCategories == 1..3
=============================================================================
