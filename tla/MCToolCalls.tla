---------------------------- MODULE MCToolCalls -----------------------------
(* One file of the workspace and the same name next to the workspace, asked   *)
(* for by a plain path, a detour, two ways out, and an absolute path; files of *)
(* one byte, or of two, which is too many; answers of up to five letters in  *)
(* slices of two.                                                            *)
EXTENDS ToolCalls

Path(absolute, names) == [nul |-> FALSE, absolute |-> absolute, names |-> names]

MCPaths == {Path(FALSE, <<"a">>), Path(FALSE, <<"b", "..", "a">>),
            Path(FALSE, <<"..", "a">>), Path(FALSE, <<"b", "..", "..", "a">>),
            Path(TRUE, <<"a">>)}
MCTexts == {{}, {"not found"}, {"abort"}}
MCReplies == {[i \in 1..len |-> i] : len \in 0..5}
=============================================================================
