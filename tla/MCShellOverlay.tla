--------------------------- MODULE MCShellOverlay ---------------------------
(* Instance of ShellOverlay for TLC: two commands without hooks, the first *)
(* with all that a process can leave behind, or one command between two    *)
(* tool_call hooks and a tool_result hook.                                 *)
EXTENDS ShellOverlay

MCCommands == 1..2
NoHooks == [call |-> <<>>, result |-> <<>>]
SomeHooks == [call |-> <<TRUE, FALSE>>, result |-> <<TRUE>>]
MCHooks == {NoHooks, SomeHooks}
MCMayType == [h \in MCHooks |-> IF h = NoHooks THEN {1, 2} ELSE {1}]
MCKinds == <<{"none", "piped", "away"}, {"none"}>>
MCMaxChunks == <<1, 0>>

=============================================================================
