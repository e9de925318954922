----------------------------- MODULE MCToolGate -----------------------------
(* Small instances of ToolGate. *)
EXTENDS ToolGate

X == <<"x">>
Tool(n, r) == [name |-> n, readOnly |-> r]

MCServers == <<"a", "b">>
MCEnabled == [s \in {"a", "b"} |-> {}]
MCDisabled == [a |-> {<<"y">>}, b |-> {}]

\* Both servers have an "x", of which only b's is read-only, and b's own
\* "b_x" takes the name its "x" would be given: that one becomes "b_b_x".
MCOffers == [a |-> {<<Tool(X, FALSE), Tool(<<"y">>, TRUE)>>},
             b |-> {<<Tool(<<"b", "x">>, FALSE), Tool(X, TRUE)>>}]

Call(n) == [name |-> n, path |-> "none", parses |-> TRUE]
MCCalls == {Call(<<"shell">>), Call(<<"dispatch_subagent">>),
            Call(<<"mcp", "x">>), Call(<<"mcp", "b", "b", "x">>),
            [name |-> <<"read_file">>, path |-> "outside", parses |-> TRUE]}
MCAutoApprove == {<<"read_file">>, <<"mcp", "x">>, <<"mcp", "b", "b", "x">>}
MCRules == <<[tool |-> Exactly(<<"mcp", "x">>), decision |-> "ask",
              scope |-> "session"],
             [tool |-> Beginning(<<"shell">>), decision |-> "allow",
              scope |-> "user"]>>
MCRiskRules == <<[tool |-> Beginning(<<"read_file">>), paths |-> {"outside"},
                  level |-> "low"]>>
MCSubCalls == {<<"shell">>, <<"dispatch_subagent">>}
=============================================================================
