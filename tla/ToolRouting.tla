---------------------------- MODULE ToolRouting -----------------------------
(***************************************************************************)
(* How MultiClient (src/internal/mcp/multiclient.go) names the tools of    *)
(* several MCP servers and finds the server of a name.  The module has no  *)
(* state.  A server's answer to tools/list is a sequence of tools, or      *)
(* Failed; a route is the server and the server's own name for the tool.   *)
(***************************************************************************)
EXTENDS Integers, Sequences, FiniteSets

CONSTANTS
    Servers,   \* the enabled servers' keys, in sorted order
    Enabled,   \* server -> the tools it may offer, {} for all
    Disabled,  \* server -> the tools it may not offer
    Failed     \* the answer of a server that does not answer

ToolAllowed(s, tool) ==
    /\ Enabled[s] = {} \/ tool.name \in Enabled[s]
    /\ tool.name \notin Disabled[s]

\* The key of the server, put k times in front of a name.
Prefixed(s, name, k) == [i \in 1..k |-> s] \o name

Seen(tools, name) == \E t \in tools : t.tool = name
Taken(tools) == {t.name : t \in tools}

First(tools, name) == IF Seen(tools, name) THEN 1 ELSE 0

\* Mutant: a name that is taken is prefixed once and then used.
FinalNameOnce(tools, s, name, k) == k = First(tools, name)

\* A tool that repeats the name of an earlier one has its server's key put
\* in front, and once more while the name is taken: k times in all.
FinalName(tools, s, name, k) ==
    /\ k >= First(tools, name)
    /\ Prefixed(s, name, k) \notin Taken(tools)
    /\ \A j \in First(tools, name)..(k - 1) :
         Prefixed(s, name, j) \in Taken(tools)

\* A tool under its final name, with its server, the server's own name for
\* it, and its read-only hint.
Route(s, t, k) ==
    [name |-> Prefixed(s, t.name, k), server |-> s, tool |-> t.name,
     readOnly |-> t.readOnly]

\* The tools of an answer that may be offered, by their places in it, and
\* how often the server's key may come in front of one of them.
Offered(s, answer) == {i \in DOMAIN answer : ToolAllowed(s, answer[i])}
Times(tools, answer) == 0..(Cardinality(tools) + Len(answer))

\* The tools there are when the loop has come to the tool at i.
Before(tools, s, answer, ks, i) ==
    tools \cup {Route(s, answer[j], ks[j]) : j \in {h \in DOMAIN ks : h < i}}

\* The names of all of them, each final among those before it.
FinalNames(tools, s, answer) ==
    {ks \in [Offered(s, answer) -> Times(tools, answer)] :
       \A i \in DOMAIN ks :
         FinalName(Before(tools, s, answer, ks, i), s, answer[i].name, ks[i])}

\* What one turn of the loop of ListTools makes of the tools there are: a
\* set of one element.
AddServer(tools, s, answer) ==
    IF answer = Failed THEN {tools}
    ELSE {Before(tools, s, answer, ks, Len(answer) + 1) :
            ks \in FinalNames(tools, s, answer)}

\* The listing fails when no tool was found and a server did not answer.
ListFails(tools, answers) ==
    tools = {} /\ \E i \in DOMAIN answers : answers[i] = Failed
=============================================================================
