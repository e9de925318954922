------------------------------ MODULE ToolGate ------------------------------
(***************************************************************************)
(* A tool call from the model's answer to the tool that runs it: the       *)
(* approval gate (src/internal/core/approval.go), the composite executor   *)
(* that finds the tool (composite_tools.go), the MCP executor and the      *)
(* multi-client behind it (src/internal/mcp), and the subagent loop that   *)
(* runs tools of its own (src/internal/core/subagents).                    *)
(*                                                                         *)
(* The turn decides and runs its calls one after the other.  Meanwhile the *)
(* user changes the mode and lists the tools, and servers come, go and     *)
(* change what they offer.  Nothing is remembered between the decision and *)
(* the call but the name: each looks the tool up again.                    *)
(***************************************************************************)
EXTENDS ApprovalGate, ToolRouting

CONSTANTS
    Calls,      \* the calls the model may ask for: name, path, parses
    ConfigRules,\* the permission rules of the configuration
    Offers,     \* server -> the lists of tools it may have
    MaxCalls,   \* bound: calls of the turn
    MaxChanges, \* bound: changes of a server
    MaxListings,\* bound: listings the user asks for
    MaxSwitches,\* bound: changes of the mode
    SubCalls,   \* the tools a subagent's model may ask for
    MaxRounds,  \* rounds a subagent may use
    MaxDepth    \* bound: subagents inside subagents

Listers == {"turn", "user"}
\* A call without a name: the turn has none.
NoCall == [name |-> <<>>, path |-> "none", parses |-> TRUE]

Keys == {Servers[i] : i \in DOMAIN Servers}

BuiltIns == LowRisk \cup NeverAutoApprove \cup {<<"dispatch_subagent">>}
BuiltInReadOnly == LowRisk
IsBuiltIn(name) == name \in BuiltIns

\* A call has a name; the rules and a server's list of tools are what the
\* configuration and the client make of them.
ASSUME GateAssumption ==
    /\ Servers \in Seq(STRING)
    /\ NoCall \notin Calls /\ \A c \in Calls : c.name \in Seq(STRING)
    /\ ConfigRules \in Seq(Rule)
    /\ \A s \in Keys : \A o \in Offers[s] \ {Failed} :
         o \in Seq([name : Seq(STRING), readOnly : BOOLEAN])

VARIABLES
    mode,     \* the gate's mode
    rules,    \* the gate's rules, the session's among them
    wants,    \* the mode the user is changing to, "none" outside SetMode
    srv,      \* server -> the tools it has now, Failed while it is down
    routes,   \* MultiClient.routes and origins: the tools of a listing
    cached,   \* ToolExecutor.cachedDefs: the tools the turn listed last
    asked,    \* lister -> its listing so far: the tools, and the answers
    listing,  \* listers whose listing runs
    pc,       \* where the turn is with its call
    call,     \* the call
    how,      \* how it was approved, "none" before that
    sub,      \* the subagents that run, innermost last: their rounds
    always,   \* history: tools the user approved for the session
    ran,      \* history: what the call ran last
    answered, \* history: the answers the routes were built from
    stale,    \* history: a server may have changed since the decision
    used      \* counters for the bounds

gate == <<mode, rules, wants>>
net == <<srv, routes, cached, asked, listing>>
turn == <<pc, call, how, sub>>
history == <<always, ran, answered, stale>>
vars == <<gate, net, turn, history, used>>

NotAsked == [tools |-> {}, answers |-> <<>>]
Named(tools, name) == {t \in tools : t.name = name}

Nothing == [server |-> "none", tool |-> <<>>, name |-> <<>>, how |-> "none"]
Count(c, n) == used' = [used EXCEPT ![c] = @ + n]
Left(c, max) == used[c] < max

Init ==
    /\ mode \in {"auto", "yolo"} /\ rules = ConfigRules /\ wants = "none"
    /\ srv \in [Keys -> UNION {Offers[s] : s \in Keys}]
    /\ \A s \in Keys : srv[s] \in Offers[s]
    /\ routes = {} /\ cached = {} /\ answered = <<>>
    /\ asked = [l \in Listers |-> NotAsked] /\ listing = {}
    /\ pc = "idle" /\ call = NoCall /\ how = "none" /\ sub = <<>>
    /\ always = {} /\ ran = Nothing /\ stale = FALSE
    /\ used = [calls |-> 0, changes |-> 0, lists |-> 0, modes |-> 0]
-----------------------------------------------------------------------------
(* Listing the servers' tools. *)
Lists(l) ==
    listing' = listing \cup {l} /\ asked' = [asked EXCEPT ![l] = NotAsked]

\* ListTools asks one server after the other; each answers within its
\* timeout or is left out.
Ask(l) ==
    LET answers == asked[l].answers
        s == Servers[Len(answers) + 1]
    IN  /\ l \in listing /\ Len(answers) < Len(Servers)
        /\ \E tools \in AddServer(asked[l].tools, s, srv[s]) :
             asked' = [asked EXCEPT
                         ![l] = [tools |-> tools,
                                 answers |-> Append(answers, srv[s])]]
        /\ UNCHANGED <<gate, srv, routes, cached, listing, turn, history,
                       used>>

\* The routes are replaced at once.  Of a failed listing the executor keeps
\* the definitions it had; the routes of MultiClient are gone all the same.
Publish(l) ==
    LET tools == asked[l].tools
        answers == asked[l].answers
    IN  /\ l \in listing /\ Len(answers) = Len(Servers)
        /\ routes' = tools /\ answered' = answers
        /\ cached' = IF l = "turn" /\ ~ListFails(tools, answers)
                     THEN tools ELSE cached
        /\ listing' = listing \ {l}
        /\ asked' = [asked EXCEPT ![l] = NotAsked]
        /\ UNCHANGED <<gate, srv, turn, always, ran, stale, used>>

\* The tools command of the interface calls the multi-client directly.
UserLists ==
    /\ "user" \notin listing /\ Left("lists", MaxListings)
    /\ Lists("user") /\ Count("lists", 1)
    /\ UNCHANGED <<gate, srv, routes, cached, turn, history>>

Down(s) ==
    /\ srv[s] # Failed /\ srv' = [srv EXCEPT ![s] = Failed]

Change(s) ==
    \E o \in Offers[s] : srv[s] # o /\ srv' = [srv EXCEPT ![s] = o]

ServerChanges(s) ==
    /\ Left("changes", MaxChanges) /\ Count("changes", 1)
    /\ Down(s) \/ Change(s)
    /\ stale' = TRUE
    /\ UNCHANGED <<gate, routes, cached, asked, listing, turn, always, ran,
                   answered>>
-----------------------------------------------------------------------------
(* The user's side of the gate. *)
\* Mutant: a decision gives the lock back before it looks the tool up.
NotLocked == FALSE

\* The lock a decision holds while it looks the tool up.
Locked == pc \in {"find", "check"}

\* SetMode: the interface waits for the gate's lock.
UserSwitches(m) ==
    /\ wants = "none" /\ m # mode /\ Left("modes", MaxSwitches)
    /\ wants' = m /\ Count("modes", 1)
    /\ UNCHANGED <<mode, rules, net, turn, history>>

SetMode ==
    /\ wants # "none" /\ ~Locked
    /\ mode' = wants /\ wants' = "none"
    /\ UNCHANGED <<rules, net, turn, history, used>>
-----------------------------------------------------------------------------
(* Deciding. *)
Approve(h) == how' = h /\ pc' = "run" /\ UNCHANGED <<call, sub>>
Over == how' = "none" /\ pc' = "idle" /\ call' = NoCall /\ UNCHANGED sub
To(next) == pc' = next /\ UNCHANGED <<call, how, sub>>

\* ShouldAutoApprove takes the lock; a writer that waits goes first.
Decide(c) ==
    LET verdict == ShouldAutoApprove(mode, rules, c)
        next == [yes |-> "run", no |-> "idle", ask |-> "ask",
                 check |-> "find"]
    IN  /\ pc = "idle" /\ wants = "none" /\ Left("calls", MaxCalls)
        /\ Count("calls", 1)
        /\ call' = (IF verdict = "no" THEN NoCall ELSE c)
        /\ how' = IF verdict # "yes" THEN "none"
                  ELSE IF mode = "yolo" THEN "yolo" ELSE "rule"
        /\ pc' = next[verdict]
        /\ stale' = (listing # {}) /\ ran' = Nothing
        /\ UNCHANGED <<gate, net, sub, always, answered>>

\* findExecutor: the built-in tools first, then the servers' tools.
Find(then) ==
    /\ IF IsBuiltIn(call.name) THEN UNCHANGED <<asked, listing>>
       ELSE Lists("turn")
    /\ To(then)
    /\ UNCHANGED <<gate, srv, routes, cached, history, used>>

FindToDecide == pc = "find" /\ Find("check")

Listed == "turn" \notin listing
Unprefixed(name) == Tail(name)
Found == /\ Head(call.name) = "mcp"
         /\ Named(cached, Unprefixed(call.name)) # {}

Hint(name) == \E t \in Named(cached, name) : t.readOnly

IsReadOnly ==
    IF IsBuiltIn(call.name) THEN call.name \in BuiltInReadOnly
    ELSE Found /\ Hint(Unprefixed(call.name))

CheckReadOnly ==
    /\ pc = "check" /\ Listed
    /\ IF IsReadOnly THEN Approve("readonly") ELSE To("ask")
    /\ UNCHANGED <<gate, net, history, used>>

\* "Always" is not offered for a tool that is never approved that way.
UserAnswers(d) ==
    /\ pc = "ask" /\ wants = "none"
    /\ IF d = "no" THEN Over ELSE Approve("user")
    /\ IF d = "always" /\ call.name \notin NeverAutoApprove
       THEN /\ rules' = AddAutoApprove(rules, call.name)
            /\ always' = always \cup {call.name}
       ELSE UNCHANGED <<rules, always>>
    /\ UNCHANGED <<mode, wants, net, ran, answered, stale, used>>
-----------------------------------------------------------------------------
(* Running. *)
RunBuiltIn ==
    /\ pc = "run" /\ IsBuiltIn(call.name)
    /\ call.name # <<"dispatch_subagent">>
    /\ ran' = [server |-> "builtin", tool |-> call.name,
               name |-> call.name, how |-> how]
    /\ Over
    /\ UNCHANGED <<gate, net, always, answered, stale, used>>

FindToRun == pc = "run" /\ ~IsBuiltIn(call.name) /\ Find("route")

UnknownTool ==
    /\ pc = "route" /\ Listed /\ ~Found /\ Over
    /\ UNCHANGED <<gate, net, history, used>>

\* Mutant: the server is asked for the name the model uses.
AskForName(t, how_) == [server |-> t.server, tool |-> t.name,
                        name |-> call.name, how |-> how_]

AskFor(t, how_) == [server |-> t.server, tool |-> t.tool,
                    name |-> call.name, how |-> how_]

\* CallTool: whatever the routes say now.
CallTool ==
    /\ pc = "route" /\ Listed /\ Found /\ Over
    /\ LET up == {t \in Named(routes, Unprefixed(call.name)) :
                    srv[t.server] # Failed}
       IN  \/ up = {} /\ UNCHANGED ran
          \/ \E t \in up : ran' = AskFor(t, how)
    /\ UNCHANGED <<gate, net, always, answered, stale, used>>
-----------------------------------------------------------------------------
(* A subagent: a loop of its own over the model and the built-in tools.    *)
(* It is one call of the turn; what it runs does not pass the gate.        *)
NewLoop == [round |-> 0, todo |-> <<>>, expired |-> FALSE]
Depth == Len(sub)
Inner == sub[Depth]
SetInner(f) == sub' = [sub EXCEPT ![Depth] = f]
NextTodo(f) == [f EXCEPT !.todo = Tail(@)]

SubIdle == UNCHANGED <<gate, net, history, used>>

DispatchSubagent ==
    /\ pc = "run" /\ call.name = <<"dispatch_subagent">>
    /\ pc' = "sub" /\ sub' = <<NewLoop>> /\ UNCHANGED <<call, how>> /\ SubIdle

\* The loop is over: the result goes to the turn or to the loop around it.
SubReturns ==
    IF Depth = 1
    THEN pc' = "idle" /\ call' = NoCall /\ how' = "none" /\ sub' = <<>>
    ELSE /\ sub' = [i \in 1..(Depth - 1) |->
                      IF i = Depth - 1 THEN NextTodo(sub[i]) ELSE sub[i]]
         /\ UNCHANGED <<pc, call, how>>

MayChat(f) == ~f.expired /\ f.round < MaxRounds

\* The model asks for a tool, answers, or fails.
SubChat ==
    /\ pc = "sub" /\ Inner.todo = <<>>
    /\ \/ /\ MayChat(Inner)
          /\ \E n \in SubCalls :
               /\ Depth = MaxDepth => n # <<"dispatch_subagent">>
               /\ SetInner([Inner EXCEPT !.round = @ + 1, !.todo = <<n>>])
          /\ UNCHANGED <<pc, call, how>>
       \/ SubReturns
    /\ SubIdle

\* Any built-in tool the model names is run, the ones it was not offered
\* and dispatch_subagent too.
SubRun ==
    /\ pc = "sub" /\ Inner.todo # <<>>
    /\ IF Head(Inner.todo) = <<"dispatch_subagent">>
       THEN sub' = Append(sub, NewLoop)
       ELSE SetInner(NextTodo(Inner))
    /\ UNCHANGED <<pc, call, how>> /\ SubIdle

\* A loop's deadline bounds the loops inside it.
SubExpires(d) ==
    /\ pc = "sub" /\ d \in 1..Depth /\ ~sub[d].expired
    /\ sub' = [i \in 1..Depth |->
                 [sub[i] EXCEPT !.expired = @ \/ i >= d]]
    /\ UNCHANGED <<pc, call, how>> /\ SubIdle
-----------------------------------------------------------------------------
TurnStep ==
    \/ FindToDecide \/ CheckReadOnly \/ RunBuiltIn \/ FindToRun
    \/ UnknownTool \/ CallTool \/ DispatchSubagent \/ SubChat \/ SubRun

Next ==
    \/ \E c \in Calls : Decide(c)
    \/ TurnStep
    \/ \E d \in 1..MaxDepth : SubExpires(d)
    \/ \E l \in Listers : Ask(l) \/ Publish(l)
    \/ UserLists
    \/ \E s \in Keys : ServerChanges(s)
    \/ \E m \in Modes : UserSwitches(m)
    \/ SetMode
    \/ \E d \in {"no", "yes", "always"} : UserAnswers(d)

Spec == Init /\ [][Next]_vars
-----------------------------------------------------------------------------
(* Properties. *)

Names == Seq(STRING)
Answers == {Failed} \cup UNION {Offers[s] : s \in Keys}
Tools == [name : Names, server : Keys, tool : Names, readOnly : BOOLEAN]
Hows == {"none", "yolo", "rule", "readonly", "user"}
Loops == [round : Nat, todo : Seq(SubCalls), expired : BOOLEAN]
\* A loop with another one inside it waits for the result of its call.
Waiting(loops) == \A i \in 1..(Len(loops) - 1) : loops[i].todo # <<>>

TypeOK ==
    /\ mode \in Modes /\ wants \in Modes \cup {"none"}
    /\ \A i \in DOMAIN rules : rules[i] \in Rule
    /\ srv \in [Keys -> Answers]
    /\ routes \in SUBSET Tools /\ cached \in SUBSET Tools
    /\ asked \in [Listers -> [tools : SUBSET Tools, answers : Seq(Answers)]]
    /\ listing \subseteq Listers
    /\ pc \in {"idle", "ask", "find", "check", "run", "route", "sub"}
    /\ call \in Calls \cup {NoCall} /\ (pc = "idle" <=> call = NoCall)
    /\ how \in Hows
    /\ sub \in Seq(Loops) /\ Waiting(sub) /\ (pc = "sub" <=> sub # <<>>)
    /\ answered \in Seq(Answers) /\ stale \in BOOLEAN
    /\ ran.server \in Keys \cup {"builtin", "none"} /\ ran.how \in Hows
    /\ used \in [calls : Nat, changes : Nat, lists : Nat, modes : Nat]

\* A call is approved without asking only under a mode that allows it at
\* that moment, however long the look-up of the tool took: a change to the
\* manual mode that has returned holds for every later approval.
ApprovedUnderMode ==
    [][how = "none" /\ how' \in {"rule", "readonly", "yolo"} =>
         mode = (IF how' = "yolo" THEN "yolo" ELSE "auto")]_vars

\* A tool the user approved for the session is not asked about again, nor
\* denied, in the automatic mode; only a rule for several tools, or one for
\* the turn, can still stand against it.
AlwaysHeld ==
    [][pc = "idle" /\ used'.calls > used.calls =>
         \A c \in Calls :
           c.name \in always /\ mode = "auto"
             /\ ShouldAutoApprove(mode, rules, c) # "yes" =>
               \E i \in Matching(rules, c.name) :
                 rules[i].scope = "turn"
                 \/ (rules[i].scope = "session" /\ rules[i].tool.star)]_vars

\* Every tool that every answering server may offer has a name of its own:
\* none hides behind a tool of another server with the same name.
NoToolHidden ==
    \A i \in DOMAIN answered : answered[i] # Failed =>
      \A u \in ToSet(answered[i]) : ToolAllowed(Servers[i], u) =>
        \E t \in routes : /\ t.server = Servers[i] /\ t.tool = u.name
                          /\ Named(routes, t.name) = {t}

\* A call approved because its tool is read-only reaches a tool that its
\* server says is read-only, unless a server changed since the decision.
ReadOnlyHeld ==
    ran.how = "readonly" /\ ran.server # "builtin" /\ ~stale =>
      [name |-> ran.tool, readOnly |-> TRUE] \in ToSet(srv[ran.server])

=============================================================================
