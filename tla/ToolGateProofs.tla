--------------------------- MODULE ToolGateProofs ---------------------------
(***************************************************************************)
(* Safety of ToolGate, for every number of servers, tools, calls, rules    *)
(* and subagents, and whatever the servers answer.  First what the         *)
(* operators of ToolRouting and ApprovalGate do, then one invariant for    *)
(* each property.                                                          *)
(***************************************************************************)
EXTENDS ToolGate, TLAPS, WellFoundedInduction, SequenceTheorems

USE GateAssumption
-----------------------------------------------------------------------------
(* Natural numbers. *)

\* A set of natural numbers has a least element.
LEMMA LeastExists ==
  ASSUME NEW T, T \subseteq Nat, T # {}
  PROVE  \E x \in T : \A y \in T : x <= y
<1>1. IsWellFoundedOn(OpToRel(<, Nat), Nat)
  BY NatLessThanWellFounded
<1>2. PICK x \in T : \A y \in T : <<y, x>> \notin OpToRel(<, Nat)
  BY <1>1, WFMin
<1>3. ASSUME NEW y \in T PROVE x <= y
  BY <1>2, ~(y < x) DEF OpToRel
<1> QED
  BY <1>3

\* A set of natural numbers that has a bound has a greatest element.
LEMMA GreatestExists ==
  ASSUME NEW n \in Nat, NEW T, T \subseteq 0..n, T # {}
  PROVE  \E x \in T : \A y \in T : y <= x
<1> DEFINE D == {n - x : x \in T}
<1>1. D \subseteq Nat /\ D # {}
  OBVIOUS
<1>2. PICK d \in D : \A e \in D : d <= e
  <2> HIDE DEF D
  <2> QED BY <1>1, LeastExists
<1>3. PICK x \in T : d = n - x
  OBVIOUS
<1>4. ASSUME NEW y \in T PROVE y <= x
  <2>1. n - y \in D
    OBVIOUS
  <2>2. x \in Nat /\ y \in Nat
    OBVIOUS
  <2>3. n - x <= n - y
    BY <2>1, <1>2, <1>3
  <2> HIDE DEF D
  <2> QED BY <2>2, <2>3
<1> QED
  BY <1>4
-----------------------------------------------------------------------------
(* Final names. *)

\* A name leads to one tool.
Distinct(tools) == \A t, u \in tools : t.name = u.name => t = u

\* A key comes in front of a name a natural number of times.
LEMMA TimesNat ==
  ASSUME NEW tools, NEW answer
  PROVE  Times(tools, answer) \subseteq Nat
<1> DEFINE z == Cardinality(tools) + Len(answer)
<1>1. Times(tools, answer) = 0..z
  BY DEF Times
<1> HIDE DEF z
<1>2. 0..z \subseteq Nat
  OBVIOUS
<1> QED
  BY <1>1, <1>2

\* Among the same tools a tool gets one name.
LEMMA FinalNameOne ==
  ASSUME NEW tools, NEW s, NEW name, NEW k \in Nat, NEW m \in Nat,
         FinalName(tools, s, name, k), FinalName(tools, s, name, m)
  PROVE  k = m
<1> DEFINE f == First(tools, name)
<1>1. f \in {0, 1}
  BY DEF First
<1>2. ASSUME NEW i \in Nat, NEW j \in Nat, i < j,
             FinalName(tools, s, name, i), FinalName(tools, s, name, j)
      PROVE  FALSE
  <2>1. i >= f /\ Prefixed(s, name, i) \notin Taken(tools)
    BY <1>2 DEF FinalName
  <2>2. \A h \in f..(j - 1) : Prefixed(s, name, h) \in Taken(tools)
    BY <1>2 DEF FinalName
  <2> HIDE DEF f
  <2>3. i \in f..(j - 1)
    BY <2>1, <1>1, <1>2
  <2> QED
    BY <2>1, <2>2, <2>3
<1> QED
  BY <1>2, k < m \/ m < k \/ k = m

\* The final names of an answer are determined: the first tool named
\* differently would be named among the same tools.
LEMMA FinalNamesOne ==
  ASSUME NEW tools, NEW s, NEW answer, DOMAIN answer \subseteq Nat,
         NEW ks \in FinalNames(tools, s, answer),
         NEW ls \in FinalNames(tools, s, answer)
  PROVE  ks = ls
<1> DEFINE T == {i \in Offered(s, answer) : ks[i] # ls[i]}
<1>1. /\ ks \in [Offered(s, answer) -> Times(tools, answer)]
      /\ ls \in [Offered(s, answer) -> Times(tools, answer)]
  BY DEF FinalNames
<1>2. CASE T = {}
  BY <1>1, <1>2
<1>3. CASE T # {}
  <2>1. PICK i \in T : \A j \in T : i <= j
    <3>1. T \subseteq Nat
      BY DEF Offered
    <3> HIDE DEF T
    <3> QED BY <3>1, <1>3, LeastExists
  <2>2. i \in Offered(s, answer) /\ i \in Nat /\ ks[i] # ls[i]
    BY DEF Offered
  <2>3. \A j \in Offered(s, answer) : j < i => ks[j] = ls[j]
    <3>1. \A j \in Offered(s, answer) : j \in Nat
      BY DEF Offered
    <3> QED BY <2>1, <2>2, <3>1
  <2>4. DOMAIN ks = Offered(s, answer) /\ DOMAIN ls = Offered(s, answer)
    BY <1>1
  <2>5. Before(tools, s, answer, ks, i) = Before(tools, s, answer, ls, i)
    BY <2>3, <2>4 DEF Before
  <2>6. /\ FinalName(Before(tools, s, answer, ks, i), s, answer[i].name, ks[i])
        /\ FinalName(Before(tools, s, answer, ls, i), s, answer[i].name, ls[i])
    BY <2>2, <2>4 DEF FinalNames
  <2>7. ks[i] \in Nat /\ ls[i] \in Nat
    BY <1>1, <2>2, TimesNat
  <2> QED
    BY <2>2, <2>5, <2>6, <2>7, FinalNameOne
<1> QED
  BY <1>2, <1>3

\* An answer adds its tools in one way.
LEMMA AddServerOne ==
  ASSUME NEW tools, NEW s, NEW answer \in Answers,
         NEW x \in AddServer(tools, s, answer),
         NEW y \in AddServer(tools, s, answer)
  PROVE  x = y
<1>1. CASE answer = Failed
  BY <1>1 DEF AddServer
<1>2. CASE answer # Failed
  <2>1. answer \in Seq([name : Seq(STRING), readOnly : BOOLEAN])
    BY <1>2 DEF Answers
  <2>2. DOMAIN answer \subseteq Nat
    BY <2>1
  <2>3. PICK ks \in FinalNames(tools, s, answer) :
          x = Before(tools, s, answer, ks, Len(answer) + 1)
    BY <1>2 DEF AddServer
  <2>4. PICK ls \in FinalNames(tools, s, answer) :
          y = Before(tools, s, answer, ls, Len(answer) + 1)
    BY <1>2 DEF AddServer
  <2>5. ks = ls
    BY <2>2, FinalNamesOne
  <2> QED
    BY <2>3, <2>4, <2>5
<1> QED
  BY <1>1, <1>2

\* What an answer adds: the tools there were, and one route for each tool that
\* is offered, whose name none of those before it has.
LEMMA AddServerFacts ==
  ASSUME NEW tools, NEW s, NEW answer \in Answers, answer # Failed,
         NEW new \in AddServer(tools, s, answer)
  PROVE  \E ks \in [Offered(s, answer) -> Nat] :
           /\ new = tools \cup {Route(s, answer[j], ks[j]) :
                                  j \in Offered(s, answer)}
           /\ \A i \in Offered(s, answer) :
                Prefixed(s, answer[i].name, ks[i])
                  \notin Taken(Before(tools, s, answer, ks, i))
<1>1. answer \in Seq([name : Seq(STRING), readOnly : BOOLEAN])
  BY DEF Answers
<1>2. PICK ks \in FinalNames(tools, s, answer) :
        new = Before(tools, s, answer, ks, Len(answer) + 1)
  BY DEF AddServer
<1>3. ks \in [Offered(s, answer) -> Nat] /\ DOMAIN ks = Offered(s, answer)
  BY <1>2, TimesNat DEF FinalNames
<1>4. {h \in DOMAIN ks : h < Len(answer) + 1} = Offered(s, answer)
  BY <1>1, <1>3 DEF Offered
<1>5. new = tools \cup {Route(s, answer[j], ks[j]) : j \in Offered(s, answer)}
  BY <1>2, <1>4 DEF Before
<1>6. \A i \in Offered(s, answer) :
        Prefixed(s, answer[i].name, ks[i])
          \notin Taken(Before(tools, s, answer, ks, i))
  BY <1>2, <1>3 DEF FinalNames, FinalName
<1> QED
  BY <1>3, <1>5, <1>6

\* Tools with distinct names stay so.
LEMMA AddServerDistinct ==
  ASSUME NEW tools, NEW s, NEW answer \in Answers, Distinct(tools),
         NEW new \in AddServer(tools, s, answer)
  PROVE  Distinct(new)
<1>1. CASE answer = Failed
  BY <1>1 DEF AddServer
<1>2. CASE answer # Failed
  <2>1. PICK ks \in [Offered(s, answer) -> Nat] :
           /\ new = tools \cup {Route(s, answer[j], ks[j]) :
                                  j \in Offered(s, answer)}
           /\ \A i \in Offered(s, answer) :
                Prefixed(s, answer[i].name, ks[i])
                  \notin Taken(Before(tools, s, answer, ks, i))
    BY <1>2, AddServerFacts
  <2>2. Offered(s, answer) \subseteq Nat
    BY <1>2 DEF Offered, Answers
  <2>3. ASSUME NEW t \in tools, NEW j \in Offered(s, answer)
        PROVE  t.name # Route(s, answer[j], ks[j]).name
    <3>1. t.name \in Taken(Before(tools, s, answer, ks, j))
      BY DEF Taken, Before
    <3> QED BY <3>1, <2>1 DEF Route
  <2>4. ASSUME NEW i \in Offered(s, answer), NEW j \in Offered(s, answer),
               i < j
        PROVE  Route(s, answer[i], ks[i]).name # Route(s, answer[j], ks[j]).name
    <3>1. Route(s, answer[i], ks[i]) \in Before(tools, s, answer, ks, j)
      BY <2>1, <2>4 DEF Before
    <3>2. Route(s, answer[i], ks[i]).name
            \in Taken(Before(tools, s, answer, ks, j))
      BY <3>1 DEF Taken
    <3> QED BY <3>2, <2>1 DEF Route
  <2>5. ASSUME NEW t \in new, NEW u \in new, t.name = u.name
        PROVE  t = u
    <3>1. CASE t \in tools /\ u \in tools
      BY <3>1, <2>5 DEF Distinct
    <3>2. CASE t \notin tools /\ u \notin tools
      <4>1. PICK i \in Offered(s, answer) : t = Route(s, answer[i], ks[i])
        BY <2>1, <3>2
      <4>2. PICK j \in Offered(s, answer) : u = Route(s, answer[j], ks[j])
        BY <2>1, <3>2
      <4>3. i = j
        BY <2>2, <2>4, <2>5, <4>1, <4>2, i < j \/ j < i \/ i = j
      <4> QED BY <4>1, <4>2, <4>3
    <3>3. CASE (t \in tools) # (u \in tools)
      BY <2>1, <2>3, <2>5, <3>3
    <3> QED BY <3>1, <3>2, <3>3
  <2> QED
    BY <2>5 DEF Distinct
<1> QED
  BY <1>1, <1>2

\* All tools of new but the ones of tools are tools of a server's answer.
From(s, answer, new, tools) ==
  \A t \in new \ tools :
    /\ t.server = s /\ answer # Failed
    /\ [name |-> t.tool, readOnly |-> t.readOnly] \in ToSet(answer)

\* The routes an answer adds lead to this server and to tools of the answer.
LEMMA AddServerSound ==
  ASSUME NEW tools, NEW s \in Keys, NEW answer \in Answers,
         tools \in SUBSET Tools, NEW new \in AddServer(tools, s, answer)
  PROVE  /\ new \in SUBSET Tools /\ tools \subseteq new
         /\ From(s, answer, new, tools)
<1>1. CASE answer = Failed
  BY <1>1 DEF AddServer, From
<1>2. CASE answer # Failed
  <2>1. PICK ks \in [Offered(s, answer) -> Nat] :
           new = tools \cup {Route(s, answer[j], ks[j]) :
                               j \in Offered(s, answer)}
    BY <1>2, AddServerFacts
  <2>2. answer \in Seq([name : Seq(STRING), readOnly : BOOLEAN])
    BY <1>2 DEF Answers
  <2>3. s \in STRING
    BY DEF Keys
  <2>4. ASSUME NEW j \in Offered(s, answer)
        PROVE  /\ Route(s, answer[j], ks[j]) \in Tools
               /\ [name |-> Route(s, answer[j], ks[j]).tool,
                   readOnly |-> Route(s, answer[j], ks[j]).readOnly]
                     \in ToSet(answer)
    <3>1. j \in DOMAIN answer
      BY DEF Offered
    <3>2. answer[j] \in [name : Seq(STRING), readOnly : BOOLEAN]
      <4> DEFINE U == [name : Seq(STRING), readOnly : BOOLEAN]
      <4>1. answer \in Seq(U)
        BY <2>2
      <4> HIDE DEF U
      <4>2. answer[j] \in U
        BY <4>1, <3>1
      <4> QED BY <4>2 DEF U
    <3>3. [i \in 1..ks[j] |-> s] \in Seq(STRING)
      <4>1. PICK n \in Nat : n = ks[j]
        BY <2>1
      <4>2. [i \in 1..n |-> s] \in Seq(STRING)
        BY <2>3
      <4> QED BY <4>1, <4>2
    <3>4. Prefixed(s, answer[j].name, ks[j]) \in Seq(STRING)
      BY <3>2, <3>3 DEF Prefixed
    <3>5. answer[j] \in ToSet(answer)
      BY <3>1 DEF ToSet
    <3> QED BY <3>2, <3>4, <3>5 DEF Route, Tools, Names
  <2>5. \A t \in new \ tools : \E j \in Offered(s, answer) :
          t = Route(s, answer[j], ks[j])
    BY <2>1
  <2>6. \A j \in Offered(s, answer) : Route(s, answer[j], ks[j]).server = s
    BY DEF Route
  <2>7. new \in SUBSET Tools
    BY <2>1, <2>4
  <2>8. tools \subseteq new
    BY <2>1
  <2> QED
    BY <1>2, <2>4, <2>5, <2>6, <2>7, <2>8 DEF From
<1> QED
  BY <1>1, <1>2

\* No route is lost.
LEMMA AddServerKeeps ==
  ASSUME NEW tools, NEW s, NEW answer, NEW new \in AddServer(tools, s, answer)
  PROVE  tools \subseteq new
BY DEF AddServer, Before

\* Every tool that is offered gets a route.
LEMMA AddServerHas ==
  ASSUME NEW tools, NEW s, NEW answer \in Answers, answer # Failed,
         NEW new \in AddServer(tools, s, answer),
         NEW u \in ToSet(answer), ToolAllowed(s, u)
  PROVE  \E t \in new : t.server = s /\ t.tool = u.name
<1>1. PICK ks \in [Offered(s, answer) -> Nat] :
         new = tools \cup {Route(s, answer[j], ks[j]) :
                             j \in Offered(s, answer)}
  BY AddServerFacts
<1>2. PICK i \in DOMAIN answer : u = answer[i]
  BY DEF ToSet
<1>3. Route(s, answer[i], ks[i]) \in new
  BY <1>1, <1>2 DEF Offered
<1> QED
  BY <1>2, <1>3 DEF Route

-----------------------------------------------------------------------------
(* A whole listing. *)

\* What servers that answer as in net_ make of the first n turns of the loop
\* of ListTools.
Steps(net_, ch, n) ==
  /\ ch[0] = {}
  /\ \A i \in 1..n :
       ch[i] \in AddServer(ch[i - 1], Servers[i], net_[Servers[i]])

Listing(net_, tools, n) == \E ch : Steps(net_, ch, n) /\ ch[n] = tools

\* Servers that do not change give one listing.
LEMMA ListingOne ==
  ASSUME NEW n \in 0..Len(Servers), NEW net_ \in [Keys -> Answers],
         NEW t, NEW u, Listing(net_, t, n), Listing(net_, u, n)
  PROVE  t = u
<1>1. PICK c : Steps(net_, c, n) /\ c[n] = t
  BY DEF Listing
<1>2. PICK d : Steps(net_, d, n) /\ d[n] = u
  BY DEF Listing
<1> DEFINE T == {i \in 0..n : c[i] # d[i]}
<1>3. CASE T = {}
  BY <1>1, <1>2, <1>3
<1>4. CASE T # {}
  <2>1. PICK i \in T : \A j \in T : i <= j
    <3>1. T \subseteq Nat
      OBVIOUS
    <3> HIDE DEF T
    <3> QED BY <3>1, <1>4, LeastExists
  <2>2. i \in 1..n /\ i - 1 \in 0..n
    <3>1. c[0] = d[0]
      BY <1>1, <1>2 DEF Steps
    <3>2. i \in 0..n /\ i # 0
      BY <2>1, <3>1
    <3> QED BY <3>2
  <2>3. c[i - 1] = d[i - 1]
    BY <2>1, <2>2
  <2>4. net_[Servers[i]] \in Answers
    BY <2>2 DEF Keys
  <2>5. /\ c[i] \in AddServer(c[i - 1], Servers[i], net_[Servers[i]])
        /\ d[i] \in AddServer(c[i - 1], Servers[i], net_[Servers[i]])
    BY <1>1, <1>2, <2>2, <2>3 DEF Steps
  <2>6. c[i] = d[i]
    BY <2>4, <2>5, AddServerOne
  <2> QED
    BY <2>1, <2>6
<1> QED
  BY <1>3, <1>4

\* A listing begins without tools.
LEMMA ListingStart ==
  ASSUME NEW net_
  PROVE  Listing(net_, {}, 0)
<1>1. Steps(net_, [i \in {0} |-> {}], 0)
  BY DEF Steps
<1> QED
  BY <1>1 DEF Listing

\* It goes on with the next server.
LEMMA ListingStep ==
  ASSUME NEW n \in Nat, NEW net_, NEW t, Listing(net_, t, n),
         NEW new \in AddServer(t, Servers[n + 1], net_[Servers[n + 1]])
  PROVE  Listing(net_, new, n + 1)
<1>1. PICK c : Steps(net_, c, n) /\ c[n] = t
  BY DEF Listing
<1>2. PICK d : d = [i \in 0..(n + 1) |-> IF i = n + 1 THEN new ELSE c[i]]
  OBVIOUS
<1>3. d[0] = {}
  BY <1>1, <1>2 DEF Steps
<1>4. \A i \in 1..n : d[i] = c[i] /\ d[i - 1] = c[i - 1]
  BY <1>2
<1>5. d[n + 1] = new /\ d[(n + 1) - 1] = t
  BY <1>1, <1>2
<1>6. ASSUME NEW i \in 1..(n + 1)
      PROVE  d[i] \in AddServer(d[i - 1], Servers[i], net_[Servers[i]])
  <2>1. CASE i \in 1..n
    BY <1>1, <1>4, <2>1 DEF Steps
  <2>2. CASE i = n + 1
    BY <1>5, <2>2
  <2> QED BY <2>1, <2>2
<1>7. Steps(net_, d, n + 1)
  BY <1>3, <1>6 DEF Steps
<1> QED
  BY <1>5, <1>7 DEF Listing

-----------------------------------------------------------------------------
(* Types. *)

\* The tools there are, and what is written there.
LEMMA InitType == Init => TypeOK
<1> SUFFICES ASSUME Init PROVE TypeOK
  OBVIOUS
<1>1. mode \in Modes /\ wants \in Modes \cup {"none"}
  BY DEF Init, Modes
<1>2. \A i \in DOMAIN rules : rules[i] \in Rule
  BY DEF Init
<1>3. srv \in [Keys -> Answers]
  BY DEF Init, Answers
<1>4. asked \in [Listers -> [tools : SUBSET Tools, answers : Seq(Answers)]]
  BY DEF Init, NotAsked
<1>5. used \in [calls : Nat, changes : Nat, lists : Nat, modes : Nat]
  BY DEF Init
<1>6. sub \in Seq(Loops) /\ Waiting(sub) /\ (pc = "sub" <=> sub # <<>>)
  BY DEF Init, Waiting
<1>7. answered \in Seq(Answers)
  BY DEF Init
<1>9. stale \in BOOLEAN
  BY DEF Init
<1>8. ran.server \in Keys \cup {"builtin", "none"} /\ ran.how \in Hows
  BY DEF Init, Nothing, Hows
<1> QED
  BY <1>1, <1>2, <1>3, <1>4, <1>5, <1>6, <1>7, <1>8, <1>9 DEF Init, TypeOK, Hows

\* The steps that only list, change a server or the mode.
NetStep ==
  \/ \E l \in Listers : Ask(l) \/ Publish(l)
  \/ UserLists
  \/ \E s \in Keys : ServerChanges(s)
  \/ \E m \in Modes : UserSwitches(m)
  \/ SetMode

\* The counters stay natural numbers.
LEMMA CountType ==
  ASSUME TypeOK, NEW c \in {"calls", "changes", "lists", "modes"}, Count(c, 1)
  PROVE  /\ used' \in [calls : Nat, changes : Nat, lists : Nat, modes : Nat]
         /\ c # "calls" => used'.calls = used.calls
<1>1. used \in [calls : Nat, changes : Nat, lists : Nat, modes : Nat]
  BY DEF TypeOK
<1>2. used[c] + 1 \in Nat
  BY <1>1
<1>3. used' = [used EXCEPT ![c] = used[c] + 1]
  BY DEF Count
<1> QED
  BY <1>1, <1>2, <1>3

\* A lister starts afresh.
LEMMA ListsType ==
  ASSUME TypeOK, NEW l \in Listers, Lists(l)
  PROVE  /\ asked' \in [Listers -> [tools : SUBSET Tools,
                                    answers : Seq(Answers)]]
         /\ listing' \subseteq Listers
         /\ l \in listing' /\ asked'[l] = NotAsked
         /\ \A k \in Listers \ {l} : asked'[k] = asked[k]
<1>1. NotAsked \in [tools : SUBSET Tools, answers : Seq(Answers)]
  BY DEF NotAsked
<1> QED
  BY <1>1 DEF TypeOK, Lists

\* What Ask does: the server's answer, and the tools with those of it.
LEMMA AskFacts ==
  ASSUME TypeOK, NEW l \in Listers, Ask(l)
  PROVE  \E s \in Keys : \E tools :
           /\ Len(asked[l].answers) + 1 \in 1..Len(Servers)
           /\ s = Servers[Len(asked[l].answers) + 1] /\ srv[s] \in Answers
           /\ tools \in AddServer(asked[l].tools, s, srv[s])
           /\ asked' = [asked EXCEPT
                          ![l] = [tools |-> tools,
                                  answers |-> Append(asked[l].answers, srv[s])]]
           /\ asked[l].tools \in SUBSET Tools /\ asked[l].answers \in Seq(Answers)
<1>1. asked[l].tools \in SUBSET Tools /\ asked[l].answers \in Seq(Answers)
  BY DEF TypeOK
<1>2. PICK n : n = Len(asked[l].answers) + 1
  OBVIOUS
<1>3. n \in 1..Len(Servers)
  BY <1>1, <1>2 DEF Ask
<1>4. Servers[n] \in Keys
  BY <1>3 DEF Keys
<1>5. srv[Servers[n]] \in Answers
  BY <1>4 DEF TypeOK
<1>6. \E tools \in AddServer(asked[l].tools, Servers[n], srv[Servers[n]]) :
        asked' = [asked EXCEPT
                    ![l] = [tools |-> tools,
                            answers |-> Append(asked[l].answers,
                                               srv[Servers[n]])]]
  BY <1>2 DEF Ask
<1>7. PICK tools \in AddServer(asked[l].tools, Servers[n], srv[Servers[n]]) :
        asked' = [asked EXCEPT
                    ![l] = [tools |-> tools,
                            answers |-> Append(asked[l].answers,
                                               srv[Servers[n]])]]
  BY <1>6
<1>8. PICK s \in Keys : s = Servers[n]
  BY <1>4
<1>9. /\ tools \in AddServer(asked[l].tools, s, srv[s])
      /\ asked' = [asked EXCEPT
                     ![l] = [tools |-> tools,
                             answers |-> Append(asked[l].answers, srv[s])]]
  BY <1>7, <1>8
<1> QED
  BY <1>1, <1>2, <1>3, <1>5, <1>8, <1>9

\* Steps of the listers, the servers and the user keep the types.
LEMMA NetType ==
  ASSUME TypeOK, NetStep
  PROVE  TypeOK'
<1>1. CASE \E l \in Listers : Ask(l)
  <2>1. PICK l \in Listers : Ask(l)
    BY <1>1
  <2>2. PICK s \in Keys : \E tools :
           /\ srv[s] \in Answers
           /\ tools \in AddServer(asked[l].tools, s, srv[s])
           /\ asked' = [asked EXCEPT
                          ![l] = [tools |-> tools,
                                  answers |-> Append(asked[l].answers, srv[s])]]
           /\ asked[l].tools \in SUBSET Tools /\ asked[l].answers \in Seq(Answers)
    BY <2>1, AskFacts
  <2>3. PICK tools :
           /\ tools \in AddServer(asked[l].tools, s, srv[s])
           /\ asked' = [asked EXCEPT
                          ![l] = [tools |-> tools,
                                  answers |-> Append(asked[l].answers, srv[s])]]
    BY <2>2
  <2>4. tools \in SUBSET Tools
    <3>1. PICK answer \in Answers : answer = srv[s]
      BY <2>2
    <3>2. PICK old \in SUBSET Tools : old = asked[l].tools
      BY <2>2
    <3>3. tools \in AddServer(old, s, answer)
      BY <2>3, <3>1, <3>2
    <3> QED BY <3>3, AddServerSound
  <2>5. Append(asked[l].answers, srv[s]) \in Seq(Answers)
    BY <2>2
  <2>6. asked' \in [Listers -> [tools : SUBSET Tools, answers : Seq(Answers)]]
    BY <2>3, <2>4, <2>5 DEF TypeOK
  <2> QED
    BY <2>1, <2>6 DEF TypeOK, Ask, gate, turn, history
<1>2. CASE \E l \in Listers : Publish(l)
  <2>1. PICK l \in Listers : Publish(l)
    BY <1>2
  <2>2. asked[l].tools \in SUBSET Tools /\ asked[l].answers \in Seq(Answers)
    BY DEF TypeOK
  <2>3. NotAsked \in [tools : SUBSET Tools, answers : Seq(Answers)]
    BY DEF NotAsked
  <2>4. asked' \in [Listers -> [tools : SUBSET Tools, answers : Seq(Answers)]]
    BY <2>1, <2>3 DEF TypeOK, Publish
  <2>5. /\ routes' \in SUBSET Tools /\ cached' \in SUBSET Tools
        /\ answered' \in Seq(Answers)
    BY <2>1, <2>2 DEF TypeOK, Publish
  <2> QED
    BY <2>1, <2>4, <2>5 DEF TypeOK, Publish, gate, turn
<1>3. CASE UserLists
  <2>1. /\ asked' \in [Listers -> [tools : SUBSET Tools, answers : Seq(Answers)]]
        /\ listing' \subseteq Listers
    BY <1>3, ListsType DEF UserLists, Listers
  <2>2. used' \in [calls : Nat, changes : Nat, lists : Nat, modes : Nat]
    BY <1>3, CountType DEF UserLists
  <2> QED
    BY <1>3, <2>1, <2>2 DEF TypeOK, UserLists, gate, turn, history
<1>4. CASE \E s \in Keys : ServerChanges(s)
  <2>1. PICK s \in Keys : ServerChanges(s)
    BY <1>4
  <2>2. srv' \in [Keys -> Answers]
    <3>1. PICK o \in Answers : srv' = [srv EXCEPT ![s] = o]
      BY <2>1 DEF ServerChanges, Down, Change, Answers
    <3> QED BY <3>1 DEF TypeOK
  <2>3. used' \in [calls : Nat, changes : Nat, lists : Nat, modes : Nat]
    BY <2>1, CountType DEF ServerChanges
  <2> QED
    BY <2>1, <2>2, <2>3 DEF TypeOK, ServerChanges, gate, turn
<1>5. CASE \E m \in Modes : UserSwitches(m)
  <2>1. PICK m \in Modes : UserSwitches(m)
    BY <1>5
  <2>2. used' \in [calls : Nat, changes : Nat, lists : Nat, modes : Nat]
    BY <2>1, CountType DEF UserSwitches
  <2> QED
    BY <2>1, <2>2 DEF TypeOK, UserSwitches, net, turn, history
<1>6. CASE SetMode
  BY <1>6 DEF TypeOK, SetMode, net, turn, history
<1> QED
  BY <1>1, <1>2, <1>3, <1>4, <1>5, <1>6 DEF NetStep

\* The gate says one of four things.
LEMMA VerdictType ==
  ASSUME mode \in Modes, NEW c
  PROVE  /\ ShouldAutoApprove(mode, rules, c) \in {"yes", "no", "ask", "check"}
         /\ ShouldAutoApprove(mode, rules, c) = "check" => mode = "auto"
         /\ ShouldAutoApprove(mode, rules, c) = "yes" => mode # "manual"
<1> DEFINE rule == EvaluateRules(rules, c.name)
           risky == TooRisky(c) \/ c.name \notin AutoApprove
<1>1. ShouldAutoApprove(mode, rules, c) =
        IF mode = "yolo" THEN "yes"
        ELSE IF mode = "manual" \/ c.name \in NeverAutoApprove THEN "ask"
        ELSE IF rule = "allow" THEN "yes"
        ELSE IF rule = "deny" THEN "no"
        ELSE IF rule = "ask" \/ risky THEN "ask"
        ELSE "check"
  BY DEF ShouldAutoApprove
<1> HIDE DEF rule, risky
<1> QED
  BY <1>1 DEF Modes

\* What Decide makes of the gate's answer.
LEMMA DecideFacts ==
  ASSUME TypeOK, NEW c \in Calls, Decide(c)
  PROVE  \E v \in {"yes", "no", "ask", "check"} :
           /\ v = ShouldAutoApprove(mode, rules, c)
           /\ call' = IF v = "no" THEN NoCall ELSE c
           /\ how' = IF v # "yes" THEN "none"
                     ELSE IF mode = "yolo" THEN "yolo" ELSE "rule"
           /\ pc' = IF v = "yes" THEN "run" ELSE IF v = "no" THEN "idle"
                    ELSE IF v = "ask" THEN "ask" ELSE "find"
           /\ v = "check" => mode = "auto"
           /\ v = "yes" => mode # "manual"
<1>1. mode \in Modes
  BY DEF TypeOK
<1>2. PICK v \in {"yes", "no", "ask", "check"} :
        /\ v = ShouldAutoApprove(mode, rules, c)
        /\ v = "check" => mode = "auto"
        /\ v = "yes" => mode # "manual"
  BY <1>1, VerdictType
<1>3. /\ call' = IF v = "no" THEN NoCall ELSE c
      /\ how' = IF v # "yes" THEN "none"
                ELSE IF mode = "yolo" THEN "yolo" ELSE "rule"
      /\ pc' = [yes |-> "run", no |-> "idle", ask |-> "ask",
                check |-> "find"][v]
  BY <1>2 DEF Decide
<1>4. pc' = IF v = "yes" THEN "run" ELSE IF v = "no" THEN "idle"
            ELSE IF v = "ask" THEN "ask" ELSE "find"
  BY <1>3
<1> QED
  BY <1>2, <1>3, <1>4

\* Rules of the right form stay so when one is added.
LEMMA FollowedType ==
  ASSUME NEW old, \A i \in DOMAIN old : old[i] \in Rule,
         NEW kept \in SUBSET DOMAIN old, NEW new \in Rule
  PROVE  \A i \in DOMAIN Followed(old, kept, new) :
           Followed(old, kept, new)[i] \in Rule
<1> DEFINE last == 1 + Max({0} \cup kept)
<1>1. Followed(old, kept, new) =
        [i \in kept \cup {last} |-> IF i = last THEN new ELSE old[i]]
  BY DEF Followed
<1> HIDE DEF last
<1> QED
  BY <1>1

\* The user's "always" makes a rule.
LEMMA AllowRuleType ==
  ASSUME NEW name \in Seq(STRING)
  PROVE  AllowRule(name) \in Rule
BY DEF AllowRule, Rule, Exactly

\* A decision of the gate keeps the types.
LEMMA DecideType ==
  ASSUME TypeOK, NEW c \in Calls, Decide(c)
  PROVE  TypeOK'
<1>1. /\ call' \in Calls \cup {NoCall} /\ (pc' = "idle" <=> call' = NoCall)
      /\ pc' \in {"idle", "ask", "find", "run"} /\ how' \in Hows
  BY DecideFacts DEF Hows
<1>2. used' \in [calls : Nat, changes : Nat, lists : Nat, modes : Nat]
  BY CountType DEF Decide
<1>3. stale' \in BOOLEAN
  BY DEF Decide
<1>4. /\ ran'.server \in Keys \cup {"builtin", "none"} /\ ran'.how \in Hows
  BY DEF Decide, Nothing, Hows
<1>5. pc = "idle" /\ sub = <<>>
  BY DEF Decide, TypeOK
<1>6. UNCHANGED <<mode, wants, rules, srv, routes, cached, asked, listing, sub,
                  answered>>
  BY DEF Decide, gate, net
<1> QED
  BY <1>1, <1>2, <1>3, <1>4, <1>5, <1>6 DEF TypeOK

\* The user's answer keeps the types.
LEMMA AnswerType ==
  ASSUME TypeOK, NEW d \in {"no", "yes", "always"}, UserAnswers(d)
  PROVE  TypeOK'
<1>1. call \in Calls /\ sub = <<>>
  BY DEF UserAnswers, TypeOK
<1>2. /\ call' \in Calls \cup {NoCall} /\ (pc' = "idle" <=> call' = NoCall)
      /\ pc' \in {"idle", "run"} /\ how' \in Hows /\ sub' = sub
  BY <1>1 DEF UserAnswers, Approve, Over, Hows
<1>3. \A i \in DOMAIN rules' : rules'[i] \in Rule
  <2>1. CASE UNCHANGED rules
    BY <2>1 DEF TypeOK
  <2>2. CASE rules' = AddAutoApprove(rules, call.name)
    <3>1. AllowRule(call.name) \in Rule
      BY <1>1, AllowRuleType
    <3>2. \A i \in DOMAIN rules : rules[i] \in Rule
      BY DEF TypeOK
    <3> DEFINE kept == {i \in DOMAIN rules :
                          ~ (rules[i].tool = Exactly(call.name)
                             /\ rules[i].scope = "session")}
    <3>3. rules' = Followed(rules, kept, AllowRule(call.name))
      BY <2>2 DEF AddAutoApprove
    <3>4. kept \in SUBSET DOMAIN rules
      OBVIOUS
    <3> HIDE DEF kept
    <3> QED BY <3>1, <3>2, <3>3, <3>4, FollowedType
  <2> QED BY <2>1, <2>2 DEF UserAnswers
<1>4. UNCHANGED <<mode, wants, net, ran, answered, stale, used>>
  BY DEF UserAnswers
<1> QED
  BY <1>1, <1>2, <1>3, <1>4 DEF TypeOK, net

\* Looking a tool up, running it and ending the call keep the types.
LEMMA RunType ==
  ASSUME TypeOK,
         FindToDecide \/ CheckReadOnly \/ RunBuiltIn \/ FindToRun
           \/ UnknownTool \/ CallTool
  PROVE  TypeOK'
<1> USE DEF Hows
<1>1. CASE FindToDecide \/ FindToRun
  <2>1. \/ pc = "find" /\ Find("check")
        \/ pc = "run" /\ Find("route")
    BY <1>1 DEF FindToDecide, FindToRun
  <2>2. /\ pc' \in {"check", "route"} /\ pc # "idle" /\ pc # "sub"
        /\ UNCHANGED <<call, how, sub, gate, srv, routes, cached, history, used>>
    BY <2>1 DEF Find, To
  <2>3. /\ asked' \in [Listers -> [tools : SUBSET Tools, answers : Seq(Answers)]]
        /\ listing' \subseteq Listers
    <3>1. CASE UNCHANGED <<asked, listing>>
      BY <3>1 DEF TypeOK
    <3>2. CASE Lists("turn")
      BY <3>2, ListsType DEF Listers
    <3> QED BY <2>1, <3>1, <3>2 DEF Find
  <2> QED
    BY <2>2, <2>3 DEF TypeOK, gate, history
<1>2. CASE CheckReadOnly
  BY <1>2 DEF CheckReadOnly, Approve, To, TypeOK, gate, net, history
<1>3. CASE RunBuiltIn \/ UnknownTool \/ CallTool
  <2>1. /\ pc \in {"run", "route"} /\ Over
        /\ UNCHANGED <<gate, net, always, answered, stale, used>>
    BY <1>3 DEF RunBuiltIn, UnknownTool, CallTool, history
  <2>2. \/ UNCHANGED ran
        \/ ran'.server \in Keys \cup {"builtin"} /\ ran'.how = how
    <3>1. CASE RunBuiltIn
      BY <3>1 DEF RunBuiltIn
    <3>2. CASE UnknownTool
      BY <3>2 DEF UnknownTool, history
    <3>3. CASE CallTool
      <4>1. \/ UNCHANGED ran
            \/ \E t \in routes : ran' = AskFor(t, how)
        BY <3>3 DEF CallTool, Named
      <4>2. \A t \in routes : t.server \in Keys
        BY DEF TypeOK, Tools
      <4> QED BY <4>1, <4>2 DEF AskFor
    <3> QED BY <1>3, <3>1, <3>2, <3>3
  <2>3. ran'.server \in Keys \cup {"builtin", "none"} /\ ran'.how \in Hows
    BY <2>2 DEF TypeOK
  <2> QED
    BY <2>1, <2>3 DEF Over, TypeOK, gate, net
<1> QED
  BY <1>1, <1>2, <1>3

\* The loops of the subagents keep the types.
LEMMA SubType ==
  ASSUME TypeOK,
         \/ DispatchSubagent \/ SubChat \/ SubRun
         \/ \E d \in 1..MaxDepth : SubExpires(d)
  PROVE  TypeOK'
<1>1. SubIdle
  BY DEF DispatchSubagent, SubChat, SubRun, SubExpires
<1>2. /\ sub' \in Seq(Loops) /\ Waiting(sub') /\ (pc' = "sub" <=> sub' # <<>>)
      /\ pc' \in {"idle", "sub"} /\ (pc' = "idle" <=> call' = NoCall)
      /\ call' \in {call, NoCall} /\ how' \in {how, "none"}
  <2>1. NewLoop \in Loops
    BY DEF NewLoop, Loops
  <2>2. CASE DispatchSubagent
    <3>1. sub' = <<NewLoop>> /\ pc' = "sub" /\ pc = "run"
          /\ UNCHANGED <<call, how>>
      BY <2>2 DEF DispatchSubagent
    <3>2. sub' \in Seq(Loops) /\ sub' # <<>> /\ Len(sub') = 1
      BY <2>1, <3>1
    <3> QED BY <3>1, <3>2 DEF TypeOK, Waiting
  <2>3. CASE pc = "sub" /\ ~DispatchSubagent
    <3>1. /\ sub \in Seq(Loops) /\ Waiting(sub) /\ call # NoCall
          /\ Depth \in Nat \ {0} /\ Depth = Len(sub)
      BY <2>3 DEF TypeOK, Depth
    <3>2. Inner \in Loops /\ \A i \in 1..Depth : sub[i] \in Loops
      BY <3>1 DEF Inner
    <3>3. ASSUME NEW f \in Loops, SetInner(f), UNCHANGED <<pc, call, how>>
          PROVE  /\ sub' \in Seq(Loops) /\ Waiting(sub') /\ sub' # <<>>
                 /\ pc' = "sub" /\ call' # NoCall
      <4>1. sub' = [sub EXCEPT ![Depth] = f]
        BY <3>3 DEF SetInner
      <4>2. sub' \in Seq(Loops) /\ Len(sub') = Depth
        BY <3>1, <3>3, <4>1
      <4>3. \A i \in 1..(Depth - 1) : sub'[i] = sub[i]
        BY <3>1, <4>1
      <4>4. Waiting(sub')
        BY <3>1, <4>2, <4>3 DEF Waiting
      <4> QED BY <2>3, <3>1, <3>3, <4>2, <4>4
    <3>4. ASSUME NEW f \in Loops, f.todo # <<>>
          PROVE  NextTodo(f) \in Loops
      <4>1. f.todo \in Seq(SubCalls) /\ f.round \in Nat /\ f.expired \in BOOLEAN
        BY DEF Loops
      <4>2. PICK rest \in Seq(SubCalls) : rest = Tail(f.todo)
        BY <3>4, <4>1, HeadTailProperties
      <4>3. NextTodo(f) = [f EXCEPT !.todo = rest]
        BY <4>2 DEF NextTodo
      <4> QED BY <4>2, <4>3 DEF Loops
    <3>5. CASE SubChat
      <4>1. CASE SubReturns
        <5>1. CASE Depth = 1
          BY <4>1, <5>1 DEF SubReturns, Waiting
        <5>2. CASE Depth # 1
          <6>1. PICK n \in Nat : n = Depth - 1 /\ n > 0
            BY <3>1, <5>2
          <6>2. /\ sub' = [i \in 1..n |-> IF i = n THEN NextTodo(sub[i])
                                         ELSE sub[i]]
                /\ UNCHANGED <<pc, call, how>>
            BY <4>1, <5>2, <6>1 DEF SubReturns
          <6>3. /\ sub[n] \in Loops /\ sub[n].todo # <<>>
                /\ \A i \in 1..(n - 1) : sub[i] \in Loops /\ sub[i].todo # <<>>
            BY <3>1, <3>2, <6>1 DEF Waiting
          <6>4. PICK last \in Loops : last = NextTodo(sub[n])
            BY <3>4, <6>3
          <6>5. sub' = [i \in 1..n |-> IF i = n THEN last ELSE sub[i]]
            BY <6>2, <6>4
          <6>6. sub' \in Seq(Loops) /\ Len(sub') = n /\ sub' # <<>>
            <7>1. \A i \in 1..n : (IF i = n THEN last ELSE sub[i]) \in Loops
              BY <6>1, <6>3
            <7>4. sub' \in [1..n -> Loops]
              BY <6>5, <7>1
            <7>5. sub' \in Seq(Loops)
              BY <6>1, <7>4
            <7>3. Len(sub') = n
              BY <6>1, <6>5
            <7> QED BY <6>1, <7>3, <7>5
          <6>7. Waiting(sub')
            BY <6>3, <6>5, <6>6 DEF Waiting
          <6> QED BY <2>3, <3>1, <6>2, <6>6, <6>7
        <5> QED BY <5>1, <5>2
      <4>2. CASE ~SubReturns
        <5>1. PICK n \in SubCalls :
                SetInner([Inner EXCEPT !.round = @ + 1, !.todo = <<n>>])
          BY <3>5, <4>2 DEF SubChat
        <5>2. <<n>> \in Seq(SubCalls) /\ Inner.round + 1 \in Nat
          BY <3>2 DEF Loops
        <5>3. PICK todo \in Seq(SubCalls), round \in Nat :
                /\ todo = <<n>> /\ round = Inner.round + 1
          BY <5>2
        <5>4. SetInner([Inner EXCEPT !.round = round, !.todo = todo])
          BY <5>1, <5>3
        <5>5. [Inner EXCEPT !.round = round, !.todo = todo] \in Loops
          BY <3>2 DEF Loops
        <5>6. UNCHANGED <<pc, call, how>>
          BY <3>5, <4>2 DEF SubChat
        <5> QED BY <3>3, <5>4, <5>5, <5>6
      <4> QED BY <4>1, <4>2
    <3>6. CASE SubRun
      <4>1. Inner.todo # <<>> /\ UNCHANGED <<pc, call, how>>
        BY <3>6 DEF SubRun
      <4>2. CASE sub' = Append(sub, NewLoop)
        <5>1. sub' \in Seq(Loops) /\ Len(sub') = Depth + 1 /\ sub' # <<>>
          BY <2>1, <3>1, <4>2
        <5>2. \A i \in 1..Depth : sub'[i] = sub[i]
          BY <2>1, <3>1, <4>2
        <5>3. \A i \in 1..Depth : sub[i].todo # <<>>
          BY <3>1, <4>1 DEF Waiting, Inner
        <5>4. Waiting(sub')
          BY <3>1, <5>1, <5>2, <5>3 DEF Waiting
        <5> QED BY <2>3, <3>1, <4>1, <5>1, <5>4
      <4>3. CASE SetInner(NextTodo(Inner))
        BY <3>2, <3>3, <3>4, <4>1, <4>3
      <4> QED BY <3>6, <4>2, <4>3 DEF SubRun
    <3>7. CASE \E d \in 1..MaxDepth : SubExpires(d)
      <4>1. PICK d \in 1..Depth :
              /\ UNCHANGED <<pc, call, how>>
              /\ sub' = [i \in 1..Depth |->
                           [sub[i] EXCEPT !.expired = @ \/ i >= d]]
        BY <3>7 DEF SubExpires
      <4>2. \A i \in 1..Depth :
              /\ [sub[i] EXCEPT !.expired = @ \/ i >= d] \in Loops
              /\ [sub[i] EXCEPT !.expired = @ \/ i >= d].todo = sub[i].todo
        BY <3>2 DEF Loops
      <4>3. PICK s : s = [i \in 1..Depth |->
                            [sub[i] EXCEPT !.expired = @ \/ i >= d]]
        OBVIOUS
      <4>4. \A i \in 1..Depth : s[i] \in Loops /\ s[i].todo = sub[i].todo
        BY <4>2, <4>3
      <4>5. s \in [1..Depth -> Loops]
        BY <4>3, <4>4
      <4>6. s \in Seq(Loops) /\ Len(s) = Depth /\ s # <<>>
        <5>1. s \in Seq(Loops)
          BY <3>1, <4>5
        <5>2. DOMAIN s = 1..Depth
          BY <4>5
        <5>3. Len(s) = Depth
          BY <3>1, <5>1, <5>2, LenProperties
        <5> QED BY <3>1, <5>1, <5>3
      <4>7. Waiting(s)
        <5>1. SUFFICES ASSUME NEW i \in 1..(Len(s) - 1)
                       PROVE  s[i].todo # <<>>
          BY DEF Waiting
        <5>2. i \in 1..(Depth - 1) /\ i \in 1..Depth
          BY <3>1, <4>6
        <5>3. sub[i].todo # <<>>
          BY <3>1, <5>2 DEF Waiting
        <5> QED BY <4>4, <5>2, <5>3
      <4> QED BY <2>3, <3>1, <4>1, <4>3, <4>6, <4>7
    <3> QED BY <2>3, <3>5, <3>6, <3>7
  <2>4. pc = "sub" \/ DispatchSubagent
    BY DEF SubChat, SubRun, SubExpires
  <2> QED BY <2>2, <2>3, <2>4
<1>3. UNCHANGED <<mode, rules, wants, srv, routes, cached, asked, listing,
                  ran, answered, stale, used>>
  BY <1>1 DEF SubIdle, gate, net, history
<1>4. /\ mode' \in Modes /\ wants' \in Modes \cup {"none"}
      /\ \A i \in DOMAIN rules' : rules'[i] \in Rule
      /\ srv' \in [Keys -> Answers]
      /\ routes' \in SUBSET Tools /\ cached' \in SUBSET Tools
      /\ asked' \in [Listers -> [tools : SUBSET Tools, answers : Seq(Answers)]]
      /\ listing' \subseteq Listers
  BY <1>3 DEF TypeOK
<1>5. /\ answered' \in Seq(Answers) /\ stale' \in BOOLEAN
      /\ ran'.server \in Keys \cup {"builtin", "none"} /\ ran'.how \in Hows
      /\ used' \in [calls : Nat, changes : Nat, lists : Nat, modes : Nat]
  BY <1>3 DEF TypeOK
<1>6. call' \in Calls \cup {NoCall} /\ how' \in Hows
  BY <1>2 DEF TypeOK, Hows
<1> QED
  BY <1>2, <1>4, <1>5, <1>6 DEF TypeOK

\* The steps of the turn and of the user.
TurnSteps ==
  \/ \E c \in Calls : Decide(c)
  \/ TurnStep
  \/ \E d \in 1..MaxDepth : SubExpires(d)
  \/ \E d \in {"no", "yes", "always"} : UserAnswers(d)

\* Every step is one of these or of the ones above.
LEMMA NextSteps == Next => NetStep \/ TurnSteps
BY DEF Next, NetStep, TurnSteps

\* Every step keeps the types.
LEMMA NextType ==
  ASSUME TypeOK, [Next]_vars
  PROVE  TypeOK'
<1>1. CASE NetStep
  BY <1>1, NetType
<1>2. CASE TurnSteps
  BY <1>2, DecideType, AnswerType, RunType, SubType DEF TurnSteps, TurnStep
<1>3. CASE UNCHANGED vars
  BY <1>3 DEF vars, gate, net, turn, history, TypeOK
<1> QED
  BY <1>1, <1>2, <1>3, NextSteps

\* Every variable keeps its type, whatever the servers answer.
THEOREM TypeCorrect == Spec => []TypeOK
<1>1. TypeOK /\ [Next]_vars => TypeOK'
  BY NextType
<1> QED
  BY InitType, <1>1, PTL DEF Spec
-----------------------------------------------------------------------------
(* The mode. *)

\* A call that is looked up for the decision is decided in automatic mode:
\* SetMode waits for the lock.
Looked == Locked => mode = "auto"

\* An unasked approval is given under the mode of that moment.
Unasked ==
  how = "none" /\ how' \in {"rule", "readonly", "yolo"} =>
    mode = (IF how' = "yolo" THEN "yolo" ELSE "auto")

\* A step keeps Looked, and an approval it gives is one of the mode.
LEMMA LookedStep ==
  ASSUME TypeOK, Looked, [Next]_vars
  PROVE  Looked' /\ Unasked
<1> USE DEF Looked, Locked, Unasked
<1>1. CASE NetStep
  <2>1. CASE SetMode
    BY <2>1 DEF SetMode, turn
  <2>2. CASE ~SetMode
    <3>1. UNCHANGED <<mode, pc, how>>
      BY <1>1, <2>2 DEF NetStep, Ask, Publish, UserLists, ServerChanges,
                        UserSwitches, gate, turn
    <3> QED BY <3>1
  <2> QED BY <2>1, <2>2
<1>2. CASE \E c \in Calls : Decide(c)
  <2>1. PICK c \in Calls : Decide(c)
    BY <1>2
  <2>2. UNCHANGED mode /\ mode \in Modes
    BY <2>1 DEF Decide, gate, TypeOK
  <2> QED BY <2>1, <2>2, DecideFacts DEF Modes
<1>3. CASE CheckReadOnly
  BY <1>3 DEF CheckReadOnly, Approve, To, gate
<1>4. CASE FindToDecide \/ FindToRun
  BY <1>4 DEF FindToDecide, FindToRun, Find, To, gate
<1>5. CASE RunBuiltIn \/ UnknownTool \/ CallTool
  BY <1>5 DEF RunBuiltIn, UnknownTool, CallTool, Over
<1>6. CASE DispatchSubagent
  BY <1>6 DEF DispatchSubagent
<1>7. CASE SubChat \/ SubRun \/ \E d \in 1..MaxDepth : SubExpires(d)
  BY <1>7 DEF SubChat, SubRun, SubExpires, SubReturns
<1>8. CASE \E d \in {"no", "yes", "always"} : UserAnswers(d)
  BY <1>8 DEF UserAnswers, Approve, Over
<1>9. CASE UNCHANGED vars
  BY <1>9 DEF vars, gate, turn
<1> QED
  BY <1>1, <1>2, <1>3, <1>4, <1>5, <1>6, <1>7, <1>8, <1>9, NextSteps
     DEF TurnSteps, TurnStep

\* ApprovedUnderMode: a call runs unasked only under a mode that allows it at
\* that moment, however long the look-up of its tool took (approval.go:166).
THEOREM ModeObeyed == Spec => ApprovedUnderMode
<1>1. Init => Looked
  BY DEF Init, Looked, Locked
<1>2. TypeOK /\ Looked /\ [Next]_vars => Looked' /\ Unasked
  BY LookedStep
<1>3. Spec => [][Unasked]_vars
  BY <1>1, <1>2, TypeCorrect, PTL DEF Spec
<1> QED
  BY <1>3 DEF ApprovedUnderMode, Unasked

-----------------------------------------------------------------------------
(* The names of the tools. *)

\* The routes a listing has so far: a name leads to one tool, and every tool
\* an answer offers has a route.
Routed(tools, answers) ==
  /\ Distinct(tools)
  /\ \A i \in DOMAIN answers : answers[i] # Failed =>
       \A u \in ToSet(answers[i]) : ToolAllowed(Servers[i], u) =>
         \E t \in tools : t.server = Servers[i] /\ t.tool = u.name

RoutesInv ==
  /\ Routed(routes, answered)
  /\ \A l \in Listers : Routed(asked[l].tools, asked[l].answers)

\* A listing that has not begun routes nothing.
LEMMA RoutedStart == Routed({}, <<>>)
BY DEF Routed, Distinct

\* One more answer: its tools are routed, under names that were not taken.
LEMMA RoutedNext ==
  ASSUME NEW tools \in SUBSET Tools, NEW answers \in Seq(Answers),
         Routed(tools, answers), NEW answer \in Answers,
         NEW s \in Keys, s = Servers[Len(answers) + 1],
         NEW new \in AddServer(tools, s, answer)
  PROVE  Routed(new, Append(answers, answer))
<1>1. Distinct(new)
  BY AddServerDistinct DEF Routed
<1>2. tools \subseteq new
  BY AddServerKeeps
<1>3. PICK more : more = Append(answers, answer)
  OBVIOUS
<1>4. /\ DOMAIN more = 1..(Len(answers) + 1)
      /\ more[Len(answers) + 1] = answer
      /\ \A i \in 1..Len(answers) : more[i] = answers[i]
  BY <1>3
<1>5. DOMAIN answers = 1..Len(answers) /\ Len(answers) \in Nat
  BY LenProperties
<1>6. ASSUME NEW i \in DOMAIN more, more[i] # Failed,
             NEW u \in ToSet(more[i]), ToolAllowed(Servers[i], u)
      PROVE  \E t \in new : t.server = Servers[i] /\ t.tool = u.name
  <2>1. CASE i \in 1..Len(answers)
    BY <1>2, <1>4, <1>5, <1>6, <2>1 DEF Routed
  <2>2. CASE i = Len(answers) + 1
    BY <1>4, <1>6, <2>2, AddServerHas
  <2> QED BY <1>4, <1>5, <2>1, <2>2
<1> QED
  BY <1>1, <1>3, <1>6 DEF Routed

\* A lister that starts afresh has routed nothing.
LEMMA ListsRouted ==
  ASSUME TypeOK, RoutesInv, NEW l \in Listers, Lists(l),
         UNCHANGED <<routes, answered>>
  PROVE  RoutesInv'
<1>1. \A k \in Listers : asked'[k] = asked[k] \/ asked'[k] = NotAsked
  BY ListsType
<1>2. Routed(NotAsked.tools, NotAsked.answers)
  BY RoutedStart DEF NotAsked
<1> QED
  BY <1>1, <1>2 DEF RoutesInv

\* Only the steps of the listings touch the routes.
LEMMA RoutesStep ==
  ASSUME TypeOK, RoutesInv, [Next]_vars
  PROVE  RoutesInv'
<1>1. CASE \E l \in Listers : Ask(l)
  <2>1. PICK l \in Listers : Ask(l)
    BY <1>1
  <2>2. PICK s \in Keys : \E tools :
           /\ s = Servers[Len(asked[l].answers) + 1] /\ srv[s] \in Answers
           /\ tools \in AddServer(asked[l].tools, s, srv[s])
           /\ asked' = [asked EXCEPT
                          ![l] = [tools |-> tools,
                                  answers |-> Append(asked[l].answers, srv[s])]]
           /\ asked[l].tools \in SUBSET Tools /\ asked[l].answers \in Seq(Answers)
    BY <2>1, AskFacts
  <2>3. PICK answer \in Answers, old \in SUBSET Tools, answers \in Seq(Answers) :
          answer = srv[s] /\ old = asked[l].tools /\ answers = asked[l].answers
    BY <2>2
  <2>4. PICK tools :
           /\ tools \in AddServer(old, s, answer)
           /\ asked' = [asked EXCEPT
                          ![l] = [tools |-> tools,
                                  answers |-> Append(answers, answer)]]
    BY <2>2, <2>3
  <2>5. Routed(old, answers)
    BY <2>3 DEF RoutesInv
  <2>6. Routed(tools, Append(answers, answer))
    BY <2>2, <2>3, <2>4, <2>5, RoutedNext
  <2>7. \A k \in Listers : Routed(asked'[k].tools, asked'[k].answers)
    BY <2>4, <2>6 DEF RoutesInv, TypeOK
  <2>8. UNCHANGED <<routes, answered>>
    BY <2>1 DEF Ask, history
  <2> QED BY <2>7, <2>8 DEF RoutesInv
<1>2. CASE \E l \in Listers : Publish(l)
  <2>1. PICK l \in Listers : Publish(l)
    BY <1>2
  <2>2. routes' = asked[l].tools /\ answered' = asked[l].answers
    BY <2>1 DEF Publish
  <2>3. Routed(routes', answered')
    BY <2>2 DEF RoutesInv
  <2>4. \A k \in Listers : asked'[k] = asked[k] \/ asked'[k] = NotAsked
    BY <2>1 DEF Publish, TypeOK
  <2>5. Routed(NotAsked.tools, NotAsked.answers)
    BY RoutedStart DEF NotAsked
  <2> QED BY <2>3, <2>4, <2>5 DEF RoutesInv
<1>3. CASE UserLists
  BY <1>3, ListsRouted DEF UserLists, Listers, history
<1>4. CASE FindToDecide \/ FindToRun
  <2>1. /\ UNCHANGED <<routes, answered>>
        /\ UNCHANGED asked \/ Lists("turn")
    BY <1>4 DEF FindToDecide, FindToRun, Find, history
  <2> QED BY <2>1, ListsRouted DEF Listers, RoutesInv
<1>5. CASE UNCHANGED <<routes, answered, asked>>
  BY <1>5 DEF RoutesInv
<1>6. \/ \E l \in Listers : Ask(l) \/ Publish(l)
      \/ UserLists \/ FindToDecide \/ FindToRun
      \/ UNCHANGED <<routes, answered, asked>>
  BY NextSteps
     DEF NetStep, TurnSteps, TurnStep, Decide, UserAnswers, CheckReadOnly,
         RunBuiltIn, UnknownTool, CallTool, DispatchSubagent, SubChat, SubRun,
         SubExpires, SubIdle, ServerChanges, UserSwitches, SetMode, net,
         history, vars
<1> QED
  BY <1>1, <1>2, <1>3, <1>4, <1>5, <1>6

\* RoutesInv is an invariant.
LEMMA RoutesInvariant == Spec => []RoutesInv
<1>1. ASSUME Init PROVE RoutesInv
  <2>1. Routed(routes, answered)
    BY <1>1, RoutedStart DEF Init
  <2>2. ASSUME NEW l \in Listers
        PROVE  Routed(asked[l].tools, asked[l].answers)
    <3>1. asked[l].tools = {} /\ asked[l].answers = <<>>
      BY <1>1 DEF Init, NotAsked
    <3> QED BY <3>1, RoutedStart
  <2> QED BY <2>1, <2>2 DEF RoutesInv
<1>2. TypeOK /\ RoutesInv /\ [Next]_vars => RoutesInv'
  BY RoutesStep
<1> QED
  BY <1>1, <1>2, TypeCorrect, PTL DEF Spec

\* NoToolHidden: every tool of every server that answered has a name of its
\* own, whatever names the servers choose (multiclient.go:79-124).
THEOREM NoneHidden == Spec => []NoToolHidden
<1>1. RoutesInv => NoToolHidden
  BY DEF RoutesInv, Routed, Distinct, NoToolHidden, Named
<1> QED
  BY <1>1, RoutesInvariant, PTL

-----------------------------------------------------------------------------
(* What the user has approved for the session. *)

\* A list of rules has finitely many places.
Bounded(list) == \E n \in Nat : DOMAIN list \subseteq 1..n

\* A tool approved for the session has a rule that allows it, and no rule of
\* the session for this very tool says otherwise.
RulesInv ==
  /\ Bounded(rules)
  /\ \A a \in always :
       /\ a \notin NeverAutoApprove
       /\ \E i \in DOMAIN rules : rules[i] = AllowRule(a)
       /\ \A i \in DOMAIN rules :
            rules[i].tool = Exactly(a) /\ rules[i].scope = "session"
              => rules[i].decision = "allow"

\* The kept rules of a list, and a new one at a new place.
OneMore(all, old, kept, new) ==
  \E last : /\ last \notin kept
           /\ DOMAIN all = kept \cup {last} /\ all[last] = new
           /\ \A i \in kept : all[i] = old[i]

\* A list of rules that is followed by one more: the place is a new one.
LEMMA FollowedFacts ==
  ASSUME NEW old, Bounded(old), NEW kept, kept \subseteq DOMAIN old, NEW new,
         NEW all, all = Followed(old, kept, new)
  PROVE  Bounded(all) /\ OneMore(all, old, kept, new)
<1>0. PICK n \in Nat : DOMAIN old \subseteq 1..n
  BY DEF Bounded
<1> DEFINE T == {0} \cup kept
<1>1. T \subseteq 0..n /\ T # {}
  BY <1>0
<1> HIDE DEF T
<1>2. PICK x \in T : \A y \in T : x >= y
  BY <1>0, <1>1, GreatestExists
<1>3. Max(T) \in T /\ \A y \in T : Max(T) >= y
  BY <1>2 DEF Max
<1>4. PICK m : m = Max(T)
  OBVIOUS
<1>5. PICK last : last = 1 + m
  OBVIOUS
<1>6. m \in 0..n /\ \A y \in T : m >= y
  BY <1>0, <1>1, <1>3, <1>4
<1>7. last \in 1..(n + 1) /\ last > m
  BY <1>0, <1>5, <1>6
<1>8. last \notin T
  BY <1>1, <1>6, <1>7
<1>9. last \notin kept
  BY <1>8 DEF T
<1>10. all =
        [i \in kept \cup {last} |-> IF i = last THEN new ELSE old[i]]
  BY <1>4, <1>5 DEF Followed, T
<1>11. DOMAIN all \subseteq 1..(n + 1) /\ n + 1 \in Nat
  BY <1>0, <1>7, <1>10
<1> QED
  BY <1>7, <1>9, <1>10, <1>11 DEF Bounded, OneMore

\* The user's answer keeps it: "always" takes the place of what the session
\* said of the tool.
LEMMA AnswerRules ==
  ASSUME TypeOK, RulesInv, NEW d \in {"no", "yes", "always"}, UserAnswers(d)
  PROVE  RulesInv'
<1>1. CASE UNCHANGED <<rules, always>>
  BY <1>1 DEF RulesInv
<1>2. CASE ~UNCHANGED <<rules, always>>
  <2> DEFINE name == call.name
             kept == {i \in DOMAIN rules :
                        ~ (rules[i].tool = Exactly(name)
                           /\ rules[i].scope = "session")}
  <2>1. /\ name \notin NeverAutoApprove /\ always' = always \cup {name}
        /\ rules' = Followed(rules, kept, AllowRule(name))
    BY <1>2 DEF UserAnswers, AddAutoApprove
  <2>2. Bounded(rules)
    BY DEF RulesInv
  <2>3. kept \in SUBSET DOMAIN rules
    OBVIOUS
  <2>4. \A i \in kept : ~ (rules[i].tool = Exactly(name)
                           /\ rules[i].scope = "session")
    OBVIOUS
  <2>5. \A i \in DOMAIN rules \ kept : rules[i].tool = Exactly(name)
    OBVIOUS
  <2> HIDE DEF name, kept
  <2>6. Bounded(rules') /\ OneMore(rules', rules, kept, AllowRule(name))
    <3>1. PICK old, new, all, some :
            /\ old = rules /\ new = AllowRule(name) /\ all = rules'
            /\ some = kept
      OBVIOUS
    <3>2. /\ Bounded(old) /\ some \subseteq DOMAIN old
          /\ all = Followed(old, some, new)
      BY <2>1, <2>2, <2>3, <3>1
    <3>3. Bounded(all) /\ OneMore(all, old, some, new)
      BY <3>2, FollowedFacts
    <3> QED BY <3>1, <3>3
  <2>7. PICK last :
          /\ last \notin kept /\ DOMAIN rules' = kept \cup {last}
          /\ rules'[last] = AllowRule(name)
          /\ \A i \in kept : rules'[i] = rules[i]
    BY <2>6 DEF OneMore
  <2>8. ASSUME NEW a \in always'
        PROVE  /\ a \notin NeverAutoApprove
               /\ \E i \in DOMAIN rules' : rules'[i] = AllowRule(a)
               /\ \A i \in DOMAIN rules' :
                    rules'[i].tool = Exactly(a) /\ rules'[i].scope = "session"
                      => rules'[i].decision = "allow"
    <3>1. rules'[last].decision = "allow"
      BY <2>7 DEF AllowRule
    <3>2. CASE a = name
      BY <2>1, <2>4, <2>7, <3>1, <3>2
    <3>3. CASE a # name
      <4>1. /\ a \in always /\ a \notin NeverAutoApprove
            /\ \A i \in DOMAIN rules :
                 rules[i].tool = Exactly(a) /\ rules[i].scope = "session"
                   => rules[i].decision = "allow"
        BY <2>1, <3>3 DEF RulesInv
      <4>2. PICK i \in DOMAIN rules : rules[i] = AllowRule(a)
        BY <4>1 DEF RulesInv
      <4>3. i \in kept
        BY <2>5, <3>3, <4>2 DEF AllowRule, Exactly
      <4> QED BY <2>3, <2>7, <3>1, <4>1, <4>2, <4>3
    <3> QED BY <3>2, <3>3
  <2> QED
    BY <2>6, <2>8 DEF RulesInv
<1> QED
  BY <1>1, <1>2

\* RulesInv is an invariant.
LEMMA RulesInvariant == Spec => []RulesInv
<1>1. ASSUME Init PROVE RulesInv
  <2>1. rules = ConfigRules /\ always = {}
    BY <1>1 DEF Init
  <2>2. Len(ConfigRules) \in Nat /\ DOMAIN ConfigRules = 1..Len(ConfigRules)
    BY LenProperties
  <2> QED BY <2>1, <2>2 DEF RulesInv, Bounded
<1>2. ASSUME TypeOK, RulesInv, [Next]_vars PROVE RulesInv'
  <2>1. CASE \E d \in {"no", "yes", "always"} : UserAnswers(d)
    BY <1>2, <2>1, AnswerRules
  <2>2. CASE UNCHANGED <<rules, always>>
    BY <1>2, <2>2 DEF RulesInv
  <2>3. \/ \E d \in {"no", "yes", "always"} : UserAnswers(d)
        \/ UNCHANGED <<rules, always>>
    BY <1>2, NextSteps
       DEF NetStep, TurnSteps, TurnStep, Ask, Publish, UserLists,
           ServerChanges, UserSwitches, SetMode, Decide, FindToDecide,
           FindToRun, Find, CheckReadOnly, RunBuiltIn, UnknownTool, CallTool,
           DispatchSubagent, SubChat, SubRun, SubExpires, SubIdle, gate,
           history, vars
  <2> QED BY <2>1, <2>2, <2>3
<1> QED
  BY <1>1, <1>2, TypeCorrect, PTL DEF Spec

\* The rule that decides a call whose tool is approved for the session, when
\* no rule for the turn and no pattern of the session matches it.
LEMMA SessionDecides ==
  ASSUME TypeOK, RulesInv, NEW name \in always,
         \A i \in Matching(rules, name) :
           /\ rules[i].scope # "turn"
           /\ rules[i].scope = "session" => ~rules[i].tool.star
  PROVE  EvaluateRules(rules, name) = "allow"
<1> DEFINE m == Matching(rules, name)
           rank(i) == RulePrecedence[rules[i].scope]
           F == {i \in m : \A j \in m : rank(j) <= rank(i)}
<1>1. m \subseteq DOMAIN rules /\ DOMAIN rules \subseteq Nat
  BY DEF Matching, RulesInv, Bounded
<1>2. \A i \in m : rules[i].scope \in {"session", "user"}
  BY <1>1 DEF TypeOK, Rule
<1>3. \A i \in m : /\ rank(i) \in {1, 2}
                   /\ rank(i) = 2 <=> rules[i].scope = "session"
  BY <1>2 DEF RulePrecedence
<1>4. PICK i \in DOMAIN rules : rules[i] = AllowRule(name)
  BY DEF RulesInv
<1>5. i \in m /\ rank(i) = 2
  BY <1>4 DEF Matching, MatchRule, AllowRule, Exactly, RulePrecedence
<1>6. i \in F
  BY <1>3, <1>5
<1>7. \A j \in F : j \in m /\ rank(j) = 2
  BY <1>3, <1>5
<1>8. PICK x \in F : \A y \in F : x <= y
  <2>1. F \subseteq Nat
    BY <1>1
  <2> HIDE DEF F
  <2> QED BY <2>1, <1>6, LeastExists
<1>9. Min(F) \in F
  BY <1>8 DEF Min
<1>10. rules[Min(F)].scope = "session" /\ Min(F) \in m
  BY <1>3, <1>7, <1>9
<1>11. rules[Min(F)].tool = Exactly(name)
  <2>1. PICK k \in m : k = Min(F)
    BY <1>10
  <2>2. ~rules[k].tool.star /\ MatchRule(rules[k].tool, name)
    BY <1>10, <2>1 DEF Matching
  <2>3. rules[k].tool \in [name : Seq(STRING), star : BOOLEAN]
    BY <1>1, <2>1 DEF TypeOK, Rule
  <2>4. rules[k].tool.name = name /\ rules[k].tool.star = FALSE
    BY <2>2, <2>3 DEF MatchRule
  <2> QED BY <2>1, <2>3, <2>4 DEF Exactly
<1>12. rules[Min(F)].decision = "allow"
  BY <1>1, <1>10, <1>11 DEF RulesInv
<1>13. EvaluateRules(rules, name) = rules[Min(F)].decision
  BY <1>5 DEF EvaluateRules
<1> QED
  BY <1>12, <1>13

\* AlwaysHeld: the gate neither asks about a tool approved for the session nor
\* denies it, but for a pattern or a rule for the turn (approval.go:87-106).
THEOREM AlwaysObeyed == Spec => AlwaysHeld
<1>1. ASSUME TypeOK, RulesInv, NEW c \in Calls, c.name \in always, mode = "auto",
             ShouldAutoApprove(mode, rules, c) # "yes"
      PROVE  \E i \in Matching(rules, c.name) :
               \/ rules[i].scope = "turn"
               \/ rules[i].scope = "session" /\ rules[i].tool.star
  <2>1. c.name \notin NeverAutoApprove
    BY <1>1 DEF RulesInv
  <2>2. EvaluateRules(rules, c.name) # "allow"
    BY <1>1, <2>1 DEF ShouldAutoApprove
  <2> QED BY <1>1, <2>2, SessionDecides
<1> DEFINE Held ==
      \A c \in Calls :
        c.name \in always /\ mode = "auto"
          /\ ShouldAutoApprove(mode, rules, c) # "yes" =>
            \E i \in Matching(rules, c.name) :
              rules[i].scope = "turn"
              \/ (rules[i].scope = "session" /\ rules[i].tool.star)
<1>2. TypeOK /\ RulesInv => Held
  BY <1>1
<1>3. Spec => []Held
  <2> HIDE DEF Held
  <2> QED BY <1>2, TypeCorrect, RulesInvariant, PTL
<1>4. Held /\ [Next]_vars =>
        [pc = "idle" /\ used'.calls > used.calls => Held]_vars
  OBVIOUS
<1>5. Spec => [][pc = "idle" /\ used'.calls > used.calls => Held]_vars
  <2> HIDE DEF Held
  <2> QED BY <1>3, <1>4, PTL DEF Spec
<1> QED
  BY <1>5 DEF AlwaysHeld

-----------------------------------------------------------------------------
(* What the servers say of their tools. *)

N == Len(Servers)

\* Tools their servers have, with the hints they give of them.
Honest(net_, tools) ==
  \A t \in tools :
    [name |-> t.tool, readOnly |-> t.readOnly] \in ToSet(net_[t.server])

\* The listing of these servers says of a tool that it is read-only, if it
\* lists anything.
Hinted(net_, name) ==
  \A tools : Listing(net_, tools, N) =>
    \/ tools = {}
    \/ \E t \in tools : t.name = name /\ t.readOnly

ListingsFresh ==
  \A l \in listing :
    /\ Listing(srv, asked[l].tools, Len(asked[l].answers))
    /\ Honest(srv, asked[l].tools)

\* A listing that fails leaves the old definitions; then it lists nothing.
HintsFresh ==
  pc = "check" /\ Listed /\ ~IsBuiltIn(call.name) =>
    Listing(srv, cached, N) \/ Listing(srv, {}, N)

RoutesFresh ==
  pc = "route" /\ Listed => Listing(srv, routes, N) /\ Honest(srv, routes)

HintKept ==
  /\ pc = "route" => ~IsBuiltIn(call.name)
  /\ pc \in {"run", "route"} /\ how = "readonly" /\ ~IsBuiltIn(call.name) =>
       Hinted(srv, Unprefixed(call.name))

RanReadOnly ==
  ran.how = "readonly" /\ ran.server # "builtin" =>
    [name |-> ran.tool, readOnly |-> TRUE] \in ToSet(srv[ran.server])

\* While no server has changed since the decision, all that is listed is what
\* the servers have, and the second look-up finds what the first one found.
FreshInv ==
  ~stale =>
    /\ ListingsFresh /\ HintsFresh /\ RoutesFresh /\ HintKept
    /\ RanReadOnly

\* One more server is asked: its tools are among the ones listed, as it has
\* them.
LEMMA HonestNext ==
  ASSUME NEW net_ \in [Keys -> Answers], NEW tools \in SUBSET Tools,
         NEW s \in Keys, Honest(net_, tools),
         NEW new \in AddServer(tools, s, net_[s])
  PROVE  Honest(net_, new)
<1>1. PICK answer \in Answers : answer = net_[s]
  OBVIOUS
<1>2. new \in AddServer(tools, s, answer)
  BY <1>1
<1>3. ASSUME NEW t \in new \ tools
      PROVE  /\ t.server = s
             /\ [name |-> t.tool, readOnly |-> t.readOnly] \in ToSet(answer)
  <2>1. From(s, answer, new, tools)
    BY <1>1, <1>2, AddServerSound
  <2> QED BY <2>1 DEF From
<1> QED
  BY <1>1, <1>3 DEF Honest

\* Asking a server keeps it.
LEMMA AskFresh ==
  ASSUME TypeOK, FreshInv, NEW l \in Listers, Ask(l)
  PROVE  FreshInv'
<1>1. UNCHANGED <<srv, routes, cached, listing, pc, call, how, ran, stale>>
  BY DEF Ask, turn, history
<1>2. SUFFICES ASSUME ~stale PROVE FreshInv'
  BY <1>1 DEF FreshInv
<1>3. /\ ListingsFresh /\ HintsFresh /\ RoutesFresh /\ HintKept
      /\ RanReadOnly
  BY <1>2 DEF FreshInv
<1>4. /\ HintsFresh' /\ RoutesFresh' /\ HintKept' /\ RanReadOnly'
  BY <1>1, <1>3 DEF HintsFresh, RoutesFresh, HintKept, RanReadOnly, Listed
<1>5. ListingsFresh'
  <2>1. PICK s \in Keys : \E tools :
           /\ Len(asked[l].answers) + 1 \in 1..Len(Servers)
           /\ s = Servers[Len(asked[l].answers) + 1] /\ srv[s] \in Answers
           /\ tools \in AddServer(asked[l].tools, s, srv[s])
           /\ asked' = [asked EXCEPT
                          ![l] = [tools |-> tools,
                                  answers |-> Append(asked[l].answers, srv[s])]]
           /\ asked[l].tools \in SUBSET Tools /\ asked[l].answers \in Seq(Answers)
    BY AskFacts
  <2>2. PICK old \in SUBSET Tools, answers \in Seq(Answers), n \in Nat :
          old = asked[l].tools /\ answers = asked[l].answers /\ n = Len(answers)
    <3>1. PICK answers \in Seq(Answers) : answers = asked[l].answers
      BY <2>1
    <3>2. Len(answers) \in Nat
      BY <3>1, LenProperties
    <3> QED BY <2>1, <3>1, <3>2
  <2>3. PICK net_ \in [Keys -> Answers] : net_ = srv
    BY DEF TypeOK
  <2>4. PICK tools :
          /\ tools \in AddServer(old, s, net_[s])
          /\ asked' = [asked EXCEPT
                         ![l] = [tools |-> tools,
                                 answers |-> Append(answers, net_[s])]]
    BY <2>1, <2>2, <2>3
  <2>5. s = Servers[n + 1] /\ net_[s] \in Answers
    BY <2>1, <2>2, <2>3
  <2>6. l \in listing
    BY DEF Ask
  <2>7. Listing(net_, old, n) /\ Honest(net_, old)
    BY <1>3, <2>2, <2>3, <2>6 DEF ListingsFresh
  <2>8. Listing(net_, tools, n + 1)
    BY <2>4, <2>5, <2>7, ListingStep
  <2>9. Honest(net_, tools)
    BY <2>4, <2>7, HonestNext
  <2>10. Len(Append(answers, net_[s])) = n + 1
    BY <2>2, <2>5
  <2>11. asked'[l].tools = tools /\ Len(asked'[l].answers) = n + 1
    BY <2>4, <2>10 DEF TypeOK
  <2>12. \A k \in Listers \ {l} : asked'[k] = asked[k]
    BY <2>4 DEF TypeOK
  <2>13. listing \subseteq Listers /\ srv' = net_
    BY <1>1, <2>3 DEF TypeOK
  <2>14. ASSUME NEW k \in listing'
         PROVE  /\ Listing(srv', asked'[k].tools, Len(asked'[k].answers))
                /\ Honest(srv', asked'[k].tools)
    <3>1. CASE k = l
      BY <2>8, <2>9, <2>11, <2>13, <3>1
    <3>2. CASE k # l
      <4>1. k \in listing /\ asked'[k] = asked[k]
        BY <1>1, <2>12, <2>13, <2>14, <3>2
      <4> QED BY <1>1, <1>3, <4>1 DEF ListingsFresh
    <3> QED BY <3>1, <3>2
  <2> QED BY <2>14 DEF ListingsFresh
<1> QED
  BY <1>4, <1>5 DEF FreshInv

\* What is published is what was listed.
LEMMA PublishFresh ==
  ASSUME TypeOK, FreshInv, NEW l \in Listers, Publish(l)
  PROVE  FreshInv'
<1>1. /\ l \in listing /\ listing' = listing \ {l}
      /\ routes' = asked[l].tools /\ Len(asked[l].answers) = N
      /\ cached' = IF l = "turn" /\ ~ListFails(asked[l].tools, asked[l].answers)
                   THEN asked[l].tools ELSE cached
      /\ UNCHANGED <<srv, pc, call, how, ran, stale>>
  BY DEF Publish, turn, N
<1>2. SUFFICES ASSUME ~stale PROVE FreshInv'
  BY <1>1 DEF FreshInv
<1>3. /\ ListingsFresh /\ HintsFresh /\ RoutesFresh /\ HintKept
      /\ RanReadOnly
  BY <1>2 DEF FreshInv
<1>4. Listing(srv, asked[l].tools, N) /\ Honest(srv, asked[l].tools)
  BY <1>1, <1>3 DEF ListingsFresh
<1>5. ListingsFresh'
  <2>1. \A k \in listing' : k \in listing /\ asked'[k] = asked[k]
    BY <1>1 DEF Publish, TypeOK
  <2> QED BY <1>1, <1>3, <2>1 DEF ListingsFresh
<1>6. HintsFresh'
  <2>1. CASE l = "turn" /\ ~ListFails(asked[l].tools, asked[l].answers)
    BY <1>1, <1>4, <2>1 DEF HintsFresh
  <2>2. CASE l = "turn" /\ ListFails(asked[l].tools, asked[l].answers)
    BY <1>1, <1>4, <2>2 DEF HintsFresh, ListFails
  <2>3. CASE l # "turn"
    BY <1>1, <1>3, <2>3 DEF HintsFresh, Listed
  <2> QED BY <2>1, <2>2, <2>3
<1>7. RoutesFresh'
  BY <1>1, <1>4 DEF RoutesFresh
<1>8. HintKept' /\ RanReadOnly'
  BY <1>1, <1>3 DEF HintKept, RanReadOnly
<1> QED
  BY <1>5, <1>6, <1>7, <1>8 DEF FreshInv

\* A lister that starts afresh has listed nothing.
LEMMA ListsFresh ==
  ASSUME TypeOK, ListingsFresh, NEW l \in Listers, Lists(l), UNCHANGED srv
  PROVE  ListingsFresh'
<1>1. /\ listing' = listing \cup {l} /\ asked'[l] = NotAsked
      /\ \A k \in Listers \ {l} : asked'[k] = asked[k]
  BY ListsType DEF Lists
<1>2. NotAsked.tools = {} /\ Len(NotAsked.answers) = 0
  BY DEF NotAsked
<1>3. PICK net_ : net_ = srv
  OBVIOUS
<1>4. Listing(net_, {}, 0) /\ Honest(net_, {})
  BY ListingStart DEF Honest
<1>5. ASSUME NEW k \in listing'
      PROVE  /\ Listing(srv', asked'[k].tools, Len(asked'[k].answers))
             /\ Honest(srv', asked'[k].tools)
  <2>1. CASE k = l
    BY <1>1, <1>2, <1>3, <1>4, <2>1
  <2>2. CASE k # l
    <3>1. k \in listing /\ asked'[k] = asked[k]
      BY <1>1, <1>5, <2>2 DEF TypeOK
    <3> QED BY <3>1 DEF ListingsFresh
  <2> QED BY <2>1, <2>2
<1> QED
  BY <1>5 DEF ListingsFresh

\* Looking a tool up lists the tools; the user's command does too.
LEMMA FindFresh ==
  ASSUME TypeOK, FreshInv, FindToDecide \/ FindToRun \/ UserLists
  PROVE  FreshInv'
<1>1. UNCHANGED <<srv, routes, cached, call, how, ran, stale>>
  BY DEF FindToDecide, FindToRun, UserLists, Find, To, turn, history
<1>2. SUFFICES ASSUME ~stale PROVE FreshInv'
  BY <1>1 DEF FreshInv
<1>3. /\ ListingsFresh /\ HintsFresh /\ RoutesFresh /\ HintKept
      /\ RanReadOnly
  BY <1>2 DEF FreshInv
<1>4. ListingsFresh'
  <2>1. Lists("turn") \/ Lists("user") \/ UNCHANGED <<asked, listing>>
    BY DEF FindToDecide, FindToRun, UserLists, Find
  <2>2. CASE Lists("turn")
    BY <1>1, <1>3, <2>2, ListsFresh DEF Listers
  <2>3. CASE Lists("user")
    BY <1>1, <1>3, <2>3, ListsFresh DEF Listers
  <2>4. CASE UNCHANGED <<asked, listing>>
    BY <1>1, <1>3, <2>4 DEF ListingsFresh
  <2> QED BY <2>1, <2>2, <2>3, <2>4
<1>5. HintsFresh' /\ RoutesFresh'
  <2>1. CASE FindToDecide
    <3>1. pc' = "check" /\ (IsBuiltIn(call.name) \/ "turn" \in listing')
      BY <2>1 DEF FindToDecide, Find, To, Lists
    <3> QED BY <1>1, <3>1 DEF HintsFresh, RoutesFresh, Listed
  <2>2. CASE FindToRun
    <3>1. pc' = "route" /\ "turn" \in listing'
      BY <2>2 DEF FindToRun, Find, To, Lists
    <3> QED BY <1>1, <3>1 DEF HintsFresh, RoutesFresh, Listed
  <2>3. CASE UserLists
    <3>1. pc' = pc /\ ("turn" \in listing' <=> "turn" \in listing)
      BY <2>3 DEF UserLists, Lists, turn
    <3> QED BY <1>1, <1>3, <3>1 DEF HintsFresh, RoutesFresh, Listed
  <2> QED BY <2>1, <2>2, <2>3
<1>6. HintKept'
  <2>1. /\ pc' \in {"run", "route"} => pc \in {"run", "route"}
        /\ pc' = "route" => pc = "route" \/ ~IsBuiltIn(call.name)
    BY DEF FindToDecide, FindToRun, UserLists, Find, To, turn
  <2> QED BY <1>1, <1>3, <2>1 DEF HintKept
<1>7. RanReadOnly'
  BY <1>1, <1>3 DEF RanReadOnly
<1> QED
  BY <1>4, <1>5, <1>6, <1>7 DEF FreshInv

\* A call that is approved for being read-only has the servers' hint.
LEMMA CheckFresh ==
  ASSUME TypeOK, FreshInv, CheckReadOnly
  PROVE  FreshInv'
<1>1. UNCHANGED <<srv, routes, cached, asked, listing, call, ran, stale>>
  BY DEF CheckReadOnly, Approve, To, net, history
<1>2. SUFFICES ASSUME ~stale PROVE FreshInv'
  BY <1>1 DEF FreshInv
<1>3. /\ ListingsFresh /\ HintsFresh /\ RanReadOnly
  BY <1>2 DEF FreshInv
<1>4. pc' \in {"run", "ask"} /\ pc = "check" /\ Listed
  BY DEF CheckReadOnly, Approve, To
<1>5. ListingsFresh' /\ HintsFresh' /\ RoutesFresh' /\ RanReadOnly'
  BY <1>1, <1>3, <1>4 DEF ListingsFresh, HintsFresh, RoutesFresh, RanReadOnly
<1>6. HintKept'
  <2>1. SUFFICES ASSUME pc' = "run", ~IsBuiltIn(call.name)
                 PROVE  Hinted(srv, Unprefixed(call.name))
    BY <1>1, <1>4 DEF HintKept
  <2>2. Hint(Unprefixed(call.name))
    BY <2>1 DEF CheckReadOnly, IsReadOnly, To
  <2>3. PICK t \in cached : t.name = Unprefixed(call.name) /\ t.readOnly
    BY <2>2 DEF Hint, Named
  <2>4. PICK net_ \in [Keys -> Answers] : net_ = srv
    BY DEF TypeOK
  <2>5. PICK n \in 0..Len(Servers) : n = N
    <3>1. Len(Servers) \in Nat
      OBVIOUS
    <3> QED BY <3>1 DEF N
  <2>6. Listing(net_, cached, n) \/ Listing(net_, {}, n)
    BY <1>3, <1>4, <2>1, <2>4, <2>5 DEF HintsFresh
  <2>7. ASSUME NEW tools, Listing(net_, tools, n)
        PROVE  tools = cached \/ tools = {}
    <3>1. PICK old : old = cached
      OBVIOUS
    <3> QED BY <2>6, <2>7, <3>1, ListingOne
  <2> QED BY <2>3, <2>4, <2>5, <2>7 DEF Hinted
<1> QED
  BY <1>5, <1>6 DEF FreshInv

\* The server that is called is the one the hint was of.
LEMMA CallFresh ==
  ASSUME TypeOK, RoutesInv, FreshInv, CallTool
  PROVE  FreshInv'
<1>1. UNCHANGED <<srv, routes, cached, asked, listing, stale>>
  BY DEF CallTool, net
<1>2. SUFFICES ASSUME ~stale PROVE FreshInv'
  BY <1>1 DEF FreshInv
<1>3. /\ ListingsFresh /\ RoutesFresh /\ HintKept /\ RanReadOnly
  BY <1>2 DEF FreshInv
<1>4. pc' = "idle" /\ pc = "route" /\ Listed
  BY DEF CallTool, Over
<1>5. ListingsFresh' /\ HintsFresh' /\ RoutesFresh' /\ HintKept'
  BY <1>1, <1>3, <1>4 DEF ListingsFresh, HintsFresh, RoutesFresh, HintKept
<1>6. RanReadOnly'
  <2>1. CASE UNCHANGED ran
    BY <1>1, <1>3, <2>1 DEF RanReadOnly
  <2>2. CASE ~UNCHANGED ran
    <3>1. PICK t \in routes :
            t.name = Unprefixed(call.name) /\ ran' = AskFor(t, how)
      BY <2>2 DEF CallTool, Named
    <3>2. ran'.how = how /\ ran'.server = t.server /\ ran'.tool = t.tool
      BY <3>1 DEF AskFor
    <3>3. SUFFICES ASSUME how = "readonly"
                   PROVE  [name |-> t.tool, readOnly |-> TRUE]
                            \in ToSet(srv[t.server])
      BY <1>1, <3>2 DEF RanReadOnly
    <3>4. Listing(srv, routes, N) /\ Honest(srv, routes)
      BY <1>3, <1>4 DEF RoutesFresh
    <3>5. Hinted(srv, Unprefixed(call.name))
      BY <1>3, <1>4, <3>3 DEF HintKept
    <3>6. PICK u \in routes : u.name = Unprefixed(call.name) /\ u.readOnly
      BY <3>1, <3>4, <3>5 DEF Hinted
    <3>7. u = t
      BY <3>1, <3>6 DEF RoutesInv, Routed, Distinct
    <3>8. t.readOnly \in BOOLEAN
      BY DEF TypeOK, Tools
    <3>9. t.readOnly = TRUE
      BY <3>6, <3>7, <3>8
    <3> QED BY <3>4, <3>9 DEF Honest
  <2> QED BY <2>1, <2>2
<1> QED
  BY <1>5, <1>6 DEF FreshInv

\* A decision starts the memory anew, when no listing runs.
LEMMA DecideFresh ==
  ASSUME TypeOK, NEW c \in Calls, Decide(c)
  PROVE  FreshInv'
<1>1. SUFFICES ASSUME ~stale' PROVE FreshInv'
  BY DEF FreshInv
<1>2. listing' = {} /\ ran'.how = "none"
  BY <1>1 DEF Decide, net, Nothing
<1>3. pc' \notin {"check", "route"} /\ how' # "readonly"
  BY DecideFacts
<1>4. ListingsFresh' /\ RanReadOnly'
  BY <1>2 DEF ListingsFresh, RanReadOnly
<1>5. HintsFresh' /\ RoutesFresh' /\ HintKept'
  BY <1>3 DEF HintsFresh, RoutesFresh, HintKept
<1> QED
  BY <1>4, <1>5 DEF FreshInv

\* The other steps of the turn, its subagents and the user look nothing up.
LEMMA OtherFresh ==
  ASSUME TypeOK, FreshInv,
         \/ RunBuiltIn \/ UnknownTool
         \/ DispatchSubagent \/ SubChat \/ SubRun
         \/ \E d \in 1..MaxDepth : SubExpires(d)
         \/ \E d \in {"no", "yes", "always"} : UserAnswers(d)
         \/ \E m \in Modes : UserSwitches(m)
         \/ SetMode
         \/ UNCHANGED vars
  PROVE  FreshInv'
<1>1. /\ UNCHANGED <<srv, routes, cached, asked, listing, stale>>
      /\ ran' = ran \/ ran'.server = "builtin"
      /\ \/ UNCHANGED <<pc, call, how>>
         \/ pc' \in {"idle", "sub"}
         \/ pc' = "run" /\ how' = "user"
  <2>1. CASE RunBuiltIn \/ UnknownTool
    BY <2>1 DEF RunBuiltIn, UnknownTool, Over, net, history
  <2>2. CASE DispatchSubagent \/ SubChat \/ SubRun
               \/ \E d \in 1..MaxDepth : SubExpires(d)
    BY <2>2 DEF DispatchSubagent, SubChat, SubRun, SubExpires, SubReturns,
                SubIdle, net, history
  <2>3. CASE \E d \in {"no", "yes", "always"} : UserAnswers(d)
    BY <2>3 DEF UserAnswers, Approve, Over, net
  <2>4. CASE (\E m \in Modes : UserSwitches(m)) \/ SetMode \/ UNCHANGED vars
    BY <2>4 DEF UserSwitches, SetMode, vars, net, turn, history
  <2> QED BY <2>1, <2>2, <2>3, <2>4
<1>2. SUFFICES ASSUME ~stale PROVE FreshInv'
  BY <1>1 DEF FreshInv
<1>3. /\ ListingsFresh /\ HintsFresh /\ RoutesFresh /\ HintKept
      /\ RanReadOnly
  BY <1>2 DEF FreshInv
<1>4. ListingsFresh' /\ RanReadOnly'
  BY <1>1, <1>3 DEF ListingsFresh, RanReadOnly
<1>5. HintsFresh'
  BY <1>1, <1>3 DEF HintsFresh, Listed
<1>6. RoutesFresh'
  BY <1>1, <1>3 DEF RoutesFresh, Listed
<1>7. HintKept'
  BY <1>1, <1>3 DEF HintKept
<1> QED
  BY <1>4, <1>5, <1>6, <1>7 DEF FreshInv

\* FreshInv is an invariant.
LEMMA FreshInvariant == Spec => []FreshInv
<1>1. ASSUME Init PROVE FreshInv
  <2>1. /\ listing = {} /\ ran.how = "none" /\ pc = "idle" /\ how = "none"
    BY <1>1 DEF Init, Nothing
  <2>2. ListingsFresh /\ RanReadOnly
    BY <2>1 DEF ListingsFresh, RanReadOnly
  <2>3. HintsFresh /\ RoutesFresh /\ HintKept
    BY <2>1 DEF HintsFresh, RoutesFresh, HintKept
  <2> QED BY <2>2, <2>3 DEF FreshInv
<1>2. ASSUME TypeOK, RoutesInv, FreshInv, [Next]_vars
      PROVE  FreshInv'
  <2>1. CASE \E s \in Keys : ServerChanges(s)
    BY <2>1 DEF ServerChanges, FreshInv
  <2>2. CASE \E l \in Listers : Ask(l) \/ Publish(l)
    BY <1>2, <2>2, AskFresh, PublishFresh
  <2>3. CASE UserLists \/ FindToDecide \/ FindToRun
    BY <1>2, <2>3, FindFresh
  <2>4. CASE \E c \in Calls : Decide(c)
    BY <1>2, <2>4, DecideFresh
  <2>5. CASE CheckReadOnly
    BY <1>2, <2>5, CheckFresh
  <2>6. CASE CallTool
    BY <1>2, <2>6, CallFresh
  <2>7. CASE \/ RunBuiltIn \/ UnknownTool
             \/ DispatchSubagent \/ SubChat \/ SubRun
             \/ \E d \in 1..MaxDepth : SubExpires(d)
             \/ \E d \in {"no", "yes", "always"} : UserAnswers(d)
             \/ \E m \in Modes : UserSwitches(m)
             \/ SetMode
             \/ UNCHANGED vars
    BY <1>2, <2>7, OtherFresh
  <2> QED
    BY <1>2, <2>1, <2>2, <2>3, <2>4, <2>5, <2>6, <2>7, NextSteps
       DEF NetStep, TurnSteps, TurnStep
<1> QED
  BY <1>1, <1>2, TypeCorrect, RoutesInvariant, PTL DEF Spec

\* ReadOnlyHeld: a call approved for being read-only reaches a tool its server
\* calls read-only, although the tool is looked up twice and others list the
\* tools meanwhile, unless a server changes (approval.go:186, composite_tools.go).
THEOREM ReadOnlyReached == Spec => []ReadOnlyHeld
<1>1. FreshInv => ReadOnlyHeld
  BY DEF FreshInv, RanReadOnly, ReadOnlyHeld
<1> QED
  BY <1>1, FreshInvariant, PTL

=============================================================================
