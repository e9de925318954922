---------------------------- MODULE ApprovalGate ----------------------------
(***************************************************************************)
(* Which tool calls run without asking the user                            *)
(* (src/internal/core/approval.go and risk.go).  The module has no state:  *)
(* the mode and the rules are variables of ToolGate, which uses it.  The   *)
(* rules are a function of their places in the list.                       *)
(*                                                                         *)
(* A tool's name is the sequence of the words its "_" separates where a    *)
(* server's key or "mcp" was put in front of it, so that prefixing is      *)
(* concatenation: "mcp_b_x" is <<"mcp", "b", "x">>.                        *)
(***************************************************************************)
EXTENDS Integers, Sequences, SequencesExt, FiniteSetsExt

CONSTANTS
    AutoApprove,   \* names config.Behavior.AutoApprove lists
    RiskRules,     \* the configured risk rules, in order
    RiskThreshold  \* calls riskier than this are asked about

Modes == {"manual", "auto", "yolo"}

\* Tools that are never approved by configuration.
NeverAutoApprove ==
    {<<"shell">>, <<"write_file">>, <<"str_replace_file">>, <<"edit">>}

\* A rule names one tool, or every tool whose name begins so: "mcp_*".
Exactly(name) == [name |-> name, star |-> FALSE]
Beginning(name) == [name |-> name, star |-> TRUE]

MatchRule(pattern, name) ==
    \/ pattern.name = name
    \/ pattern.star /\ IsPrefix(pattern.name, name)

Rule ==
    [tool : [name : Seq(STRING), star : BOOLEAN],
     decision : {"allow", "deny", "ask"}, scope : {"turn", "session", "user"}]

RulePrecedence == [turn |-> 3, session |-> 2, user |-> 1]

Matching(rules, name) ==
    {i \in DOMAIN rules : MatchRule(rules[i].tool, name)}

\* The first of the matching rules of the highest precedence decides.
EvaluateRules(rules, name) ==
    LET m == Matching(rules, name)
        rank(i) == RulePrecedence[rules[i].scope]
    IN  IF m = {} THEN "none"
        ELSE rules[Min({i \in m : \A j \in m : rank(j) <= rank(i)})].decision

AllowRule(name) ==
    [tool |-> Exactly(name), decision |-> "allow", scope |-> "session"]

\* The kept rules in their order, and one after them.
Followed(rules, kept, new) ==
    LET last == 1 + Max({0} \cup kept)
    IN  [i \in kept \cup {last} |-> IF i = last THEN new ELSE rules[i]]

\* Mutant: the rules the user's choice replaces stay in the list.
AddAutoApproveKeeps(rules, name) ==
    Followed(rules, DOMAIN rules, AllowRule(name))

AddAutoApprove(rules, name) ==
    Followed(rules, {i \in DOMAIN rules : ~ (rules[i].tool = Exactly(name)
                                            /\ rules[i].scope = "session")},
             AllowRule(name))
-----------------------------------------------------------------------------
RiskRank == [low |-> 1, medium |-> 2, high |-> 3]

LowRisk ==
    {<<"read_file">>, <<"glob">>, <<"grep">>, <<"fetch_url">>,
     <<"web_search">>, <<"list_directory">>, <<"TodoList">>,
     <<"read_video">>}

BaselineRisk(name) ==
    IF name \in LowRisk THEN "low"
    ELSE IF name = <<"shell">> THEN "high" ELSE "medium"

\* A call's path is "none", "inside" the sandbox or "outside" of it; a rule
\* that names a path lists the ones its pattern matches.
RuleApplies(rule, call) ==
    MatchRule(rule.tool, call.name) /\ call.path \in rule.paths

\* Evaluate: the last rule that applies overrides the baseline, and a path
\* that escapes overrides every rule.  Arguments that cannot be parsed have
\* no path and meet no rule.
Evaluate(call) ==
    LET m == {i \in DOMAIN RiskRules : RuleApplies(RiskRules[i], call)}
    IN  IF ~call.parses THEN BaselineRisk(call.name)
        ELSE IF call.path = "outside" THEN "high"
        ELSE IF m # {} THEN RiskRules[Max(m)].level
        ELSE BaselineRisk(call.name)

TooRisky(call) == RiskRank[Evaluate(call)] > RiskRank[RiskThreshold]

\* ShouldAutoApprove up to its last test: "check" is a tool the configuration
\* lists, approved if it is read-only.
ShouldAutoApprove(mode, rules, call) ==
    LET rule == EvaluateRules(rules, call.name)
    IN  IF mode = "yolo" THEN "yes"
        ELSE IF mode = "manual" \/ call.name \in NeverAutoApprove THEN "ask"
        ELSE IF rule = "allow" THEN "yes"
        ELSE IF rule = "deny" THEN "no"
        ELSE IF rule = "ask" \/ TooRisky(call)
                \/ call.name \notin AutoApprove THEN "ask"
        ELSE "check"
=============================================================================
