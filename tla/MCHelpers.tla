------------------------------- MODULE MCHelpers -------------------------------
(***************************************************************************)
(* An instance for TLC of the four modules about what a host does around a *)
(* transport: it builds the CLI's invocation, decides its tool calls,      *)
(* tracks its activity and checks its messages.  They share no state: a    *)
(* behaviour is one of one.                                                *)
(***************************************************************************)
EXTENDS Permissions, Activity, Config, Schema

CONSTANTS x, y, read

ShortNames == {<<"a">>, <<"a", "b">>}
RootAndA == {<<>>, <<<<"a">>>>}
OnlyA == {<<<<"a">>>>}
InA == <<<<"a">>>>
TwoQuestions == {"continue?", "your name?"}
TwoKeys == <<"name", "your">>
TheirMentions == {<<"name", "your name?">>, <<"your", "your name?">>}

Policy(kind, tools) == [kind |-> kind, tools |-> tools]
AllPolicies ==
    {Policy(k, {}) : k \in {"cwd", "approve", "answer", "ask user",
                            "ask plan"}}
    \union {Policy("block", {"Bash"}), Policy("allow", {"Edit"})}

\* An empty text, a plain one and one that looks like an option.
SomeTexts == {<<>>, <<"sonnet">>, <<"--verbose">>}
OneServer == {"shared"}
TwoDefinitions == {"node", "sdk"}
SomeEnvironments ==
    [HOME : {"unset", "text", "not unicode"}, LANG : {"text"},
     CLAUDECODE : {"text"}, CLAUDE_CODE_ENTRYPOINT : {"unset", "text"}]

vars == <<policyVars, activityVars, configVars, schemaVars>>

Init == PolicyInit /\ ActivityInit /\ ConfigInit /\ SchemaInit

NoPolicy   == at = "start"
NoActivity == activity.turns = 0
NoConfig   == fieldsSet = 0 /\ invocation = NotBuilt
NoSchema   == direction = "none"

Next ==
    \/ NoActivity /\ NoConfig /\ NoSchema /\ PolicyNext
         /\ UNCHANGED <<activityVars, configVars, schemaVars>>
    \/ NoPolicy /\ NoConfig /\ NoSchema /\ ActivityNext
         /\ UNCHANGED <<policyVars, configVars, schemaVars>>
    \/ NoPolicy /\ NoActivity /\ NoSchema /\ ConfigNext
         /\ UNCHANGED <<policyVars, activityVars, schemaVars>>
    \/ NoPolicy /\ NoActivity /\ NoConfig /\ SchemaNext
         /\ UNCHANGED <<policyVars, activityVars, configVars>>

Spec == Init /\ [][Next]_vars
=============================================================================
