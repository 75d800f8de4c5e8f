------------------------------ MODULE Permissions ------------------------------
(***************************************************************************)
(* py/claudewire/permissions.py: the policies, the chain compose() makes   *)
(* of them, and the control_response that BridgeTransport sends for its    *)
(* decision.                                                               *)
(*                                                                         *)
(* A policy answers allow, deny or nothing.  Those that route a tool to a  *)
(* host's handler await it, so the chain is walked one policy at a time.   *)
(* A tool call is its tool, the path or the questions in its input, and    *)
(* the answers added to that input.                                        *)
(***************************************************************************)
EXTENDS Integers, Sequences, FiniteSets, SequencesExt

CONSTANTS
    Components,      \* names of directories and files: sequences of letters
    MaxDepth,        \* bound: components in a path
    Bases,           \* the resolved allowed_paths of cwd_policy
    HostDir,         \* where an empty path resolves to: the host's own cwd
    Questions,       \* what AskUserQuestion can ask
    Patterns,        \* the keys of auto_answer's map, in its order
    Mentions,        \* the pairs of a pattern and a question that contains it
    Policies,        \* the policies a host composes
    MaxChain         \* bound: policies in a chain

Sep == "/"
Paths == BoundedSeq(Components, MaxDepth)
NoPath == <<<<Sep>>>>  \* not a path: no component holds a separator
WriteTool == "Edit"  \* any of _WRITE_TOOLS
Tools == {WriteTool, "Bash", "ExitPlanMode", "AskUserQuestion"}

ASSUME ComponentsAssumption ==
    \A c \in Components :
        c \in Seq(ToSet(c)) /\ c # <<>> /\ \A i \in DOMAIN c : c[i] # Sep
ASSUME PathsAssumption ==
    MaxDepth \in Nat /\ Bases \subseteq Paths /\ HostDir \in Paths
ASSUME PatternsAssumption == Patterns \in Seq(ToSet(Patterns))
ASSUME PoliciesAssumption ==
    /\ MaxChain \in Nat
    /\ \A p \in Policies :
         /\ p.kind \in {"cwd", "block", "allow", "approve", "answer",
                        "ask user", "ask plan"}
         /\ p.tools \subseteq Tools

VARIABLES
    chain,           \* the composed policies
    at,              \* where the composed policy is
    next,            \* the policy of the chain it looks at
    call,            \* the tool call it decides
    result,          \* its decision
    response,        \* the control_response sent
    said             \* history: what the policies asked so far answered

policyVars == <<chain, at, next, call, result, response, said>>

-----------------------------------------------------------------------------
(* Results.                                                                *)

Answers  == UNION {[Q -> 1..Len(Patterns)] : Q \in SUBSET Questions}
ToolCall == [tool : Tools, path : Paths \union {NoPath},
             questions : SUBSET Questions, answers : Answers]
NoAnswers == [q \in {} |-> 0]
NoCall  == [tool |-> "Bash", path |-> NoPath, questions |-> {},
            answers |-> NoAnswers]
NoInput == [NoCall EXCEPT !.tool = "none"]

Opinion(behavior, input) == [behavior |-> behavior, input |-> input]
NoOpinion == Opinion("none", NoInput)
Deny      == Opinion("deny", NoInput)
Allow     == Opinion("allow", NoInput)

\* The tool calls of the CLI.
Calls ==
    {[NoCall EXCEPT !.tool = WriteTool, !.path = p] :
        p \in Paths \union {NoPath}}
    \union {[NoCall EXCEPT !.tool = t] : t \in Tools \ {WriteTool}}
    \union {[NoCall EXCEPT !.tool = "AskUserQuestion", !.questions = Q] :
              Q \in SUBSET Questions}

\* What a handler puts in updated_input: answers, a changed input, or one that
\* has nothing to do with the call.
HandlerInputs == {[c EXCEPT !.answers = a] : c \in Calls, a \in Answers}

-----------------------------------------------------------------------------
(* cwd_policy compares strings.                                            *)

\* The text of a resolved path: "/" is the root, and elsewhere a separator
\* goes before each component.
PathText(path) ==
    IF path = <<>> THEN <<Sep>>
    ELSE FlattenSeq([i \in DOMAIN path |-> <<Sep>> \o path[i]])

\* Mutant: no separator after the base.
InBaseLoosely(base, real) ==
    IsPrefix(PathText(base), PathText(real))

InBase(base, real) ==
    real = base \/ IsPrefix(PathText(base) \o <<Sep>>, PathText(real))

RealPath(path) == IF path = NoPath THEN HostDir ELSE path

CwdPolicy(c) ==
    IF c.tool # WriteTool THEN NoOpinion
    ELSE IF \E base \in Bases : InBase(base, RealPath(c.path)) THEN Allow
    ELSE Deny

\* auto_answer: the first key that matches, for every question or for none.
Matching(q) == {i \in DOMAIN Patterns : <<Patterns[i], q>> \in Mentions}

AutoAnswer(c) ==
    IF c.tool # "AskUserQuestion" \/ \E q \in c.questions : Matching(q) = {}
    THEN NoOpinion
    ELSE Opinion("allow", [c EXCEPT !.answers =
           [q \in c.questions |->
              CHOOSE i \in Matching(q) : \A j \in Matching(q) : i <= j]])

\* The policies that do not wait.
Sync(p, c) ==
    CASE p.kind = "cwd"     -> CwdPolicy(c)
      [] p.kind = "block"   -> IF c.tool \in p.tools THEN Deny ELSE NoOpinion
      [] p.kind = "allow"   -> IF c.tool \in p.tools THEN Allow ELSE NoOpinion
      [] p.kind = "approve" ->
           IF c.tool = "ExitPlanMode" THEN Allow ELSE NoOpinion
      [] p.kind = "answer"  -> AutoAnswer(c)
      [] OTHER              -> NoOpinion

\* The policies that hand this tool to a handler of the host.
Awaits(p, c) ==
    \/ p.kind = "ask user" /\ c.tool = "AskUserQuestion"
    \/ p.kind = "ask plan" /\ c.tool = "ExitPlanMode"

-----------------------------------------------------------------------------
PolicyInit ==
    /\ chain = <<>> /\ at = "start" /\ next = 0 /\ said = <<>>
    /\ call = NoCall /\ result = NoOpinion /\ response = NoOpinion

Compose(c) ==
    /\ at = "start"
    /\ chain' = c
    /\ at' = "ready"
    /\ UNCHANGED <<next, call, result, response, said>>

CanUseTool(c) ==
    /\ at = "ready"
    /\ call' = c
    /\ at' = "checking" /\ next' = 1
    /\ result' = NoOpinion /\ response' = NoOpinion /\ said' = <<>>
    /\ UNCHANGED chain

\* Mutant: an answer does not end the loop.
ConcludeLast(o) ==
    /\ said' = Append(said, o)
    /\ at' = "checking" /\ next' = next + 1
    /\ result' = IF o = NoOpinion THEN result ELSE o
    /\ UNCHANGED <<chain, call, response>>

\* The loop goes on after no opinion, and ends with any other.
Conclude(o) ==
    /\ said' = Append(said, o)
    /\ IF o = NoOpinion
       THEN at' = "checking" /\ next' = next + 1 /\ UNCHANGED result
       ELSE at' = "decided" /\ result' = o /\ UNCHANGED next
    /\ UNCHANGED <<chain, call, response>>

Check ==
    /\ at = "checking" /\ next <= Len(chain)
    /\ ~Awaits(chain[next], call)
    /\ Conclude(Sync(chain[next], call))

Ask ==
    /\ at = "checking" /\ next <= Len(chain)
    /\ Awaits(chain[next], call)
    /\ at' = "awaiting"
    /\ UNCHANGED <<chain, next, call, result, response, said>>

\* A handler may answer anything, or raise: then nothing is answered.
HandlerReturns ==
    /\ at = "awaiting"
    /\ \/ \E o \in {NoOpinion, Deny, Allow} : Conclude(o)
       \/ \E i \in HandlerInputs : Conclude(Opinion("allow", i))

HandlerRaises ==
    /\ at = "awaiting"
    /\ at' = "ready"
    /\ UNCHANGED <<chain, next, call, result, response, said>>

\* Mutant: a chain without an opinion returns None.
NobodyObjectsNone ==
    /\ at = "checking" /\ next > Len(chain)
    /\ at' = "decided"
    /\ UNCHANGED <<chain, next, call, result, response, said>>

\* All policies returned None.
NobodyObjects ==
    /\ at = "checking" /\ next > Len(chain)
    /\ at' = "decided" /\ result' = Allow
    /\ UNCHANGED <<chain, next, call, response, said>>

\* Mutant: the input of the call is not filled in.
WithoutInput(o, c) == o

\* _handle_can_use_tool: an allow without an input gets the call's own.
WithInput(o, c) ==
    IF o.behavior = "allow" /\ o.input = NoInput THEN Opinion("allow", c)
    ELSE o

Respond ==
    /\ at = "decided"
    /\ at' = "ready"
    /\ response' = WithInput(result, call)
    /\ UNCHANGED <<chain, next, call, result, said>>

Chains == BoundedSeq(Policies, MaxChain)

PolicyNext ==
    \/ \E c \in Chains : Compose(c)
    \/ \E c \in Calls : CanUseTool(c)
    \/ Check
    \/ Ask
    \/ HandlerReturns
    \/ HandlerRaises
    \/ NobodyObjects
    \/ Respond

PolicySpec == PolicyInit /\ [][PolicyNext]_policyVars

-----------------------------------------------------------------------------
(* Properties.                                                             *)

Opinions == [behavior : {"none", "allow", "deny"},
             input : ToolCall \union {NoInput}]

\* The type invariant; what is decided is an allow or a deny.
PolicyTypeOK ==
    /\ chain \in Seq(Policies)
    /\ at \in {"start", "ready", "checking", "awaiting", "decided"}
    /\ next \in 0..Len(chain) + 1
    /\ call \in ToolCall
    /\ result \in Opinions /\ response \in Opinions
    /\ said \in Seq(Opinions)
    /\ at = "decided" => result.behavior # "none"

\* The first policy with an opinion decides, handlers included; no policy
\* after it is asked (a handler would bother the user), and the default is
\* reached only when every policy was asked.
FirstOpinionWins ==
    /\ \A i \in 1..Len(said) - 1 : said[i] = NoOpinion
    /\ at = "decided" =>
         \/ said # <<>> /\ Last(said) # NoOpinion /\ result = Last(said)
         \/ /\ \A i \in DOMAIN said : said[i] = NoOpinion
            /\ Len(said) = Len(chain) /\ result = Allow

\* cwd_policy, once the policies ahead of it have passed, decides this write.
CwdDecides ==
    /\ call.tool = WriteTool /\ said # <<>> /\ at = "decided"
    /\ chain[Len(said)].kind = "cwd"
BeneathSomeBase == \E base \in Bases : IsPrefix(base, RealPath(call.path))

\* The comparison of strings follows the tree of directories: no write
\* outside the bases is allowed, not even in a directory whose name begins
\* like a base's.
WritesStayInside ==
    CwdDecides /\ result.behavior = "allow" => BeneathSomeBase

\* Every allow that is sent carries an input, which the CLI insists on: what
\* the policy that decided put there, else that of the call it answers, not of
\* an earlier one.  Only a host's handler changes more of it than the answers.
Given == said # <<>> /\ Last(said).input # NoInput
AllowCarriesInput ==
    response.behavior = "allow" =>
        /\ response.input = IF Given THEN Last(said).input ELSE call
        /\ \/ [response.input EXCEPT !.answers = call.answers] = call
           \/ said # <<>> /\ Awaits(chain[Len(said)], call)

-----------------------------------------------------------------------------
(* What the documentation says, and the code does not do.                  *)

\* permissions.py:64: cwd_policy allows writes inside the allowed paths.
InsideIsAllowed ==
    CwdDecides /\ BeneathSomeBase => result.behavior = "allow"
=============================================================================
