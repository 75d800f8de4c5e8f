--------------------------------- MODULE Config ---------------------------------
(***************************************************************************)
(* py/claudewire/config.py and rs/src/config.rs: the argv and environment  *)
(* a Config stands for, in both languages.  A host sets some fields of the *)
(* empty Config and has the CLI's invocation built from it.                *)
(***************************************************************************)
EXTENDS Integers, Sequences, FiniteSets, Functions, SequencesExt, TLC

CONSTANTS
    Texts,           \* models, prompts, ... : sequences of words
    Names,           \* tools and setting sources: sequences of words
    MaxNames,        \* bound: names in a list
    Tokens,          \* numbers of thinking tokens
    Servers,         \* names of MCP servers
    Definitions,     \* what an MCP server may be configured as
    NoValue,         \* None
    Environments,    \* the host's environment: a state for each variable
    MaxSet           \* bound: fields set

Comma == ","
ASSUME NamesAssumption ==
    \A n \in Names : /\ n \in Seq(ToSet(n))
                     /\ n # <<>> /\ \A i \in DOMAIN n : n[i] # Comma
ASSUME NumbersAssumption ==
    MaxNames \in Nat /\ MaxSet \in Nat /\ Tokens \subseteq Nat

VARIABLES
    config,          \* the Config
    fieldsSet,       \* fields set so far
    invocation       \* per language: what was built of it

configVars == <<config, fieldsSet, invocation>>

Optional(S) == S \union {NoValue}
NameLists == BoundedSeq(Names, MaxNames)
ServerMaps ==
    Optional(UNION {[S -> Definitions] : S \in SUBSET Servers})

\* What each field may be set to.
Settable == [
    model |-> Texts, append_system_prompt |-> Optional(Texts),
    permission_mode |-> Texts, setting_sources |-> NameLists,
    external |-> ServerMaps, sdk |-> ServerMaps,
    disallowed_tools |-> NameLists, allowed_tools |-> NameLists,
    max_thinking_tokens |-> Optional(Tokens), effort |-> Optional(Texts),
    sandbox_enabled |-> BOOLEAN, auto_allow_bash_if_sandboxed |-> BOOLEAN,
    resume |-> Optional(Texts), include_partial_messages |-> BOOLEAN,
    verbose |-> BOOLEAN, debug_to_stderr |-> BOOLEAN,
    print_mode |-> BOOLEAN, replay_user_messages |-> BOOLEAN]

Empty == [
    model |-> <<>>, append_system_prompt |-> NoValue,
    permission_mode |-> <<>>, setting_sources |-> <<>>,
    external |-> NoValue, sdk |-> NoValue,
    disallowed_tools |-> <<>>, allowed_tools |-> <<>>,
    max_thinking_tokens |-> NoValue, effort |-> NoValue,
    sandbox_enabled |-> FALSE, auto_allow_bash_if_sandboxed |-> FALSE,
    resume |-> NoValue, include_partial_messages |-> FALSE,
    verbose |-> FALSE, debug_to_stderr |-> FALSE,
    print_mode |-> FALSE, replay_user_messages |-> FALSE]

-----------------------------------------------------------------------------
(* to_cli_args.  An argument is a text; one that is JSON is what a parser   *)
(* reads in it, as its writer spaces it.                                    *)

Text(words) == [text |-> words, json |-> {}]
Word(w)     == Text(<<w>>)
Json(writer, members) == [text |-> <<writer>>, json |-> members]

Join(names) ==
    Text(FlattenSeq([i \in DOMAIN names |->
           IF i = 1 THEN names[i] ELSE <<Comma>> \o names[i]]))

Switch(on, flag)      == IF on THEN <<Word(flag)>> ELSE <<>>
Option(on, flag, arg) == IF on THEN <<Word(flag), arg>> ELSE <<>>

MembersOf(servers) ==
    IF servers = NoValue THEN {}
    ELSE {<<s, servers[s]>> : s \in DOMAIN servers}

\* Mutant: the SDK's servers come last.
MergedSdkLast(c) ==
    MembersOf(c.sdk)
      \union {m \in MembersOf(c.external) :
                \A n \in MembersOf(c.sdk) : n[1] # m[1]}

\* The external servers are put over the SDK's.
Merged(c) ==
    MembersOf(c.external)
      \union {m \in MembersOf(c.sdk) :
                \A n \in MembersOf(c.external) : n[1] # m[1]}

Sandbox(c) ==
    {<<"enabled", TRUE>>,
     <<"autoAllowBashIfSandboxed", c.auto_allow_bash_if_sandboxed>>}

\* The fields whose texts become options: in Python those with a text that
\* is true as a condition.
TextFields == {"model", "permission_mode", "append_system_prompt", "effort",
               "resume"}
PyGiven(c) == {f \in TextFields : c[f] \notin {NoValue, <<>>}}

\* In Rust effort and resume are only matched with Some.
RsGiven(c) ==
    {f \in TextFields :
       c[f] # NoValue /\ (f \in {"effort", "resume"} \/ c[f] # <<>>)}

ToCliArgs(c, given, writer) ==
    LET TextOption(field, flag) ==
          Option(field \in given, flag, Text(c[field]))
        ListOption(field, flag) ==
          Option(c[field] # <<>>, flag, Join(c[field]))
    IN
    <<Word("claude")>>
      \o Switch(c.print_mode, "--print")
      \o Option(TRUE, "--output-format", Word("stream-json"))
      \o Option(TRUE, "--input-format", Word("stream-json"))
      \o Switch(c.replay_user_messages, "--replay-user-messages")
      \o Switch(c.verbose, "--verbose")
      \o Switch(c.include_partial_messages, "--include-partial-messages")
      \o Switch(c.debug_to_stderr, "--debug-to-stderr")
      \o Option(TRUE, "--permission-prompt-tool", Word("stdio"))
      \o TextOption("model", "--model")
      \o ListOption("setting_sources", "--setting-sources")
      \o TextOption("permission_mode", "--permission-mode")
      \o TextOption("append_system_prompt", "--append-system-prompt")
      \o Option(Merged(c) # {}, "--mcp-config", Json(writer, Merged(c)))
      \o ListOption("disallowed_tools", "--disallowed-tools")
      \o ListOption("allowed_tools", "--allowedTools")
      \o Option(c.max_thinking_tokens # NoValue, "--max-thinking-tokens",
                Word(ToString(c.max_thinking_tokens)))
      \o TextOption("effort", "--effort")
      \o Option(c.sandbox_enabled, "--settings", Json(writer, Sandbox(c)))
      \o TextOption("resume", "--resume")

\* json.dumps puts a space after each colon and comma, serde_json does not.
PyArgs(c) == ToCliArgs(c, PyGiven(c), "spaced")
RsArgs(c) == ToCliArgs(c, RsGiven(c), "compact")

-----------------------------------------------------------------------------
(* The environment of the CLI, from the host's: a variable of it has a      *)
(* value ("text" or "not unicode") or none ("unset").                      *)

Passed == {"ANTHROPIC_API_KEY", "HOME", "PATH", "XDG_CONFIG_HOME",
           "XDG_DATA_HOME", "XDG_STATE_HOME", "NODE_PATH", "TERM"}

Own == [CLAUDE_CODE_ENTRYPOINT |-> "sdk-py",
        CLAUDE_AGENT_SDK_VERSION |-> "0.1.39",
        CLAUDE_AUTOCOMPACT_PCT_OVERRIDE |-> "100"]

\* What is set in one environment covers the other.
Over(set, env) ==
    [v \in DOMAIN set \union DOMAIN env |-> IF v \in DOMAIN set THEN set[v] ELSE env[v]]

HostVariables(env, states) ==
    [v \in {w \in DOMAIN env : env[w] \in states} |-> env[v]]
OnlyPassed(variables) == Restrict(variables, Passed \intersect DOMAIN variables)

PyEnv(env) ==
    Over(Own, OnlyPassed(HostVariables(env, {"text", "not unicode"})))

\* std::env::var fails for a value that is not Unicode.
RsEnv(env) == Over(Own, OnlyPassed(HostVariables(env, {"text"})))

\* asyncio's child gets what it is given.
PySpawn(env) == PyEnv(env)

\* Mutant: the CLI may find itself inside another one.
RsSpawnNested(env) ==
    Over(RsEnv(env), HostVariables(env, {"text", "not unicode"}))

\* A Command's child inherits what is neither set nor removed.
RsSpawn(env) ==
    LET child == Over(RsEnv(env), HostVariables(env, {"text", "not unicode"}))
    IN Restrict(child, DOMAIN child \ {"CLAUDECODE"})

-----------------------------------------------------------------------------
NotBuilt == [py |-> <<>>, rust |-> <<>>, pyEnv |-> Own, rustEnv |-> Own]

ConfigInit == config = Empty /\ fieldsSet = 0 /\ invocation = NotBuilt

SetField(field, value) ==
    /\ fieldsSet < MaxSet
    /\ fieldsSet' = fieldsSet + 1
    /\ config' = [config EXCEPT ![field] = value]
    /\ invocation' = NotBuilt

Build(env) ==
    /\ invocation' = [py |-> PyArgs(config), rust |-> RsArgs(config),
                      pyEnv |-> PySpawn(env), rustEnv |-> RsSpawn(env)]
    /\ UNCHANGED <<config, fieldsSet>>

ConfigNext ==
    \/ \E field \in DOMAIN Settable : \E value \in Settable[field] :
         SetField(field, value)
    \/ \E env \in Environments : Build(env)

ConfigSpec == ConfigInit /\ [][ConfigNext]_configVars

-----------------------------------------------------------------------------
(* Properties.                                                             *)

SwitchOf == [print_mode |-> "--print", verbose |-> "--verbose",
    replay_user_messages |-> "--replay-user-messages",
    include_partial_messages |-> "--include-partial-messages",
    debug_to_stderr |-> "--debug-to-stderr"]
TextOptionOf == [model |-> "--model", permission_mode |-> "--permission-mode",
    append_system_prompt |-> "--append-system-prompt",
    effort |-> "--effort", resume |-> "--resume"]
ListOptionOf == [setting_sources |-> "--setting-sources",
    disallowed_tools |-> "--disallowed-tools",
    allowed_tools |-> "--allowedTools"]

\* How the CLI reads an argv: a switch stands alone, any other option takes
\* the argument after it, whatever that looks like.
Switches == {Word(SwitchOf[s]) : s \in DOMAIN SwitchOf}
OptionsOf(args) ==
    LET isOption[i \in DOMAIN args] ==
          \/ i = 2
          \/ i > 2 /\ ~(isOption[i - 1] /\ args[i - 1] \notin Switches)
    IN {i \in DOMAIN args : isOption[i]}
Values(args, flag) ==
    {args[i + 1] : i \in {j \in OptionsOf(args) : args[j] = Word(flag)}}

\* Each comma ends a name and begins another.
Split(text) ==
    LET names[i \in 0..Len(text)] ==
          IF i = 0 THEN <<<<>>>>
          ELSE IF text[i] = Comma THEN Append(names[i - 1], <<>>)
          ELSE [names[i - 1] EXCEPT ![Len(names[i - 1])] = Append(@, text[i])]
    IN names[Len(text)]

\* What the CLI reads in an argv is the Config it was built from, also when a
\* prompt looks like an option: each switch, text, list and number that was
\* set and none that was not (an empty text counts as none), and every server with its external definition
\* before the SDK's.
ReadsBackFrom(args) ==
    /\ \A f \in DOMAIN SwitchOf :
         config[f] <=> \E i \in OptionsOf(args) : args[i] = Word(SwitchOf[f])
    /\ \A f \in DOMAIN TextOptionOf :
         Values(args, TextOptionOf[f]) \ {Text(<<>>)} =
           IF config[f] \in {NoValue, <<>>} THEN {} ELSE {Text(config[f])}
    /\ \A f \in DOMAIN ListOptionOf :
         {Split(v.text) : v \in Values(args, ListOptionOf[f])} =
           IF config[f] = <<>> THEN {} ELSE {config[f]}
    /\ Values(args, "--max-thinking-tokens") =
         IF config.max_thinking_tokens = NoValue THEN {}
         ELSE {Word(ToString(config.max_thinking_tokens))}
    /\ LET found == UNION {v.json : v \in Values(args, "--mcp-config")}
           Named(servers) == IF servers = NoValue THEN {} ELSE DOMAIN servers
       IN found = {<<s, IF s \in Named(config.external)
                        THEN config.external[s] ELSE config.sdk[s]>> :
                    s \in Named(config.external) \union Named(config.sdk)}
    /\ {v.json : v \in Values(args, "--settings")} =
         IF config.sandbox_enabled THEN {Sandbox(config)} ELSE {}

ReadsBack ==
    invocation # NotBuilt =>
        ReadsBackFrom(invocation.py) /\ ReadsBackFrom(invocation.rust)

\* The CLI finds the same environment in either language, in every variable
\* to_env names and in CLAUDECODE, by which it would think itself nested: also
\* when the host runs inside a CLI, and when a value is not Unicode, which
\* to_env drops and the child inherits.
EnvironmentsAgree ==
    \A v \in Passed \union DOMAIN Own \union {"CLAUDECODE"} :
        /\ v \in DOMAIN invocation.pyEnv <=> v \in DOMAIN invocation.rustEnv
        /\ v \in DOMAIN invocation.pyEnv =>
             invocation.pyEnv[v] = invocation.rustEnv[v]
=============================================================================
