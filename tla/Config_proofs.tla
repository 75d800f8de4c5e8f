------------------------------ MODULE Config_proofs ------------------------------
(***************************************************************************)
(* What py/claudewire/config.py and rs/src/config.rs build of a Config,    *)
(* for all texts, lists, numbers, servers and environments of the host.    *)
(***************************************************************************)
EXTENDS Config, Flattening

-----------------------------------------------------------------------------
(* Two ways to a child's environment.                                      *)

LEMMA OwnNames ==
    /\ DOMAIN Own = {"CLAUDE_CODE_ENTRYPOINT", "CLAUDE_AGENT_SDK_VERSION",
                     "CLAUDE_AUTOCOMPACT_PCT_OVERRIDE"}
    /\ "CLAUDECODE" \notin DOMAIN Own /\ "CLAUDECODE" \notin Passed
  BY DEF Own, Passed

LEMMA PyFinds ==
    ASSUME NEW env
    PROVE  /\ DOMAIN PySpawn(env) = DOMAIN Own \union
                {v \in Passed \intersect DOMAIN env : env[v] \in {"text", "not unicode"}}
           /\ \A v \in DOMAIN PySpawn(env) :
                PySpawn(env)[v] = IF v \in DOMAIN Own THEN Own[v] ELSE env[v]
  BY DEF PySpawn, PyEnv, OnlyPassed, HostVariables, Restrict, Over

LEMMA RsEnvFinds ==
    ASSUME NEW env
    PROVE  /\ DOMAIN RsEnv(env) = DOMAIN Own \union
                {v \in Passed \intersect DOMAIN env : env[v] = "text"}
           /\ \A v \in DOMAIN RsEnv(env) :
                RsEnv(env)[v] = IF v \in DOMAIN Own THEN Own[v] ELSE env[v]
  BY DEF RsEnv, OnlyPassed, HostVariables, Restrict, Over

\* The child has what is set for it, and the rest of the host's environment.
LEMMA RsFinds ==
    ASSUME NEW env
    PROVE  /\ DOMAIN RsSpawn(env) =
                (DOMAIN Own \union
                   {v \in DOMAIN env : env[v] \in {"text", "not unicode"}})
                \ {"CLAUDECODE"}
           /\ \A v \in DOMAIN RsSpawn(env) :
                RsSpawn(env)[v] = IF v \in DOMAIN Own THEN Own[v] ELSE env[v]
  <1> DEFINE host == HostVariables(env, {"text", "not unicode"})
             child == Over(RsEnv(env), host)
  <1>1. /\ DOMAIN host = {v \in DOMAIN env : env[v] \in {"text", "not unicode"}}
        /\ \A v \in DOMAIN host : host[v] = env[v]
    BY DEF HostVariables
  <1>2. /\ DOMAIN child = DOMAIN RsEnv(env) \union DOMAIN host
        /\ \A v \in DOMAIN child :
             child[v] = IF v \in DOMAIN RsEnv(env) THEN RsEnv(env)[v] ELSE host[v]
    BY DEF Over
  <1>3. /\ DOMAIN RsSpawn(env) = DOMAIN child \ {"CLAUDECODE"}
        /\ \A v \in DOMAIN RsSpawn(env) : RsSpawn(env)[v] = child[v]
    BY DEF RsSpawn, Restrict
  <1> HIDE DEF host, child
  <1>4. /\ DOMAIN RsEnv(env) = DOMAIN Own \union
             {v \in Passed \intersect DOMAIN env : env[v] = "text"}
        /\ \A v \in DOMAIN RsEnv(env) :
             RsEnv(env)[v] = IF v \in DOMAIN Own THEN Own[v] ELSE env[v]
    BY RsEnvFinds
  <1>5. DOMAIN child =
          DOMAIN Own \union {v \in DOMAIN env : env[v] \in {"text", "not unicode"}}
    BY <1>1, <1>2, <1>4
  <1>6. \A v \in DOMAIN child :
          child[v] = IF v \in DOMAIN Own THEN Own[v] ELSE env[v]
    BY <1>1, <1>2, <1>4
  <1> QED
    BY <1>3, <1>5, <1>6

LEMMA SpawnsAgree ==
    ASSUME NEW env,
           NEW v \in Passed \union DOMAIN Own \union {"CLAUDECODE"}
    PROVE  /\ v \in DOMAIN PySpawn(env) <=> v \in DOMAIN RsSpawn(env)
           /\ v \in DOMAIN PySpawn(env) => PySpawn(env)[v] = RsSpawn(env)[v]
  <1>1. /\ DOMAIN PySpawn(env) = DOMAIN Own \union
             {w \in Passed \intersect DOMAIN env : env[w] \in {"text", "not unicode"}}
        /\ \A w \in DOMAIN PySpawn(env) :
             PySpawn(env)[w] = IF w \in DOMAIN Own THEN Own[w] ELSE env[w]
    BY PyFinds
  <1>2. /\ DOMAIN RsSpawn(env) =
             (DOMAIN Own \union {w \in DOMAIN env : env[w] \in {"text", "not unicode"}})
             \ {"CLAUDECODE"}
        /\ \A w \in DOMAIN RsSpawn(env) :
             RsSpawn(env)[w] = IF w \in DOMAIN Own THEN Own[w] ELSE env[w]
    BY RsFinds
  <1> QED
    BY <1>1, <1>2, OwnNames

\* config.py, to_env and config.rs, to_env: what the CLI finds in its environment
\* is the same in both languages, for every environment of the host.
THEOREM SameEnvironments == ConfigSpec => []EnvironmentsAgree
  <1>1. ConfigInit => EnvironmentsAgree
    BY DEF ConfigInit, EnvironmentsAgree, NotBuilt
  <1>2. EnvironmentsAgree /\ [ConfigNext]_configVars => EnvironmentsAgree'
    <2> SUFFICES ASSUME EnvironmentsAgree, [ConfigNext]_configVars
                 PROVE  EnvironmentsAgree'
      OBVIOUS
    <2>1. ASSUME NEW field, NEW value, SetField(field, value)
          PROVE  EnvironmentsAgree'
      BY <2>1 DEF SetField, EnvironmentsAgree, NotBuilt
    <2>2. ASSUME NEW env, Build(env) PROVE EnvironmentsAgree'
      <3>1. /\ invocation'.pyEnv = PySpawn(env)
            /\ invocation'.rustEnv = RsSpawn(env)
        BY <2>2 DEF Build
      <3> QED
        BY <3>1, SpawnsAgree DEF EnvironmentsAgree
    <2>3. CASE UNCHANGED configVars
      BY <2>3 DEF configVars, EnvironmentsAgree
    <2> QED
      BY <2>1, <2>2, <2>3 DEF ConfigNext
  <1> QED
    BY <1>1, <1>2, PTL DEF ConfigSpec

-----------------------------------------------------------------------------
(* How the CLI reads an argv.                                              *)

\* O are the positions in args that hold options.
Reads(args, O) ==
    /\ O \subseteq DOMAIN args
    /\ \A i \in DOMAIN args :
         i \in O <=> \/ i = 2
                     \/ i > 2 /\ ~(i - 1 \in O /\ args[i - 1] \notin Switches)

\* The equation OptionsOf solves.
Solves(args, f) ==
    f = [i \in DOMAIN args |->
           \/ i = 2
           \/ i > 2 /\ ~(f[i - 1] /\ args[i - 1] \notin Switches)]

LEMMA OneSolution ==
    ASSUME NEW S, NEW args \in Seq(S), NEW O, Reads(args, O),
           NEW f, Solves(args, f)
    PROVE  \A i \in DOMAIN args : f[i] <=> i \in O
  <1> DEFINE Bad == {i \in DOMAIN args : ~(f[i] <=> i \in O)}
  <1>0. DOMAIN args = 1..Len(args) /\ Len(args) \in Nat
    OBVIOUS
  <1>1. ASSUME Bad # {} PROVE FALSE
    <2>1. PICK i \in Bad : \A k \in Bad : i <= k
      <3>1. Bad \subseteq Nat
        BY <1>0
      <3> HIDE DEF Bad
      <3> QED
        BY <1>1, <3>1, LeastNat
    <2>2. i \in DOMAIN args /\ i \in Nat /\ ~(f[i] <=> i \in O)
      BY <1>0, <2>1
    <2>3. f[i] <=> \/ i = 2
                   \/ i > 2 /\ ~(f[i - 1] /\ args[i - 1] \notin Switches)
      BY <2>2 DEF Solves
    <2>4. i \in O <=> \/ i = 2
                      \/ i > 2 /\ ~(i - 1 \in O /\ args[i - 1] \notin Switches)
      BY <2>2 DEF Reads
    <2>5. i > 2
      BY <2>2, <2>3, <2>4
    <2>6. i - 1 \in DOMAIN args /\ ~(i <= i - 1)
      BY <1>0, <2>2, <2>5
    <2>7. f[i - 1] <=> i - 1 \in O
      BY <2>1, <2>6
    <2> QED
      BY <2>2, <2>3, <2>4, <2>7
  <1> QED
    BY <1>1

LEMMA OneReading ==
    ASSUME NEW S, NEW args \in Seq(S), NEW O, Reads(args, O)
    PROVE  OptionsOf(args) = O
  <1> DEFINE o == [i \in DOMAIN args |-> i \in O]
             f == CHOOSE f : Solves(args, f)
  <1>1. Solves(args, o)
    <2>1. PICK x : x = o
      OBVIOUS
    <2>2. \A i \in DOMAIN args : x[i] <=> i \in O
      BY <2>1
    <2>3. ASSUME NEW i \in DOMAIN args
          PROVE  (i \in O) <=> \/ i = 2
                               \/ i > 2 /\ ~(x[i - 1] /\ args[i - 1] \notin Switches)
      <3>1. i > 2 => i - 1 \in DOMAIN args
        OBVIOUS
      <3>2. i > 2 => (x[i - 1] <=> i - 1 \in O)
        BY <2>2, <3>1
      <3> QED
        BY <3>2 DEF Reads
    <2> DEFINE g == [i \in DOMAIN args |->
                       \/ i = 2
                       \/ i > 2 /\ ~(x[i - 1] /\ args[i - 1] \notin Switches)]
    <2>4. g = [i \in DOMAIN args |-> g[i]] /\ o = [i \in DOMAIN args |-> o[i]]
      OBVIOUS
    <2>5. ASSUME NEW i \in DOMAIN args PROVE g[i] = o[i]
      <3>1. g[i] \in BOOLEAN /\ o[i] \in BOOLEAN
        OBVIOUS
      <3>2. g[i] <=> \/ i = 2
                     \/ i > 2 /\ ~(x[i - 1] /\ args[i - 1] \notin Switches)
        OBVIOUS
      <3>3. o[i] <=> i \in O
        OBVIOUS
      <3> HIDE DEF o, g
      <3>4. g[i] <=> o[i]
        BY <2>3, <3>2, <3>3
      <3> QED
        BY <3>1, <3>4
    <2>6. g = o
      <3> HIDE DEF o, g
      <3> QED
        BY <2>4, <2>5
    <2> QED
      BY <2>1, <2>6 DEF Solves
  <1>2. Solves(args, f)
    BY <1>1
  <1>3. OptionsOf(args) = {i \in DOMAIN args : f[i]}
    BY DEF OptionsOf, Solves
  <1> HIDE DEF f
  <1>4. \A i \in DOMAIN args : f[i] <=> i \in O
    BY <1>2, OneSolution
  <1> QED
    BY <1>3, <1>4 DEF Reads

\* The options the CLI reads in args, and what is beside each that is no switch.
Found(args)  == {args[i] : i \in OptionsOf(args)}
Paired(args) ==
    {<<args[i], args[i + 1]>> : i \in {j \in OptionsOf(args) : args[j] \notin Switches}}

\* No option of args waits for its argument.
Whole(args) ==
    /\ \E S : args \in Seq(S)
    /\ args # <<>> /\ Reads(args, OptionsOf(args))
    /\ \A i \in OptionsOf(args) : args[i] \notin Switches => i + 1 \in DOMAIN args

LEMMA CommandIsWhole ==
    ASSUME NEW w PROVE Whole(<<w>>) /\ Found(<<w>>) = {} /\ Paired(<<w>>) = {}
  <1>1. <<w>> \in Seq({w}) /\ <<w>> # <<>> /\ DOMAIN <<w>> = {1}
    OBVIOUS
  <1>2. Reads(<<w>>, {})
    BY <1>1 DEF Reads
  <1>3. OptionsOf(<<w>>) = {}
    BY <1>1, <1>2, OneReading
  <1> QED
    BY <1>1, <1>2, <1>3 DEF Whole, Found, Paired

\* What comes next is an option, and does not change what came before.
Extended(S, args, O, more) ==
    LET all == args \o more
        p   == Len(args) + 1
    IN /\ all \in Seq(S) /\ all # <<>> /\ Reads(all, O \union {p})
       /\ Len(args) \in Nat /\ DOMAIN args = 1..Len(args)
       /\ O \subseteq 1..Len(args) /\ DOMAIN args \subseteq DOMAIN all
       /\ \A i \in 1..Len(args) : all[i] = args[i]
       /\ all[p] = more[1]
       /\ Len(more) = 2 => p + 1 \in DOMAIN all /\ all[p + 1] = more[2]

LEMMA NextIsOption ==
    ASSUME NEW S, NEW args \in Seq(S), args # <<>>, NEW O, Reads(args, O),
           \A i \in O : args[i] \notin Switches => i + 1 \in DOMAIN args,
           NEW more \in Seq(S), Len(more) \in {1, 2},
           Len(more) = 1 <=> more[1] \in Switches
    PROVE  Extended(S, args, O, more)
  <1> DEFINE n == Len(args)
             m == Len(more)
             all == args \o more
             P == O \union {n + 1}
  <1>1. /\ n \in Nat \ {0} /\ DOMAIN args = 1..n /\ all \in Seq(S)
        /\ m \in {1, 2} /\ DOMAIN all = 1..n + m
        /\ \A i \in 1..n : all[i] = args[i]
        /\ \A i \in 1..m : all[n + i] = more[i]
    BY ConcatProperties, LenProperties, EmptySeq
  <1>2. /\ O \subseteq 1..n
        /\ \A i \in 1..n :
             i \in O <=> \/ i = 2
                         \/ i > 2 /\ ~(i - 1 \in O /\ args[i - 1] \notin Switches)
        /\ \A i \in O : args[i] \notin Switches => i + 1 \in 1..n
    BY <1>1 DEF Reads
  <1>3. m = 1 <=> more[1] \in Switches
    OBVIOUS
  <1> HIDE DEF n, m, all
  <1>4. all[n + 1] = more[1] /\ (m = 2 => n + 2 \in 1..n + m /\ all[n + 2] = more[2])
    BY <1>1
  <1>5. ASSUME NEW i \in 1..n + m
        PROVE  i \in P <=> \/ i = 2
                           \/ i > 2 /\ ~(i - 1 \in P /\ all[i - 1] \notin Switches)
    <2>1. CASE i \in 1..n
      <3>1. i > 2 => i - 1 \in 1..n
        BY <1>1, <2>1
      <3>2. i # n + 1 /\ i - 1 # n + 1
        BY <1>1, <2>1
      <3> QED
        BY <1>1, <1>2, <2>1, <3>1, <3>2
    <2>2. CASE i = n + 1
      <3>1. n \in 1..n /\ n + 1 - 1 = n /\ n # n + 1 /\ n + 1 \notin 1..n
            /\ (n + 1 = 2 \/ n + 1 > 2)
        BY <1>1
      <3>2. ~(n \in O /\ args[n] \notin Switches)
        BY <1>2, <3>1
      <3>3. all[n] = args[n]
        BY <1>1, <3>1
      <3> QED
        BY <2>2, <3>1, <3>2, <3>3
    <2>3. CASE i = n + 2 /\ m = 2
      <3>1. n + 2 - 1 = n + 1 /\ n + 2 > 2 /\ n + 2 # n + 1 /\ n + 2 \notin 1..n
            /\ n + 2 # 2
        BY <1>1
      <3>2. all[n + 1] \notin Switches
        BY <1>3, <1>4, <2>3
      <3>3. i \notin P /\ i # 2 /\ i > 2
        <4>1. i # 2 /\ i > 2 /\ i # n + 1 /\ i \notin 1..n
          BY <1>1, <2>3
        <4>2. i \notin O
          BY <1>2, <4>1
        <4> QED
          BY <4>1, <4>2
      <3>4. i - 1 = n + 1 /\ i - 1 \in P
        <4>1. i - 1 = n + 1
          BY <1>1, <2>3
        <4> QED
          BY <4>1
      <3> HIDE DEF P
      <3>5. all[i - 1] \notin Switches
        BY <3>2, <3>4
      <3> QED
        BY <3>3, <3>4, <3>5
    <2> QED
      BY <1>1, <2>1, <2>2, <2>3
  <1>6. P \subseteq 1..n + m
    BY <1>1, <1>2
  <1>7. Reads(all, P)
    BY <1>1, <1>5, <1>6 DEF Reads
  <1>8. n + 1 + 1 = n + 2 /\ all # <<>> /\ 1..n \subseteq 1..n + m
    BY <1>1
  <1> QED
    BY <1>1, <1>2, <1>4, <1>7, <1>8 DEF n, m, all, Extended

\* After is before and, when on, an option with what is beside it.
Added(before, after, on, word, beside) ==
    /\ Whole(after)
    /\ \A w : w \in Found(after) <=> w \in Found(before) \/ (on /\ w = word)
    /\ \A w, v : <<w, v>> \in Paired(after) <=>
                   \/ <<w, v>> \in Paired(before)
                   \/ on /\ w = word /\ v \in beside

LEMMA AddsNothing ==
    ASSUME NEW args, Whole(args), NEW word, NEW beside
    PROVE  Added(args, args \o <<>>, FALSE, word, beside)
  <1>1. args \o <<>> = args
    BY ConcatEmptySeq DEF Whole
  <1> QED
    BY <1>1 DEF Added

LEMMA AddsSwitch ==
    ASSUME NEW args, Whole(args), NEW on, NEW flag, Word(flag) \in Switches
    PROVE  Added(args, args \o Switch(on, flag), on, Word(flag), {})
  <1>1. CASE ~on
    <2>1. Switch(on, flag) = <<>>
      BY <1>1 DEF Switch
    <2>2. Added(args, args \o <<>>, FALSE, Word(flag), {})
      BY AddsNothing
    <2> QED
      BY <1>1, <2>1, <2>2 DEF Added
  <1>2. CASE on
    <2> DEFINE w == Word(flag)
               n == Len(args)
               all == args \o <<w>>
               O == OptionsOf(args)
               P == O \union {n + 1}
    <2>1. PICK S : args \in Seq(S)
      BY DEF Whole
    <2> DEFINE T == S \union {w}
    <2>2. /\ args \in Seq(T) /\ <<w>> \in Seq(T) /\ Len(<<w>>) = 1
          /\ <<w>>[1] \in Switches
      BY <2>1, SeqMonotonic
    <2>3. /\ args # <<>> /\ Reads(args, O)
          /\ \A i \in O : args[i] \notin Switches => i + 1 \in DOMAIN args
      BY DEF Whole
    <2>4. Extended(T, args, O, <<w>>)
      <3> HIDE DEF T, w, O
      <3> QED
        BY <2>2, <2>3, NextIsOption
    <2>5. /\ all \in Seq(T) /\ all # <<>> /\ Reads(all, P)
          /\ n \in Nat /\ DOMAIN args = 1..n
          /\ O \subseteq 1..n /\ DOMAIN args \subseteq DOMAIN all
          /\ \A i \in 1..n : all[i] = args[i]
          /\ all[n + 1] = w /\ w \in Switches
      BY <2>4 DEF Extended
    <2> HIDE DEF T, n, all, w, O
    <2>6. OptionsOf(all) = P
      BY <2>5, OneReading
    <2>7. \A i \in P : (i \in O /\ all[i] = args[i]) \/ i = n + 1
      BY <2>5
    <2>8. \A i \in P : all[i] \notin Switches => i \in O /\ all[i] = args[i]
      BY <2>5, <2>7
    <2>9. Whole(all)
      BY <2>3, <2>5, <2>6, <2>8 DEF Whole
    <2>10. Found(all) = Found(args) \union {w}
      BY <2>5, <2>6, <2>7 DEF Found, O
    <2>11. Paired(all) = Paired(args)
      <3>1. {j \in P : all[j] \notin Switches} = {j \in O : args[j] \notin Switches}
        BY <2>5, <2>7, <2>8
      <3>2. \A i \in {j \in O : args[j] \notin Switches} :
              all[i] = args[i] /\ all[i + 1] = args[i + 1]
        BY <2>3, <2>5
      <3> QED
        BY <2>6, <3>1, <3>2 DEF Paired, O
    <2>12. Added(args, all, on, w, {})
      BY <1>2, <2>9, <2>10, <2>11 DEF Added
    <2> QED
      BY <1>2, <2>12 DEF all, w, Switch
  <1> QED
    BY <1>1, <1>2

LEMMA AddsOption ==
    ASSUME NEW args, Whole(args), NEW on, NEW flag, Word(flag) \notin Switches, NEW arg
    PROVE  Added(args, args \o Option(on, flag, arg), on, Word(flag), {arg})
  <1>1. CASE ~on
    <2>1. Option(on, flag, arg) = <<>>
      BY <1>1 DEF Option
    <2>2. Added(args, args \o <<>>, FALSE, Word(flag), {arg})
      BY AddsNothing
    <2> QED
      BY <1>1, <2>1, <2>2 DEF Added
  <1>2. CASE on
    <2> DEFINE w == Word(flag)
               more == <<w, arg>>
               n == Len(args)
               all == args \o more
               O == OptionsOf(args)
               P == O \union {n + 1}
    <2>1. PICK S : args \in Seq(S)
      BY DEF Whole
    <2> DEFINE T == S \union {w, arg}
    <2>2. /\ args \in Seq(T) /\ more \in Seq(T) /\ Len(more) \in {1, 2}
          /\ Len(more) = 2 /\ more[2] = arg /\ more[1] = w /\ w \notin Switches
      BY <2>1, SeqMonotonic
    <2>3. /\ args # <<>> /\ Reads(args, O)
          /\ \A i \in O : args[i] \notin Switches => i + 1 \in DOMAIN args
      BY DEF Whole
    <2>4. Extended(T, args, O, more)
      <3> HIDE DEF T, w, O, more
      <3>1. Len(more) = 1 <=> more[1] \in Switches
        BY <2>2
      <3> QED
        BY <2>2, <2>3, <3>1, NextIsOption
    <2>5. /\ all \in Seq(T) /\ all # <<>> /\ Reads(all, P)
          /\ n \in Nat /\ DOMAIN args = 1..n
          /\ O \subseteq 1..n /\ DOMAIN args \subseteq DOMAIN all
          /\ \A i \in 1..n : all[i] = args[i]
          /\ all[n + 1] = w /\ n + 1 + 1 \in DOMAIN all /\ all[n + 1 + 1] = arg
      BY <2>2, <2>4 DEF Extended
    <2> HIDE DEF T, n, all, w, O, more
    <2>6. OptionsOf(all) = P
      BY <2>5, OneReading
    <2>7. \A i \in P : (i \in O /\ all[i] = args[i]) \/ i = n + 1
      BY <2>5
    <2>8. \A i \in P : all[i] \notin Switches => i + 1 \in DOMAIN all
      BY <2>3, <2>5, <2>7
    <2>9. Whole(all)
      BY <2>5, <2>6, <2>8 DEF Whole
    <2>10. Found(all) = Found(args) \union {w}
      BY <2>5, <2>6, <2>7 DEF Found, O
    <2>11. Paired(all) = Paired(args) \union {<<w, arg>>}
      <3> DEFINE old == {j \in O : args[j] \notin Switches}
                 F(i) == <<all[i], all[i + 1]>>
                 G(i) == <<args[i], args[i + 1]>>
      <3>1. {j \in P : all[j] \notin Switches} = old \union {n + 1}
        BY <2>2, <2>5, <2>7
      <3>2. \A i \in old : F(i) = G(i)
        BY <2>3, <2>5
      <3>3. F(n + 1) = <<w, arg>>
        BY <2>5
      <3>4. Paired(args) = {G(i) : i \in old}
        BY DEF Paired, O
      <3>5. Paired(all) = {F(i) : i \in old \union {n + 1}}
        BY <2>6, <3>1 DEF Paired
      <3> HIDE DEF old, F, G
      <3> QED
        BY <3>2, <3>3, <3>4, <3>5
    <2>12. Added(args, all, on, w, {arg})
      BY <1>2, <2>9, <2>10, <2>11 DEF Added
    <2> QED
      BY <1>2, <2>12 DEF all, more, w, Option
  <1> QED
    BY <1>1, <1>2

LEMMA SameWord == ASSUME NEW f, NEW g PROVE Word(f) = Word(g) <=> f = g
  BY DEF Word, Text

\* The words of the switches are theirs alone.
LEMMA SwitchWords ==
    /\ Word("--print") \in Switches
    /\ Word("--verbose") \in Switches
    /\ Word("--replay-user-messages") \in Switches
    /\ Word("--include-partial-messages") \in Switches
    /\ Word("--debug-to-stderr") \in Switches
    /\ \A f \in {"--output-format", "--input-format", "--permission-prompt-tool",
                 "--model", "--permission-mode", "--append-system-prompt",
                 "--effort", "--resume", "--setting-sources",
                 "--disallowed-tools", "--allowedTools", "--mcp-config",
                 "--max-thinking-tokens", "--settings"} :
         Word(f) \notin Switches
  <1>1. {SwitchOf[s] : s \in DOMAIN SwitchOf} =
          {"--print", "--verbose", "--replay-user-messages",
           "--include-partial-messages", "--debug-to-stderr"}
    BY DEF SwitchOf
  <1>2. \A f : Word(f) \in Switches <=> f \in {SwitchOf[s] : s \in DOMAIN SwitchOf}
    BY SameWord DEF Switches
  <1> QED
    BY <1>1, <1>2

\* One part after another of an argv.
LEMMA ThenSwitch ==
    ASSUME NEW before, NEW args, NEW was, NEW word, NEW beside,
           Added(before, args, was, word, beside),
           NEW on, NEW flag, Word(flag) \in Switches
    PROVE  Added(args, args \o Switch(on, flag), on, Word(flag), {})
  BY AddsSwitch DEF Added

LEMMA ThenOption ==
    ASSUME NEW before, NEW args, NEW was, NEW word, NEW beside,
           Added(before, args, was, word, beside),
           NEW on, NEW flag, Word(flag) \notin Switches, NEW arg
    PROVE  Added(args, args \o Option(on, flag, arg), on, Word(flag), {arg})
  BY AddsOption DEF Added

\* In args the option is found when on, and then with this argument.
Holds(args, flag, on, arg) ==
    \A v : <<Word(flag), v>> \in Paired(args) <=> on /\ v = arg

\* What to_cli_args writes, option by option.
Carries(args, c, given, writer) ==
    /\ \A s \in DOMAIN SwitchOf : Word(SwitchOf[s]) \in Found(args) <=> c[s]
    /\ \A f \in DOMAIN TextOptionOf :
         Holds(args, TextOptionOf[f], f \in given, Text(c[f]))
    /\ \A f \in DOMAIN ListOptionOf :
         Holds(args, ListOptionOf[f], c[f] # <<>>, Join(c[f]))
    /\ Holds(args, "--max-thinking-tokens", c.max_thinking_tokens # NoValue,
             Word(ToString(c.max_thinking_tokens)))
    /\ Holds(args, "--mcp-config", Merged(c) # {}, Json(writer, Merged(c)))
    /\ Holds(args, "--settings", c.sandbox_enabled, Json(writer, Sandbox(c)))

\* The argv is whole after each of its parts.
LEMMA ArgvCarries ==
    ASSUME NEW c, NEW given, NEW writer
    PROVE  /\ Whole(ToCliArgs(c, given, writer))
           /\ Carries(ToCliArgs(c, given, writer), c, given, writer)
  <1> DEFINE TextOption(field, flag) ==
               Option(field \in given, flag, Text(c[field]))
             ListOption(field, flag) ==
               Option(c[field] # <<>>, flag, Join(c[field]))
             a0 == <<Word("claude")>>
             a1 == a0 \o Switch(c.print_mode, "--print")
             a2 == a1 \o Option(TRUE, "--output-format", Word("stream-json"))
             a3 == a2 \o Option(TRUE, "--input-format", Word("stream-json"))
             a4 == a3 \o Switch(c.replay_user_messages, "--replay-user-messages")
             a5 == a4 \o Switch(c.verbose, "--verbose")
             a6 == a5 \o Switch(c.include_partial_messages, "--include-partial-messages")
             a7 == a6 \o Switch(c.debug_to_stderr, "--debug-to-stderr")
             a8 == a7 \o Option(TRUE, "--permission-prompt-tool", Word("stdio"))
             a9 == a8 \o TextOption("model", "--model")
             a10 == a9 \o ListOption("setting_sources", "--setting-sources")
             a11 == a10 \o TextOption("permission_mode", "--permission-mode")
             a12 == a11 \o TextOption("append_system_prompt", "--append-system-prompt")
             a13 == a12 \o Option(Merged(c) # {}, "--mcp-config", Json(writer, Merged(c)))
             a14 == a13 \o ListOption("disallowed_tools", "--disallowed-tools")
             a15 == a14 \o ListOption("allowed_tools", "--allowedTools")
             a16 == a15 \o Option(c.max_thinking_tokens # NoValue,
                             "--max-thinking-tokens", Word(ToString(c.max_thinking_tokens)))
             a17 == a16 \o TextOption("effort", "--effort")
             a18 == a17 \o Option(c.sandbox_enabled, "--settings", Json(writer, Sandbox(c)))
             a19 == a18 \o TextOption("resume", "--resume")
  <1>0. ToCliArgs(c, given, writer) = a19
    BY DEF ToCliArgs
  <1>1. Whole(a0) /\ Found(a0) = {} /\ Paired(a0) = {}
    BY CommandIsWhole
  <1> HIDE DEF a0, a1, a2, a3, a4, a5, a6, a7, a8, a9, a10, a11, a12, a13,
               a14, a15, a16, a17, a18, a19
  <1>2. Added(a0, a1, c.print_mode, Word("--print"), {})
    BY <1>1, AddsSwitch, SwitchWords DEF a1
  <1>3. Added(a1, a2, TRUE, Word("--output-format"), {Word("stream-json")})
    BY <1>2, ThenOption, SwitchWords DEF a2
  <1>4. Added(a2, a3, TRUE, Word("--input-format"), {Word("stream-json")})
    BY <1>3, ThenOption, SwitchWords DEF a3
  <1>5. Added(a3, a4, c.replay_user_messages, Word("--replay-user-messages"), {})
    BY <1>4, ThenSwitch, SwitchWords DEF a4
  <1>6. Added(a4, a5, c.verbose, Word("--verbose"), {})
    BY <1>5, ThenSwitch, SwitchWords DEF a5
  <1>7. Added(a5, a6, c.include_partial_messages,
                Word("--include-partial-messages"), {})
    BY <1>6, ThenSwitch, SwitchWords DEF a6
  <1>8. Added(a6, a7, c.debug_to_stderr, Word("--debug-to-stderr"), {})
    BY <1>7, ThenSwitch, SwitchWords DEF a7
  <1>9. Added(a7, a8, TRUE, Word("--permission-prompt-tool"), {Word("stdio")})
    BY <1>8, ThenOption, SwitchWords DEF a8
  <1>10. Added(a8, a9, "model" \in given, Word("--model"), {Text(c["model"])})
    BY <1>9, ThenOption, SwitchWords DEF a9
  <1>11. Added(a9, a10, c["setting_sources"] # <<>>,
                Word("--setting-sources"), {Join(c["setting_sources"])})
    BY <1>10, ThenOption, SwitchWords DEF a10
  <1>12. Added(a10, a11, "permission_mode" \in given,
                Word("--permission-mode"), {Text(c["permission_mode"])})
    BY <1>11, ThenOption, SwitchWords DEF a11
  <1>13. Added(a11, a12, "append_system_prompt" \in given,
                Word("--append-system-prompt"), {Text(c["append_system_prompt"])})
    BY <1>12, ThenOption, SwitchWords DEF a12
  <1>14. Added(a12, a13, Merged(c) # {}, Word("--mcp-config"), {Json(writer, Merged(c))})
    BY <1>13, ThenOption, SwitchWords DEF a13
  <1>15. Added(a13, a14, c["disallowed_tools"] # <<>>,
                Word("--disallowed-tools"), {Join(c["disallowed_tools"])})
    BY <1>14, ThenOption, SwitchWords DEF a14
  <1>16. Added(a14, a15, c["allowed_tools"] # <<>>,
                Word("--allowedTools"), {Join(c["allowed_tools"])})
    BY <1>15, ThenOption, SwitchWords DEF a15
  <1>17. Added(a15, a16, c.max_thinking_tokens # NoValue,
                Word("--max-thinking-tokens"), {Word(ToString(c.max_thinking_tokens))})
    BY <1>16, ThenOption, SwitchWords DEF a16
  <1>18. Added(a16, a17, "effort" \in given, Word("--effort"), {Text(c["effort"])})
    BY <1>17, ThenOption, SwitchWords DEF a17
  <1>19. Added(a17, a18, c.sandbox_enabled, Word("--settings"), {Json(writer, Sandbox(c))})
    BY <1>18, ThenOption, SwitchWords DEF a18
  <1>20. Added(a18, a19, "resume" \in given, Word("--resume"), {Text(c["resume"])})
    BY <1>19, ThenOption, SwitchWords DEF a19
  <1>21. \A w : w \notin Found(a0) /\ \A v : <<w, v>> \notin Paired(a0)
    BY <1>1
  <1> USE <1>2, <1>3, <1>4, <1>5, <1>6, <1>7, <1>8, <1>9, <1>10, <1>11, <1>12,
          <1>13, <1>14, <1>15, <1>16, <1>17, <1>18, <1>19, <1>20, <1>21, SameWord
  <1>22. ASSUME NEW s \in DOMAIN SwitchOf
         PROVE  Word(SwitchOf[s]) \in Found(a19) <=> c[s]
    <2>1. Word("--print") \in Found(a19) <=> c["print_mode"]
      BY DEF Added
    <2>2. Word("--verbose") \in Found(a19) <=> c["verbose"]
      BY DEF Added
    <2>3. Word("--replay-user-messages") \in Found(a19) <=> c["replay_user_messages"]
      BY DEF Added
    <2>4. Word("--include-partial-messages") \in Found(a19) <=> c["include_partial_messages"]
      BY DEF Added
    <2>5. Word("--debug-to-stderr") \in Found(a19) <=> c["debug_to_stderr"]
      BY DEF Added
    <2> QED
      BY <2>1, <2>2, <2>3, <2>4, <2>5 DEF SwitchOf
  <1>23. ASSUME NEW f \in DOMAIN TextOptionOf
         PROVE  Holds(a19, TextOptionOf[f], f \in given, Text(c[f]))
    BY DEF Added, Holds, TextOptionOf
  <1>24. ASSUME NEW f \in DOMAIN ListOptionOf
         PROVE  Holds(a19, ListOptionOf[f], c[f] # <<>>, Join(c[f]))
    BY DEF Added, Holds, ListOptionOf
  <1>25. Holds(a19, "--max-thinking-tokens", c.max_thinking_tokens # NoValue,
               Word(ToString(c.max_thinking_tokens)))
    BY DEF Added, Holds
  <1>26. Holds(a19, "--mcp-config", Merged(c) # {}, Json(writer, Merged(c)))
    BY DEF Added, Holds
  <1>27. Holds(a19, "--settings", c.sandbox_enabled, Json(writer, Sandbox(c)))
    BY DEF Added, Holds
  <1>28. Whole(a19)
    BY <1>20 DEF Added
  <1> QED
    BY <1>0, <1>22, <1>23, <1>24, <1>25, <1>26, <1>27, <1>28 DEF Carries

-----------------------------------------------------------------------------
(* A list's argument: what is joined is split again.                       *)

\* The names read when the j-th word of the i-th has been.
Sofar(names, i, j) ==
    [k \in 1..i |-> IF k < i THEN names[k] ELSE SubSeq(names[i], 1, j)]

LEMMA SubSeqGrows ==
    ASSUME NEW S, NEW s \in Seq(S), NEW j \in 1..Len(s)
    PROVE  Append(SubSeq(s, 1, j - 1), s[j]) = SubSeq(s, 1, j)
  <1>1. /\ Len(s) \in Nat /\ j \in Nat /\ 1 \in Int /\ j - 1 \in Int /\ j \in Int
        /\ \A i \in 1..j : s[i] \in S
    BY LenProperties, ElementOfSeq
  <1> DEFINE a == SubSeq(s, 1, j - 1)
             b == SubSeq(s, 1, j)
  <1>2. a \in Seq(S) /\ Len(a) = j - 1 /\ \A i \in 1..j - 1 : a[i] = s[i]
    <2>1. \A i \in 1..j - 1 : s[i] \in S
      BY <1>1
    <2>2. /\ SubSeq(s, 1, j - 1) \in Seq(S)
          /\ Len(SubSeq(s, 1, j - 1)) = IF 1 <= j - 1 THEN j - 1 - 1 + 1 ELSE 0
          /\ \A i \in 1..j - 1 - 1 + 1 : SubSeq(s, 1, j - 1)[i] = s[1 + i - 1]
      BY <1>1, <2>1, SubSeqProperties
    <2>3. j - 1 - 1 + 1 = j - 1 /\ (IF 1 <= j - 1 THEN j - 1 - 1 + 1 ELSE 0) = j - 1
      BY <1>1
    <2>4. \A i \in 1..j - 1 : 1 + i - 1 = i
      OBVIOUS
    <2> QED
      BY <2>2, <2>3, <2>4
  <1>3. b \in Seq(S) /\ Len(b) = j /\ \A i \in 1..j : b[i] = s[i]
    <2>2. /\ SubSeq(s, 1, j) \in Seq(S)
          /\ Len(SubSeq(s, 1, j)) = IF 1 <= j THEN j - 1 + 1 ELSE 0
          /\ \A i \in 1..j - 1 + 1 : SubSeq(s, 1, j)[i] = s[1 + i - 1]
      BY <1>1, SubSeqProperties
    <2>3. j - 1 + 1 = j /\ (IF 1 <= j THEN j - 1 + 1 ELSE 0) = j
      BY <1>1
    <2>4. \A i \in 1..j : 1 + i - 1 = i
      OBVIOUS
    <2> QED
      BY <2>2, <2>3, <2>4
  <1> HIDE DEF a, b
  <1>4. /\ Append(a, s[j]) \in Seq(S) /\ Len(Append(a, s[j])) = j
        /\ \A i \in 1..j : Append(a, s[j])[i] = b[i]
    <2>1. s[j] \in S /\ j - 1 + 1 = j /\ j \in 1..j
      BY <1>1
    <2>2. /\ Append(a, s[j]) \in Seq(S) /\ Len(Append(a, s[j])) = j - 1 + 1
          /\ \A i \in 1..j - 1 : Append(a, s[j])[i] = a[i]
          /\ Append(a, s[j])[j - 1 + 1] = s[j]
      BY <1>2, <2>1, AppendProperties
    <2>3. \A i \in 1..j : i \in 1..j - 1 \/ i = j
      BY <1>1
    <2> QED
      BY <1>2, <1>3, <2>1, <2>2, <2>3
  <1>5. Append(a, s[j]) = b
    BY <1>3, <1>4, SeqEqual
  <1> QED
    BY <1>5 DEF a, b

\* The names so far are as many as have begun.
LEMMA SofarType ==
    ASSUME NEW S, NEW names \in Seq(Seq(S)), NEW i \in 1..Len(names),
           NEW j \in 0..Len(names[i])
    PROVE  /\ Sofar(names, i, j) \in Seq(Seq(S)) /\ Len(Sofar(names, i, j)) = i
           /\ DOMAIN Sofar(names, i, j) = 1..i
  <1>1. /\ i \in Nat /\ names[i] \in Seq(S) /\ Len(names[i]) \in Nat
        /\ \A k \in 1..i : names[k] \in Seq(S)
    BY LenProperties, ElementOfSeq
  <1>2. SubSeq(names[i], 1, j) \in Seq(S)
    <2>1. \A k \in 1..j : names[i][k] \in S
      BY <1>1, ElementOfSeq
    <2> QED
      BY <1>1, <2>1, SubSeqProperties
  <1> DEFINE f == Sofar(names, i, j)
  <1>3. f = [k \in 1..i |-> f[k]] /\ \A k \in 1..i : f[k] \in Seq(S)
    BY <1>1, <1>2 DEF Sofar
  <1> HIDE DEF f
  <1>4. f \in [1..i -> Seq(S)]
    BY <1>3
  <1>5. f \in Seq(Seq(S)) /\ Len(f) = i /\ DOMAIN f = 1..i
    BY <1>1, <1>4
  <1> QED
    BY <1>5 DEF f

LEMMA SofarGrows ==
    ASSUME NEW S, NEW names \in Seq(Seq(S)), NEW i \in 1..Len(names),
           NEW j \in 1..Len(names[i])
    PROVE  [Sofar(names, i, j - 1) EXCEPT ![i] = Append(@, names[i][j])]
             = Sofar(names, i, j)
  <1>1. i \in Nat /\ names[i] \in Seq(S) /\ i \in 1..i
    BY LenProperties, ElementOfSeq
  <1>2. Append(SubSeq(names[i], 1, j - 1), names[i][j]) = SubSeq(names[i], 1, j)
    BY <1>1, SubSeqGrows
  <1> DEFINE a == Sofar(names, i, j - 1)
             x == Append(SubSeq(names[i], 1, j - 1), names[i][j])
  <1>3. a = [k \in 1..i |-> IF k < i THEN names[k] ELSE SubSeq(names[i], 1, j - 1)]
    BY DEF Sofar
  <1>4. a[i] = SubSeq(names[i], 1, j - 1)
    BY <1>1, <1>3
  <1>5. [a EXCEPT ![i] = Append(@, names[i][j])] = [a EXCEPT ![i] = x]
    BY <1>4
  <1>6. Sofar(names, i, j) = [k \in 1..i |-> IF k < i THEN names[k] ELSE x]
    BY <1>2 DEF Sofar
  <1> HIDE DEF x, a
  <1>7. [a EXCEPT ![i] = x] = [k \in 1..i |-> IF k = i THEN x ELSE a[k]]
    BY <1>3
  <1>8. \A k \in 1..i : k = i <=> ~(k < i)
    BY <1>1
  <1>9. \A k \in 1..i : k < i => a[k] = names[k]
    BY <1>3
  <1>10. [k \in 1..i |-> IF k = i THEN x ELSE a[k]]
          = [k \in 1..i |-> IF k < i THEN names[k] ELSE x]
    BY <1>8, <1>9
  <1> QED
    BY <1>5, <1>6, <1>7, <1>10 DEF a

LEMMA SofarBegins ==
    ASSUME NEW S, NEW names \in Seq(Seq(S)), NEW i \in 1..Len(names), i > 1
    PROVE  Append(Sofar(names, i - 1, Len(names[i - 1])), <<>>) = Sofar(names, i, 0)
  <1>1. /\ i \in Nat /\ i - 1 \in 1..Len(names) /\ i - 1 \in Nat /\ i - 1 + 1 = i
        /\ 0 \in 0..Len(names[i]) /\ Len(names[i - 1]) \in 0..Len(names[i - 1])
        /\ names[i - 1] \in Seq(S) /\ <<>> \in Seq(S) /\ i \in 1..i
    BY LenProperties, ElementOfSeq, EmptySeq
  <1> DEFINE h == i - 1
             l == Len(names[h])
             a == Sofar(names, i - 1, Len(names[i - 1]))
             b == Sofar(names, i, 0)
  <1>2. a \in Seq(Seq(S)) /\ Len(a) = i - 1 /\ b \in Seq(Seq(S)) /\ Len(b) = i
    <2>1. h \in 1..Len(names) /\ l \in 0..Len(names[h]) /\ 0 \in 0..Len(names[i])
      BY <1>1
    <2> HIDE DEF h, l
    <2>2. Sofar(names, h, l) \in Seq(Seq(S)) /\ Len(Sofar(names, h, l)) = h
      BY <2>1, SofarType
    <2>3. Sofar(names, i, 0) \in Seq(Seq(S)) /\ Len(Sofar(names, i, 0)) = i
      BY <2>1, SofarType
    <2> QED
      BY <2>2, <2>3 DEF h, l
  <1>3. \A k \in 1..i - 1 : a[k] = names[k] /\ b[k] = names[k]
    <2>1. SubSeq(names[i - 1], 1, Len(names[i - 1])) = names[i - 1]
      BY <1>1, SubSeqFull
    <2>2. \A k \in 1..i - 1 : k < i /\ k \in 1..i /\ (k < i - 1 \/ k = i - 1)
      BY <1>1
    <2> QED
      BY <2>1, <2>2 DEF Sofar
  <1>4. b[i] = <<>>
    <2>1. SubSeq(names[i], 1, 0) = <<>>
      BY SubSeqEmpty
    <2> QED
      BY <1>1, <2>1 DEF Sofar
  <1> HIDE DEF a, b
  <1> DEFINE e == <<>>
             T == Seq(S)
             c == Append(a, e)
  <1>5. a \in Seq(T) /\ b \in Seq(T) /\ e \in T /\ b[i] = e
    BY <1>1, <1>2, <1>4
  <1> HIDE DEF e, T
  <1>6. /\ c \in Seq(T) /\ Len(c) = Len(a) + 1 /\ c[Len(a) + 1] = e
        /\ \A k \in 1..Len(a) : c[k] = a[k]
    BY <1>5, AppendProperties
  <1> HIDE DEF c
  <1>7. Len(c) = i /\ c[i] = e /\ \A k \in 1..i - 1 : c[k] = a[k]
    BY <1>1, <1>2, <1>6
  <1>8. \A k \in 1..i : k \in 1..i - 1 \/ k = i
    BY <1>1
  <1>9. \A k \in 1..i : c[k] = b[k]
    BY <1>3, <1>5, <1>7, <1>8
  <1>10. c = b
    BY <1>2, <1>5, <1>6, <1>7, <1>9, SeqEqual
  <1> QED
    BY <1>10 DEF a, b, c, e

LEMMA SofarEnds ==
    ASSUME NEW S, NEW names \in Seq(Seq(S)), names # <<>>
    PROVE  /\ Sofar(names, 1, 0) = <<<<>>>>
           /\ Sofar(names, Len(names), Len(names[Len(names)])) = names
  <1> DEFINE n == Len(names)
  <1>1. n \in Nat \ {0} /\ n \in 1..n /\ 1 \in 1..n /\ names[n] \in Seq(S)
    BY EmptySeq, ElementOfSeq
  <1>2. Sofar(names, 1, 0) = <<<<>>>>
    <2>1. SubSeq(names[1], 1, 0) = <<>>
      BY SubSeqEmpty
    <2>2. Sofar(names, 1, 0) = [k \in 1..1 |-> <<>>]
      BY <2>1 DEF Sofar
    <2>3. <<<<>>>> = [k \in 1..1 |-> <<>>]
      OBVIOUS
    <2> QED
      BY <2>2, <2>3
  <1>3. Sofar(names, n, Len(names[n])) = names
    <2>1. SubSeq(names[n], 1, Len(names[n])) = names[n]
      BY <1>1, SubSeqFull
    <2>2. names = [k \in 1..n |-> names[k]]
      OBVIOUS
    <2> HIDE DEF n
    <2>3. \A k \in 1..n : (IF k < n THEN names[k] ELSE names[n]) = names[k]
      BY <1>1
    <2>4. [k \in 1..n |-> IF k < n THEN names[k] ELSE names[n]] = [k \in 1..n |-> names[k]]
      BY <2>3
    <2> QED
      BY <2>1, <2>2, <2>4 DEF Sofar
  <1> QED
    BY <1>2, <1>3

\* r[i] are the names read in the first i of n words of text.
SplitsTo(text, n, r) ==
    r = [i \in 0..n |->
           IF i = 0 THEN <<<<>>>>
           ELSE IF text[i] = Comma THEN Append(r[i - 1], <<>>)
           ELSE [r[i - 1] EXCEPT ![Len(r[i - 1])] = Append(@, text[i])]]

LEMMA SplitExists == ASSUME NEW text, NEW n \in Nat PROVE \E r : SplitsTo(text, n, r)
  <1> DEFINE Bad == {m \in Nat : ~\E r : SplitsTo(text, m, r)}
             Next(i, read) ==
               IF text[i] = Comma THEN Append(read, <<>>)
               ELSE [read EXCEPT ![Len(read)] = Append(@, text[i])]
             Step(i, r) == IF i = 0 THEN <<<<>>>> ELSE Next(i, r[i - 1])
  <1>1. \A m, r : SplitsTo(text, m, r) <=> r = [i \in 0..m |-> Step(i, r)]
    BY DEF SplitsTo
  <1> HIDE DEF Next
  <1>2. ASSUME Bad # {} PROVE FALSE
    <2>1. PICK m \in Bad : \A k \in Bad : m <= k
      BY <1>2, LeastNat
    <2>2. CASE m = 0
      <3> DEFINE r == [i \in 0..0 |-> <<<<>>>>]
      <3>1. \A i \in 0..0 : i = 0
        OBVIOUS
      <3>2. r = [i \in 0..0 |-> Step(i, r)]
        BY <3>1
      <3>3. SplitsTo(text, 0, r)
        BY <1>1, <3>2
      <3> QED
        BY <2>1, <2>2, <3>3
    <2>3. CASE m # 0
      <3>1. m - 1 \in Nat /\ m - 1 \notin Bad /\ m \in Nat
        BY <2>1, <2>3
      <3>2. PICK r : SplitsTo(text, m - 1, r)
        BY <3>1
      <3> DEFINE g == [i \in 0..m |-> IF i < m THEN r[i] ELSE Next(m, r[m - 1])]
      <3>3. ASSUME NEW i \in 0..m PROVE g[i] = Step(i, g)
        <4>1. CASE i = m
          <5>1. m - 1 \in 0..m /\ m - 1 < m /\ i # 0
            BY <2>3, <3>1, <4>1
          <5>2. g[m - 1] = r[m - 1] /\ g[m] = Next(m, r[m - 1])
            BY <3>1, <5>1
          <5> QED
            BY <4>1, <5>1, <5>2
        <4>2. CASE i < m
          <5>1. i \in 0..m - 1
            BY <3>1, <4>2
          <5>2. r[i] = Step(i, r)
            BY <1>1, <3>2, <5>1
          <5>3. i # 0 => i - 1 \in 0..m /\ i - 1 < m
            BY <3>1, <4>2
          <5>4. g[i] = r[i] /\ (i # 0 => g[i - 1] = r[i - 1])
            BY <4>2, <5>3
          <5> QED
            BY <5>2, <5>4
        <4> QED
          BY <3>1, <4>1, <4>2
      <3>4. g = [i \in 0..m |-> Step(i, g)]
        <4>1. g = [i \in 0..m |-> g[i]]
          OBVIOUS
        <4> HIDE DEF g
        <4> QED
          BY <3>3, <4>1
      <3>5. SplitsTo(text, m, g)
        BY <1>1, <3>4
      <3> QED
        BY <2>1, <3>5
    <2> QED
      BY <2>2, <2>3
  <1> QED
    BY <1>2

LEMMA SplitReads ==
    ASSUME NEW S, NEW text \in Seq(S)
    PROVE  \E r : SplitsTo(text, Len(text), r) /\ Split(text) = r[Len(text)]
  <1> DEFINE read == CHOOSE r : SplitsTo(text, Len(text), r)
  <1>1. SplitsTo(text, Len(text), read)
    BY LenProperties, SplitExists
  <1>2. Split(text) = read[Len(text)]
    BY DEF Split, SplitsTo
  <1> QED
    BY <1>1, <1>2

\* After position p of text comes the i-th name, without a comma.
Spelled(names, i, text, n, p) ==
    /\ p \in Nat /\ p + Len(names[i]) <= n
    /\ \A j \in 1..Len(names[i]) : /\ text[p + j] = names[i][j]
                                   /\ names[i][j] # Comma

\* A name without a comma is read word by word.
LEMMA ReadsName ==
    ASSUME NEW S, NEW names \in Seq(Seq(S)), NEW i \in 1..Len(names),
           NEW text, NEW n \in Nat, NEW r, SplitsTo(text, n, r),
           NEW p, Spelled(names, i, text, n, p), r[p] = Sofar(names, i, 0)
    PROVE  r[p + Len(names[i])] = Sofar(names, i, Len(names[i]))
  <1> DEFINE l == Len(names[i])
             Bad == {j \in 0..l : r[p + j] # Sofar(names, i, j)}
  <1>0. /\ l \in Nat /\ p \in Nat /\ p + l <= n
        /\ \A j \in 1..l : text[p + j] = names[i][j] /\ names[i][j] # Comma
    BY LenProperties, ElementOfSeq DEF Spelled
  <1>1. ASSUME Bad # {} PROVE FALSE
    <2>1. PICK j \in Bad : \A k \in Bad : j <= k
      <3>1. Bad \subseteq Nat
        BY <1>0
      <3> HIDE DEF Bad
      <3> QED
        BY <1>1, <3>1, LeastNat
    <2>2. j \in 0..l /\ r[p + j] # Sofar(names, i, j)
      BY <2>1
    <2>3. j # 0
      BY <1>0, <2>2
    <2>4. j \in 1..l /\ j - 1 \in 0..l /\ j - 1 \notin Bad
      BY <1>0, <2>1, <2>2, <2>3, SMTT(60)
    <2>5. r[p + (j - 1)] = Sofar(names, i, j - 1)
      BY <2>4
    <2> DEFINE q == p + j
               a == Sofar(names, i, j - 1)
    <2>6. q \in 0..n /\ q # 0 /\ q - 1 = p + (j - 1)
      BY <1>0, <2>4
    <2>7. text[q] = names[i][j] /\ text[q] # Comma
      BY <1>0, <2>4
    <2>8. Len(a) = i
      <3> DEFINE k == j - 1
      <3>1. k \in 0..Len(names[i])
        BY <2>4
      <3> HIDE DEF k
      <3>2. Len(Sofar(names, i, k)) = i
        BY <3>1, SofarType
      <3> QED
        BY <3>2 DEF k
    <2>9. r[p + (j - 1)] = a
      BY <2>5
    <2>10. [a EXCEPT ![i] = Append(@, names[i][j])] = Sofar(names, i, j)
      BY <2>4, SofarGrows
    <2>11. r[q] # Sofar(names, i, j)
      BY <2>2, Zenon
    <2> HIDE DEF q, a, l
    <2>12. r[q] = [r[q - 1] EXCEPT ![Len(r[q - 1])] = Append(@, text[q])]
      BY <2>6, <2>7 DEF SplitsTo
    <2>13. r[q - 1] = a
      BY <2>6, <2>9
    <2>14. r[q] = [a EXCEPT ![i] = Append(@, names[i][j])]
      BY <2>7, <2>8, <2>12, <2>13
    <2> QED
      BY <2>10, <2>11, <2>14
  <1>2. l \in 0..l
    BY <1>0
  <1> QED
    BY <1>1, <1>2

\* The i-th name begins in text after position at[i]; a comma is before it.
Laid(names, text, at) ==
    \A i \in 1..Len(names) :
      /\ at[i] \in Nat /\ at[i] + Len(names[i]) <= Len(text)
      /\ \A j \in 1..Len(names[i]) : text[at[i] + j] = names[i][j]
      /\ i = 1 => at[i] = 0
      /\ i > 1 => at[i] = at[i - 1] + Len(names[i - 1]) + 1 /\ text[at[i]] = Comma
      /\ i = Len(names) => at[i] + Len(names[i]) = Len(text)

JoinParts(names) ==
    [i \in DOMAIN names |-> IF i = 1 THEN names[i] ELSE <<Comma>> \o names[i]]

\* Each part after the first is a comma and a name.
PartsOf(S, names, parts) ==
    /\ parts \in Seq(Seq(S)) /\ Len(parts) = Len(names)
    /\ \A i \in 1..Len(names) :
         /\ parts[i] \in Seq(S)
         /\ i = 1 => parts[i] = names[i]
         /\ i # 1 => /\ Len(parts[i]) = 1 + Len(names[i]) /\ parts[i][1] = Comma
                     /\ \A j \in 1..Len(names[i]) : parts[i][1 + j] = names[i][j]

LEMMA JoinsParts ==
    ASSUME NEW S, Comma \in S, NEW names \in Seq(Seq(S))
    PROVE  PartsOf(S, names, JoinParts(names))
  <1> DEFINE n == Len(names)
             parts == JoinParts(names)
  <1>1. n \in Nat /\ DOMAIN names = 1..n /\ \A i \in 1..n : names[i] \in Seq(S)
    BY LenProperties, ElementOfSeq
  <1>2. ASSUME NEW i \in 1..n
        PROVE  /\ <<Comma>> \o names[i] \in Seq(S)
               /\ Len(<<Comma>> \o names[i]) = 1 + Len(names[i])
               /\ (<<Comma>> \o names[i])[1] = Comma
               /\ \A j \in 1..Len(names[i]) : (<<Comma>> \o names[i])[1 + j] = names[i][j]
    <2> DEFINE c == <<Comma>>
               m == names[i]
               l == Len(m)
    <2>1. c \in Seq(S) /\ Len(c) = 1 /\ c[1] = Comma /\ m \in Seq(S) /\ l \in Nat
      BY <1>1
    <2> HIDE DEF c, m
    <2>2. /\ c \o m \in Seq(S) /\ Len(c \o m) = 1 + l
          /\ \A k \in 1..1 + l : (c \o m)[k] = IF k <= 1 THEN c[k] ELSE m[k - 1]
      <3>1. /\ c \o m \in Seq(S) /\ Len(c \o m) = Len(c) + Len(m)
            /\ \A k \in 1..Len(c) + Len(m) :
                 (c \o m)[k] = IF k <= Len(c) THEN c[k] ELSE m[k - Len(c)]
        BY <2>1, ConcatProperties
      <3> HIDE DEF l
      <3>2. Len(c) = 1 /\ Len(m) = l
        BY <2>1 DEF l
      <3> QED
        BY <3>1, <3>2
    <2> HIDE DEF l
    <2>3. 1 \in 1..1 + l /\ 1 <= 1
      BY <2>1
    <2>4. \A j \in 1..l : 1 + j \in 1..1 + l /\ ~(1 + j <= 1) /\ 1 + j - 1 = j
      BY <2>1
    <2>5. (c \o m)[1] = Comma
      BY <2>1, <2>2, <2>3
    <2>6. ASSUME NEW j \in 1..l PROVE (c \o m)[1 + j] = m[j]
      <3> DEFINE k == 1 + j
      <3>1. k \in 1..1 + l /\ ~(k <= 1) /\ k - 1 = j
        BY <2>4
      <3> HIDE DEF k
      <3>2. (c \o m)[k] = m[k - 1]
        BY <2>2, <3>1
      <3> QED
        BY <3>1, <3>2 DEF k
    <2> QED
      BY <2>2, <2>5, <2>6 DEF c, m, l
  <1>3. parts = [i \in 1..n |-> IF i = 1 THEN names[i] ELSE <<Comma>> \o names[i]]
    BY <1>1 DEF JoinParts
  <1>4. \A i \in 1..n : parts[i] = IF i = 1 THEN names[i] ELSE <<Comma>> \o names[i]
    BY <1>3
  <1>5. \A i \in 1..n : parts[i] \in Seq(S)
    BY <1>1, <1>2, <1>4
  <1> HIDE DEF parts, n
  <1>6. parts \in [1..n -> Seq(S)]
    BY <1>3, <1>5
  <1>7. parts \in Seq(Seq(S)) /\ Len(parts) = n
    BY <1>1, <1>6
  <1>8. ASSUME NEW i \in 1..n
        PROVE  /\ parts[i] \in Seq(S)
               /\ i = 1 => parts[i] = names[i]
               /\ i # 1 => /\ Len(parts[i]) = 1 + Len(names[i]) /\ parts[i][1] = Comma
                           /\ \A j \in 1..Len(names[i]) : parts[i][1 + j] = names[i][j]
    BY <1>2, <1>4, <1>5, ZenonT(60)
  <1> QED
    BY <1>7, <1>8 DEF PartsOf, parts, n

LEMMA JoinLaid ==
    ASSUME NEW S, Comma \in S, NEW names \in Seq(Seq(S)), names # <<>>
    PROVE  /\ Join(names).text \in Seq(S)
           /\ \E at : Laid(names, Join(names).text, at)
  <1> DEFINE n == Len(names)
             parts == JoinParts(names)
             text == Join(names).text
  <1>1. n \in Nat \ {0} /\ \A i \in 1..n : names[i] \in Seq(S) /\ Len(names[i]) \in Nat
    BY EmptySeq, LenProperties, ElementOfSeq
  <1>2. text = FlattenSeq(parts)
    BY DEF Join, JoinParts, Text
  <1>3. PartsOf(S, names, parts)
    BY JoinsParts
  <1> HIDE DEF n, parts, text
  <1>4. /\ parts \in Seq(Seq(S)) /\ Len(parts) = n
        /\ \A i \in 1..n :
             /\ parts[i] \in Seq(S)
             /\ i = 1 => parts[i] = names[i]
             /\ i # 1 => /\ Len(parts[i]) = 1 + Len(names[i]) /\ parts[i][1] = Comma
                         /\ \A j \in 1..Len(names[i]) : parts[i][1 + j] = names[i][j]
    BY <1>3 DEF PartsOf, n
  <1>5. PICK f : Rec(parts, n, f) /\ FlattenSeq(parts) = f[n]
    <2>1. parts # <<>>
      BY <1>1, <1>4, EmptySeq
    <2> QED
      BY <1>4, <2>1, FlattenBuilds
  <1>6. Made(S, parts, n, f)
    <2>1. Parts(S, parts, n)
      BY <1>1, <1>4 DEF Parts
    <2> QED
      BY <1>5, <2>1, RecMade
  <1>7. Wholes(S, n, f) /\ Joined(parts, n, f) /\ \A i \in 1..n : Stays(n, f, i)
    BY <1>6, MadeWholes, MadeJoined, MadeStays
  <1>8. text = f[n] /\ text \in Seq(S)
    BY <1>1, <1>2, <1>5, <1>7 DEF Wholes
  <1>9. \A i \in 1..n : /\ Len(f[i]) \in Nat /\ Len(f[i]) <= Len(text)
                        /\ \A j \in 1..Len(f[i]) : text[j] = f[i][j]
    <2>1. \A i \in 1..n : Len(f[i]) \in Nat
      BY <1>7, LenProperties DEF Wholes
    <2>2. \A i \in 1..n : n \in i..n
      BY <1>1
    <2> QED
      BY <1>7, <1>8, <2>1, <2>2 DEF Stays
  <1> DEFINE at == [i \in 1..n |-> Len(f[i]) - Len(names[i])]
  <1>10. ASSUME NEW i \in 1..n
         PROVE  /\ at[i] \in Nat /\ at[i] + Len(names[i]) = Len(f[i])
                /\ \A j \in 1..Len(names[i]) : text[at[i] + j] = names[i][j]
                /\ i = 1 => at[i] = 0
                /\ i > 1 => at[i] = Len(f[i - 1]) + 1 /\ text[at[i]] = Comma
    <2> DEFINE b == Len(f[i])
               l == Len(names[i])
               o == at[i]
    <2>1. b \in Nat /\ l \in Nat /\ o = b - l
      BY <1>1, <1>9
    <2>2. CASE i = 1
      <3>1. f[i] = names[i]
        BY <1>4, <1>6, <2>2 DEF Made
      <3>2. b = l /\ \A j \in 1..l : text[j] = names[i][j]
        BY <1>9, <3>1
      <3> HIDE DEF at, b, l
      <3>3. o = 0 /\ o + l = b /\ ~(i > 1) /\ \A j \in 1..l : o + j = j
        BY <2>1, <2>2, <3>2
      <3>4. \A j \in 1..l : text[o + j] = names[i][j]
        BY <3>2, <3>3
      <3>5. o \in Nat
        BY <3>3
      <3> QED
        BY <2>2, <3>3, <3>4, <3>5 DEF b, l
    <2>3. CASE i # 1
      <3> DEFINE p == Len(f[i - 1])
                 m == names[i]
      <3>1. i \in 2..n /\ i - 1 \in 1..n /\ i > 1
        BY <1>1, <2>3
      <3>2. p \in Nat
        BY <1>9, <3>1
      <3>3. /\ b = p + (1 + l) /\ parts[i][1] = Comma
            /\ \A j \in 1..l : parts[i][1 + j] = m[j]
            /\ \A j \in 1..1 + l : f[i][p + j] = parts[i][j]
        <4>1. /\ Len(parts[i]) = 1 + l /\ parts[i][1] = Comma
              /\ \A j \in 1..l : parts[i][1 + j] = m[j]
          BY <1>4, <2>3
        <4>2. /\ b = p + Len(parts[i])
              /\ \A j \in 1..Len(parts[i]) : f[i][p + j] = parts[i][j]
          BY <1>7, <3>1 DEF Joined
        <4> QED
          BY <4>1, <4>2
      <3>4. \A j \in 1..b : text[j] = f[i][j]
        BY <1>9
      <3> HIDE DEF b, l, p, m, at
      <3>5. o = p + 1 /\ o \in Nat /\ o + l = b
        BY <2>1, <3>2, <3>3
      <3>6. 1 \in 1..1 + l /\ p + 1 \in 1..b
        BY <2>1, <3>2, <3>3
      <3>7. text[o] = Comma
        BY <3>3, <3>4, <3>5, <3>6
      <3>8. ASSUME NEW j \in 1..l PROVE text[o + j] = m[j]
        <4>1. 1 + j \in 1..1 + l /\ p + (1 + j) \in 1..b /\ o + j = p + (1 + j)
          BY <2>1, <3>2, <3>3, <3>5
        <4> QED
          BY <3>3, <3>4, <4>1
      <3> QED
        BY <2>3, <3>1, <3>5, <3>7, <3>8 DEF b, l, p, m
    <2> QED
      BY <2>2, <2>3
  <1> HIDE DEF at
  <1>11. Laid(names, text, at)
    <2> SUFFICES ASSUME NEW i \in 1..n
                 PROVE  /\ at[i] \in Nat /\ at[i] + Len(names[i]) <= Len(text)
                        /\ \A j \in 1..Len(names[i]) : text[at[i] + j] = names[i][j]
                        /\ i = 1 => at[i] = 0
                        /\ i > 1 => /\ at[i] = at[i - 1] + Len(names[i - 1]) + 1
                                    /\ text[at[i]] = Comma
                        /\ i = n => at[i] + Len(names[i]) = Len(text)
      BY DEF Laid, n
    <2>1. i > 1 => i - 1 \in 1..n
      BY <1>1
    <2> QED
      BY <1>8, <1>9, <1>10, <2>1
  <1> QED
    BY <1>8, <1>11 DEF text

\* Splitting is the inverse of joining.
LEMMA SplitJoins ==
    ASSUME NEW names \in Seq(Names), names # <<>>
    PROVE  Split(Join(names).text) = names
  <1> DEFINE S == (UNION {ToSet(m) : m \in Names}) \union {Comma}
             n == Len(names)
             text == Join(names).text
  <1>1. names \in Seq(Seq(S)) /\ Comma \in S
    <2>1. \A m \in Names : m \in Seq(ToSet(m)) /\ ToSet(m) \subseteq S
      BY NamesAssumption
    <2>2. Names \subseteq Seq(S)
      <3> HIDE DEF S
      <3> QED
        BY <2>1, SeqMonotonic
    <2>3. Comma \in S
      OBVIOUS
    <2> HIDE DEF S
    <2> QED
      BY <2>2, <2>3, SeqMonotonic
  <1>2. \A i \in 1..n : \A j \in 1..Len(names[i]) : names[i][j] # Comma
    <2>1. \A i \in 1..n : names[i] \in Names
      BY ElementOfSeq
    <2>2. \A m \in Names : DOMAIN m = 1..Len(m)
      BY NamesAssumption, LenProperties
    <2> QED
      BY <2>1, <2>2, NamesAssumption
  <1> HIDE DEF S
  <1>3. /\ n \in Nat \ {0} /\ n \in 1..n
        /\ \A i \in 1..n : names[i] \in Seq(S) /\ Len(names[i]) \in Nat
    BY <1>1, EmptySeq, LenProperties, ElementOfSeq
  <1>4. text \in Seq(S) /\ \E at : Laid(names, text, at)
    BY <1>1, JoinLaid
  <1>5. PICK at : Laid(names, text, at)
    BY <1>4
  <1>6. PICK r : SplitsTo(text, Len(text), r) /\ Split(text) = r[Len(text)]
    BY <1>4, SplitReads
  <1> HIDE DEF text
  <1>7. Len(text) \in Nat
    BY <1>4, LenProperties
  <1> DEFINE Read(i) == r[at[i] + Len(names[i])] = Sofar(names, i, Len(names[i]))
  <1>8. ASSUME NEW i \in 1..n, r[at[i]] = Sofar(names, i, 0) PROVE Read(i)
    <2> DEFINE p == at[i]
               l == Len(names[i])
    <2>1. /\ p \in Nat /\ p + l <= Len(text) /\ l \in 0..l
          /\ \A j \in 1..l : text[p + j] = names[i][j]
      BY <1>3, <1>5 DEF Laid
    <2>2. \A j \in 1..l : names[i][j] # Comma
      BY <1>2
    <2>3. r[p] = Sofar(names, i, 0)
      BY <1>8
    <2>4. Spelled(names, i, text, Len(text), p)
      BY <2>1, <2>2 DEF Spelled
    <2> HIDE DEF p
    <2>5. i \in 1..Len(names)
      OBVIOUS
    <2> HIDE DEF l, n
    <2>6. r[p + Len(names[i])] = Sofar(names, i, Len(names[i]))
      BY <1>1, <1>6, <1>7, <2>3, <2>4, <2>5, ReadsName
    <2> QED
      BY <2>6 DEF p
  <1>9. \A i \in 1..n : Read(i)
    <2> DEFINE Bad == {i \in 1..n : ~Read(i)}
    <2>1. ASSUME Bad # {} PROVE FALSE
      <3>1. PICK i \in Bad : \A k \in Bad : i <= k
        <4>1. Bad \subseteq Nat
          BY <1>3
        <4> HIDE DEF Bad
        <4> QED
          BY <2>1, <4>1, LeastNat
      <3>2. i \in 1..n /\ ~Read(i)
        BY <3>1
      <3>3. r[at[i]] # Sofar(names, i, 0)
        BY <1>8, <3>2
      <3>4. CASE i = 1
        <4>1. at[i] = 0 /\ 0 \in 0..Len(text)
          BY <1>5, <1>7, <3>2, <3>4 DEF Laid
        <4>2. r[0] = <<<<>>>>
          BY <4>1, <1>6 DEF SplitsTo
        <4>3. Sofar(names, 1, 0) = <<<<>>>>
          BY <1>1, SofarEnds
        <4> QED
          BY <3>3, <3>4, <4>1, <4>2, <4>3
      <3>5. CASE i # 1
        <4> DEFINE h == i - 1
                   q == at[i]
                   l == Len(names[h])
        <4>1. h \in 1..n /\ i > 1 /\ h \notin Bad
          BY <1>3, <3>1, <3>2, <3>5
        <4>2. r[at[h] + l] = Sofar(names, h, l)
          BY <4>1
        <4>3. /\ q = at[h] + l + 1 /\ text[q] = Comma
              /\ at[h] \in Nat /\ l \in Nat
              /\ q + Len(names[i]) <= Len(text) /\ Len(names[i]) \in Nat
          BY <1>3, <1>5, <3>2, <4>1 DEF Laid
        <4>4. Append(Sofar(names, h, l), <<>>) = Sofar(names, i, 0)
          <5>1. i \in 1..Len(names) /\ i > 1
            BY <3>2, <4>1
          <5> QED
            BY <1>1, <5>1, SofarBegins, SMTT(60)
        <4> HIDE DEF h, q, l
        <4>5. q \in 0..Len(text) /\ q # 0 /\ q - 1 = at[h] + l
          BY <1>7, <4>3
        <4>6. r[q] = Append(r[q - 1], <<>>)
          BY <1>6, <4>3, <4>5 DEF SplitsTo
        <4>7. r[q] = Sofar(names, i, 0)
          BY <4>2, <4>4, <4>5, <4>6
        <4> QED
          BY <3>3, <4>7 DEF q
      <3> QED
        BY <3>4, <3>5
    <2> QED
      BY <2>1
  <1>10. at[n] + Len(names[n]) = Len(text)
    BY <1>3, <1>5 DEF Laid
  <1>11. Sofar(names, n, Len(names[n])) = names
    BY <1>1, SofarEnds
  <1>12. r[at[n] + Len(names[n])] = Sofar(names, n, Len(names[n]))
    BY <1>3, <1>9
  <1> QED
    BY <1>6, <1>10, <1>11, <1>12 DEF text

-----------------------------------------------------------------------------
(* What the CLI reads is the Config.                                       *)

LEMMA ValuesHeld ==
    ASSUME NEW args, NEW flag, Word(flag) \notin Switches, NEW on, NEW arg,
           Holds(args, flag, on, arg)
    PROVE  Values(args, flag) = IF on THEN {arg} ELSE {}
  <1>1. ASSUME NEW v PROVE v \in Values(args, flag) <=> <<Word(flag), v>> \in Paired(args)
    BY DEF Values, Paired
  <1>2. \A v : v \in Values(args, flag) <=> on /\ v = arg
    BY <1>1 DEF Holds
  <1> QED
    BY <1>2

\* The external servers, and the SDK's whose names they do not have.
LEMMA MergedServers ==
    ASSUME NEW c
    PROVE  LET Named(servers) == IF servers = NoValue THEN {} ELSE DOMAIN servers
           IN Merged(c) = {<<s, IF s \in Named(c.external)
                                THEN c.external[s] ELSE c.sdk[s]>> :
                            s \in Named(c.external) \union Named(c.sdk)}
  <1> DEFINE Named(servers) == IF servers = NoValue THEN {} ELSE DOMAIN servers
             X == Named(c.external)
             K == Named(c.sdk)
             Ext(s) == <<s, c.external[s]>>
             Sdk(s) == <<s, c.sdk[s]>>
  <1>1. MembersOf(c.external) = {Ext(s) : s \in X}
    BY DEF MembersOf
  <1>2. MembersOf(c.sdk) = {Sdk(s) : s \in K}
    BY DEF MembersOf
  <1>3. \A s : Ext(s)[1] = s /\ Sdk(s)[1] = s
    OBVIOUS
  <1>4. \A s : <<s, IF s \in X THEN c.external[s] ELSE c.sdk[s]>>
               = IF s \in X THEN Ext(s) ELSE Sdk(s)
    OBVIOUS
  <1>5. {<<s, IF s \in X THEN c.external[s] ELSE c.sdk[s]>> : s \in X \union K}
          = {IF s \in X THEN Ext(s) ELSE Sdk(s) : s \in X \union K}
    BY <1>4
  <1> HIDE DEF X, K, Ext, Sdk
  <1>6. {m \in {Sdk(s) : s \in K} : \A n \in {Ext(s) : s \in X} : n[1] # m[1]}
          = {Sdk(s) : s \in K \ X}
    BY <1>3
  <1>7. {Ext(s) : s \in X} \union {Sdk(s) : s \in K \ X}
          = {IF s \in X THEN Ext(s) ELSE Sdk(s) : s \in X \union K}
    OBVIOUS
  <1>8. Merged(c) = {<<s, IF s \in X THEN c.external[s] ELSE c.sdk[s]>> : s \in X \union K}
    BY <1>1, <1>2, <1>5, <1>6, <1>7 DEF Merged
  <1> QED
    BY <1>8 DEF X, K

\* A text that is an option is none only when it was set, and each that is not
\* empty is an option.
GivesTexts(c, given) ==
    \A f \in DOMAIN TextOptionOf :
      /\ f \in given => c[f] # NoValue
      /\ c[f] \notin {NoValue, <<>>} => f \in given

LEMMA ReadsWhatIsGiven ==
    ASSUME \A f \in DOMAIN ListOptionOf : config[f] \in Seq(Names),
           NEW given, GivesTexts(config, given), NEW writer
    PROVE  ReadsBackFrom(ToCliArgs(config, given, writer))
  <1> DEFINE args == ToCliArgs(config, given, writer)
  <1>1. Carries(args, config, given, writer)
    BY ArgvCarries
  <1> HIDE DEF args
  <1>2. ASSUME NEW f \in DOMAIN SwitchOf
        PROVE  config[f] <=> \E i \in OptionsOf(args) : args[i] = Word(SwitchOf[f])
    BY <1>1 DEF Carries, Found
  <1>3. ASSUME NEW f \in DOMAIN TextOptionOf
        PROVE  Values(args, TextOptionOf[f]) \ {Text(<<>>)} =
                 IF config[f] \in {NoValue, <<>>} THEN {} ELSE {Text(config[f])}
    <2>1. Word(TextOptionOf[f]) \notin Switches
      BY SwitchWords DEF TextOptionOf
    <2>2. Holds(args, TextOptionOf[f], f \in given, Text(config[f]))
      BY <1>1 DEF Carries
    <2>3. Values(args, TextOptionOf[f]) = IF f \in given THEN {Text(config[f])} ELSE {}
      <3> DEFINE on == f \in given
                 text == Text(config[f])
      <3>1. Holds(args, TextOptionOf[f], on, text)
        BY <2>2
      <3> HIDE DEF on, text
      <3>2. Values(args, TextOptionOf[f]) = IF on THEN {text} ELSE {}
        BY <2>1, <3>1, ValuesHeld
      <3> QED
        BY <3>2 DEF on, text
    <2>4. Text(config[f]) = Text(<<>>) <=> config[f] = <<>>
      BY DEF Text
    <2> QED
      BY <2>3, <2>4 DEF GivesTexts
  <1>4. ASSUME NEW f \in DOMAIN ListOptionOf
        PROVE  {Split(v.text) : v \in Values(args, ListOptionOf[f])} =
                 IF config[f] = <<>> THEN {} ELSE {config[f]}
    <2>1. Word(ListOptionOf[f]) \notin Switches
      BY SwitchWords DEF ListOptionOf
    <2>2. Holds(args, ListOptionOf[f], config[f] # <<>>, Join(config[f]))
      BY <1>1 DEF Carries
    <2>3. Values(args, ListOptionOf[f]) =
            IF config[f] # <<>> THEN {Join(config[f])} ELSE {}
      BY <2>1, <2>2, ValuesHeld
    <2>4. config[f] # <<>> => Split(Join(config[f]).text) = config[f]
      BY SplitJoins
    <2> QED
      BY <2>3, <2>4
  <1>5. Values(args, "--max-thinking-tokens") =
          IF config.max_thinking_tokens = NoValue THEN {}
          ELSE {Word(ToString(config.max_thinking_tokens))}
    <2>1. Holds(args, "--max-thinking-tokens", config.max_thinking_tokens # NoValue,
                Word(ToString(config.max_thinking_tokens)))
      BY <1>1 DEF Carries
    <2> QED
      BY <2>1, SwitchWords, ValuesHeld
  <1>6. UNION {v.json : v \in Values(args, "--mcp-config")} = Merged(config)
    <2>1. Holds(args, "--mcp-config", Merged(config) # {}, Json(writer, Merged(config)))
      BY <1>1 DEF Carries
    <2>2. Values(args, "--mcp-config") =
            IF Merged(config) # {} THEN {Json(writer, Merged(config))} ELSE {}
      BY <2>1, SwitchWords, ValuesHeld
    <2>3. Json(writer, Merged(config)).json = Merged(config)
      BY DEF Json
    <2> QED
      BY <2>2, <2>3
  <1>7. {v.json : v \in Values(args, "--settings")} =
          IF config.sandbox_enabled THEN {Sandbox(config)} ELSE {}
    <2>1. Holds(args, "--settings", config.sandbox_enabled, Json(writer, Sandbox(config)))
      BY <1>1 DEF Carries
    <2>2. Values(args, "--settings") =
            IF config.sandbox_enabled THEN {Json(writer, Sandbox(config))} ELSE {}
      BY <2>1, SwitchWords, ValuesHeld
    <2>3. Json(writer, Sandbox(config)).json = Sandbox(config)
      BY DEF Json
    <2> QED
      BY <2>2, <2>3
  <1> QED
    BY <1>2, <1>3, <1>4, <1>5, <1>6, <1>7, MergedServers DEF ReadsBackFrom, args

\* Each language writes the texts that are not empty, and no missing one.
LEMMA LanguagesGive ==
    ASSUME NEW c PROVE GivesTexts(c, PyGiven(c)) /\ GivesTexts(c, RsGiven(c))
  <1>1. DOMAIN TextOptionOf = TextFields
    BY DEF TextOptionOf, TextFields
  <1> QED
    BY <1>1 DEF GivesTexts, PyGiven, RsGiven

\* The lists of the Config are of names, and what is built is of this Config.
Built ==
    /\ DOMAIN config = DOMAIN Settable
    /\ \A f \in DOMAIN ListOptionOf : config[f] \in Seq(Names)
    /\ invocation # NotBuilt =>
         /\ invocation.py = PyArgs(config)
         /\ invocation.rust = RsArgs(config)

\* to_cli_args of config.py and config.rs: read as the CLI reads options, the
\* argv of either language gives back every switch, text, list, number and
\* server of the Config it was built from and nothing else, for all texts, also
\* those that look like options, and all names without a comma.
THEOREM ArgvReadsBack == ConfigSpec => []ReadsBack
  <1>1. ConfigInit => Built
    <2>1. DOMAIN Empty = DOMAIN Settable
      BY DEF Empty, Settable
    <2>2. \A f \in DOMAIN ListOptionOf : Empty[f] = <<>>
      BY DEF Empty, ListOptionOf
    <2>3. <<>> \in Seq(Names)
      BY EmptySeq
    <2> QED
      BY <2>1, <2>2, <2>3 DEF ConfigInit, Built
  <1>2. Built /\ [ConfigNext]_configVars => Built'
    <2> SUFFICES ASSUME Built, [ConfigNext]_configVars PROVE Built'
      OBVIOUS
    <2>1. ASSUME NEW field \in DOMAIN Settable, NEW value \in Settable[field],
                 SetField(field, value)
          PROVE  Built'
      <3>1. \A f \in DOMAIN ListOptionOf : f \in DOMAIN Settable /\ Settable[f] = NameLists
        BY DEF ListOptionOf, Settable
      <3>2. NameLists \subseteq Seq(Names)
        BY DEF NameLists, BoundedSeq, SeqOf
      <3>3. config' = [config EXCEPT ![field] = value] /\ invocation' = NotBuilt
        BY <2>1 DEF SetField
      <3>4. \A f \in DOMAIN Settable : config'[f] = IF f = field THEN value ELSE config[f]
        BY <3>3 DEF Built
      <3>5. \A f \in DOMAIN ListOptionOf : config'[f] \in Seq(Names)
        BY <3>1, <3>2, <3>4 DEF Built
      <3>6. DOMAIN config' = DOMAIN Settable
        BY <3>3 DEF Built
      <3> QED
        BY <3>3, <3>5, <3>6 DEF Built
    <2>2. ASSUME NEW env, Build(env) PROVE Built'
      BY <2>2 DEF Build, Built
    <2>3. CASE UNCHANGED configVars
      BY <2>3 DEF configVars, Built
    <2> QED
      BY <2>1, <2>2, <2>3 DEF ConfigNext
  <1>3. Built => ReadsBack
    BY ReadsWhatIsGiven, LanguagesGive DEF Built, ReadsBack, PyArgs, RsArgs
  <1> QED
    BY <1>1, <1>2, <1>3, PTL DEF ConfigSpec
=============================================================================
