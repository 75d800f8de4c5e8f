--------------------------- MODULE DirectConnection ---------------------------
(***************************************************************************)
(* py/claudewire/direct.py: DirectProcessConnection and its _LocalProcess  *)
(* objects, with the CLI processes and asyncio around them.                *)
(*                                                                         *)
(* One asyncio loop runs everything, so a step is what a coroutine does    *)
(* from one await to the next.  Three kinds of coroutine are there: calls  *)
(* of spawn and kill (one per task, call[k]), and for each process a       *)
(* stdout reader and a stderr reader.  register, unregister and send_stdin *)
(* do not wait and are operators a caller's step uses.                     *)
(*                                                                         *)
(* Queues and processes are objects: a name reaches one of each through    *)
(* the two dictionaries, but a coroutine that holds an object keeps it     *)
(* when the name is reused.                                                *)
(***************************************************************************)
EXTENDS Integers, Sequences, FiniteSets, SequencesExt

CONSTANTS
    Names,           \* the names processes are registered under
    Procs,           \* _LocalProcess objects, each with its CLI process
    Queues,          \* asyncio.Queue objects
    Tasks,           \* asyncio tasks that call the connection
    None,
    Kinds,           \* the kinds of stdout line the CLI prints
    MaxOut, MaxErr   \* bounds: lines a process prints on stdout and stderr

\* message: a message for the host.  bare: a bare duplicate of a stream
\* event.  invalid: a message the schema has errors for.  rejected: one that
\* makes read_messages raise (not an object, or an error in strict mode).
\* request: a can_use_tool control request.  invalid request: one the schema
\* has errors for.  junk: empty or not JSON.  breaking: over the 64 KiB limit
\* of readline, or not UTF-8.
AllKinds == {"message", "bare", "invalid", "rejected", "request",
             "invalid request", "junk", "breaking"}

ASSUME KindsAssumption == Kinds \subseteq AllKinds
ASSUME BoundsAssumption == MaxOut \in Nat /\ MaxErr \in Nat
ASSUME NoneAssumption == None \notin Procs \union Queues

VARIABLES
    \* the dictionaries of DirectProcessConnection
    processes,       \* _processes: a name's _LocalProcess, or None
    queues,          \* _queues: a name's queue, or None
    \* objects
    content,         \* what each queue holds
    made,            \* the queues created so far
    lp,              \* the _LocalProcess objects and their CLIs
    call,            \* where each task is inside spawn or kill
    \* history
    printed          \* every line each CLI put on its pty

connVars == <<processes, queues, content, made, lp, call, printed>>

-----------------------------------------------------------------------------
Line == [proc : Procs, id : 1..MaxOut, kind : Kinds]
ErrLine == [proc : Procs, id : 1..MaxErr]

Stdout(l)  == [type |-> "stdout", line |-> l]
Stderr(l)  == [type |-> "stderr", line |-> l]
ExitFrom(p) == [type |-> "exit", from |-> p]

\* The fields of a _LocalProcess, the state of the process it started, and
\* what is in the pipes between them.
LocalProcess ==
    [os     : {"none", "running", "exited", "reaped"},
     handle : BOOLEAN,       \* _proc is not None
     stdin  : {"open", "closed"},
     pty    : {"none", "open", "closed"},
     out    : {"none", "created", "reading", "cancelled", "done", "failed"},
     err    : {"none", "reading", "done"},
     pipe   : Seq(Line),
     errs   : Seq(ErrLine),
     logged : 0..MaxErr,
     queue  : Queues \union {None},
     signal : {"none", "term", "kill"}]

Unstarted ==
    [os |-> "none", handle |-> FALSE, stdin |-> "open", pty |-> "none",
     out |-> "none", err |-> "none", pipe |-> <<>>, errs |-> <<>>,
     logged |-> 0, queue |-> None, signal |-> "none"]

\* at: where the task awaits.  "exec" and "pipe" are in spawn, "wait" and
\* "readers" in kill.
Call == [at : {"idle", "exec", "pipe", "wait", "readers"},
         name : Names \union {None}, proc : Procs \union {None}]
Idle == [at |-> "idle", name |-> None, proc |-> None]

ConnInit ==
    /\ processes = [n \in Names |-> None]
    /\ queues = [n \in Names |-> None]
    /\ content = [q \in Queues |-> <<>>]
    /\ made = {}
    /\ lp = [p \in Procs |-> Unstarted]
    /\ call = [k \in Tasks |-> Idle]
    /\ printed = [p \in Procs |-> <<>>]

Fresh == {p \in Procs : lp[p].queue = None}
Alive(p) == lp[p].os = "running"

\* content, after q has got the events of the sequence es.
Put(q, es) == [content EXCEPT ![q] = @ \o es]

-----------------------------------------------------------------------------
(* The CLI processes (external) and asyncio's child watcher.               *)

CliPrint(p, kind) ==
    /\ Alive(p) /\ lp[p].pty # "closed" /\ Len(printed[p]) < MaxOut
    /\ LET l == [proc |-> p, id |-> Len(printed[p]) + 1, kind |-> kind] IN
         /\ lp' = [lp EXCEPT ![p].pipe = Append(@, l)]
         /\ printed' = [printed EXCEPT ![p] = Append(@, l)]
    /\ UNCHANGED <<processes, queues, content, made, call>>

CliLog(p) ==
    /\ Alive(p) /\ lp[p].logged < MaxErr
    /\ lp' = [lp EXCEPT ![p].logged = @ + 1,
                        ![p].errs = Append(@, [proc |-> p,
                                               id |-> lp[p].logged + 1])]
    /\ UNCHANGED <<processes, queues, content, made, call, printed>>

\* SIGTERM does not oblige the CLI to exit; SIGKILL does (see Fairness).
CliExit(p) ==
    /\ Alive(p)
    /\ lp' = [lp EXCEPT ![p].os = "exited"]
    /\ UNCHANGED <<processes, queues, content, made, call, printed>>

\* Mutant: the exit is reported when the process is waited for.
ChildReapedReported(p) ==
    /\ lp[p].os = "exited"
    /\ lp' = [lp EXCEPT ![p].os = "reaped"]
    /\ content' = Put(lp[p].queue, <<ExitFrom(p)>>)
    /\ UNCHANGED <<processes, queues, made, call, printed>>

\* returncode is set.
ChildReaped(p) ==
    /\ lp[p].os = "exited"
    /\ lp' = [lp EXCEPT ![p].os = "reaped"]
    /\ UNCHANGED <<processes, queues, content, made, call, printed>>

-----------------------------------------------------------------------------
(* _read_stdout.  Whatever ends it, its finally clause puts an ExitEvent.  *)

\* The assertion before the try fails if kill came first: no ExitEvent.
StdoutStarts(p) ==
    /\ lp[p].out = "created"
    /\ lp' = [lp EXCEPT ![p].out =
                IF lp[p].pty = "closed" THEN "failed" ELSE "reading"]
    /\ UNCHANGED <<processes, queues, content, made, call, printed>>

ReadLine(p) ==
    /\ lp[p].out = "reading" /\ lp[p].pty = "open" /\ lp[p].pipe # <<>>
    /\ Head(lp[p].pipe).kind # "breaking"
    /\ lp' = [lp EXCEPT ![p].pipe = Tail(@)]
    /\ content' = IF Head(lp[p].pipe).kind = "junk" THEN content
                  ELSE Put(lp[p].queue, <<Stdout(Head(lp[p].pipe))>>)
    /\ UNCHANGED <<processes, queues, made, call, printed>>

\* Mutant: None, the sign of a lost connection, in place of an ExitEvent.
EndStdoutWithNone(p, last) ==
    /\ lp' = [lp EXCEPT ![p].out = "done"]
    /\ content' = Put(lp[p].queue, last \o <<None>>)
    /\ UNCHANGED <<processes, queues, made, call, printed>>

\* Mutant: no finally clause.
EndStdoutSilently(p, last) ==
    /\ lp' = [lp EXCEPT ![p].out = "done"]
    /\ content' = Put(lp[p].queue, last)
    /\ UNCHANGED <<processes, queues, made, call, printed>>

\* What the reader puts when it ends, and the reader afterwards.
EndStdout(p, last) ==
    /\ lp' = [lp EXCEPT ![p].out = "done"]
    /\ content' = Put(lp[p].queue, last \o <<ExitFrom(p)>>)
    /\ UNCHANGED <<processes, queues, made, call, printed>>

\* Mutant: the loop runs while the process does.
ReadWhileRunning(p) ==
    /\ lp[p].out = "reading" /\ lp[p].pty = "open"
    /\ lp[p].os \in {"exited", "reaped"}
    /\ EndStdout(p, <<>>)

\* End of file: the pty has no writer left and is drained.
ReadEof(p) ==
    /\ lp[p].out = "reading" /\ lp[p].pty = "open" /\ lp[p].pipe = <<>>
    /\ lp[p].os \in {"exited", "reaped"}
    /\ EndStdout(p, <<>>)

\* An exception in readline or decode, with the CLI still there.
ReadBreaks(p) ==
    /\ lp[p].out = "reading" /\ lp[p].pty = "open" /\ lp[p].pipe # <<>>
    /\ Head(lp[p].pipe).kind = "breaking"
    /\ EndStdout(p, <<>>)

\* kill closed the pty: the line readline was about to return still goes to
\* the queue, then _pty_reader is None and the loop fails.
ReadClosed(p) ==
    /\ lp[p].out = "reading" /\ lp[p].pty = "closed"
    /\ \/ EndStdout(p, <<>>)
       \/ /\ lp[p].pipe # <<>>
          /\ Head(lp[p].pipe).kind \notin {"breaking", "junk"}
          /\ EndStdout(p, <<Stdout(Head(lp[p].pipe))>>)

ReadCancelled(p) ==
    /\ lp[p].out = "cancelled"
    /\ EndStdout(p, <<>>)

StdoutReader(p) ==
    \/ StdoutStarts(p) \/ ReadLine(p) \/ ReadEof(p) \/ ReadBreaks(p)
    \/ ReadClosed(p) \/ ReadCancelled(p)

(* _read_stderr, which puts nothing when it ends.                          *)

ReadStderr(p) ==
    /\ lp[p].err = "reading" /\ lp[p].handle /\ lp[p].errs # <<>>
    /\ lp' = [lp EXCEPT ![p].errs = Tail(@)]
    /\ content' = Put(lp[p].queue, <<Stderr(Head(lp[p].errs))>>)
    /\ UNCHANGED <<processes, queues, made, call, printed>>

\* End of file, a line that is too long or not UTF-8, or _proc is None: then
\* the line readline was waiting for may still go to the queue.
EndStderr(p) ==
    /\ lp[p].err = "reading"
    /\ \/ lp[p].errs = <<>> /\ ~Alive(p) /\ UNCHANGED content
       \/ lp[p].errs # <<>> /\ UNCHANGED content
       \/ ~lp[p].handle /\ UNCHANGED content
       \/ /\ ~lp[p].handle /\ lp[p].errs # <<>>
          /\ content' = Put(lp[p].queue, <<Stderr(Head(lp[p].errs))>>)
    /\ lp' = [lp EXCEPT ![p].err = "done"]
    /\ UNCHANGED <<processes, queues, made, call, printed>>

StderrReader(p) == ReadStderr(p) \/ EndStderr(p)

-----------------------------------------------------------------------------
(* register, unregister and send_stdin do not wait: a caller's step uses   *)
(* them.                                                                   *)

Register(n, q) ==
    /\ q \notin made
    /\ made' = made \union {q}
    /\ queues' = [queues EXCEPT ![n] = q]

Unregister(n) ==
    /\ queues' = [queues EXCEPT ![n] = None]
    /\ processes' = [processes EXCEPT ![n] = None]

\* Where data sent under a name goes: to no process (dropped without an
\* error), to a handle that is gone (AssertionError), to a closed pipe or a
\* dead reader of it (an error, or dropped), or to a process.
StdinFate(n) ==
    IF processes[n] = None THEN "dropped"
    ELSE LET p == processes[n] IN
         IF ~lp[p].handle THEN "raised"
         ELSE IF lp[p].stdin = "closed" \/ ~Alive(p) THEN "lost"
         ELSE "sent"

-----------------------------------------------------------------------------
(* spawn.                                                                  *)

\* Nothing waits before the fork when no queue is registered (ok = FALSE).
SpawnBegin(k, n) ==
    /\ call[k].at = "idle" /\ queues[n] # None
    /\ \E p \in Fresh :
         /\ lp' = [lp EXCEPT ![p].queue = queues[n]]
         /\ call' = [call EXCEPT ![k] =
                       [at |-> "exec", name |-> n, proc |-> p]]

\* create_subprocess_exec returns: the CLI runs, though nothing reads it.
SpawnExec(k) ==
    /\ call[k].at = "exec"
    /\ lp' = [lp EXCEPT ![call[k].proc].os = "running",
                        ![call[k].proc].handle = TRUE]
    /\ call' = [call EXCEPT ![k].at = "pipe"]
    /\ UNCHANGED <<processes, queues, content, made, printed>>

\* Mutant: the process is not entered into the dictionary.
SpawnDoneUnentered(k) ==
    /\ call[k].at = "pipe"
    /\ lp' = [lp EXCEPT ![call[k].proc].pty = "open",
                        ![call[k].proc].out = "created",
                        ![call[k].proc].err = "reading"]
    /\ call' = [call EXCEPT ![k] = Idle]
    /\ UNCHANGED <<processes, queues, content, made, printed>>

\* connect_read_pipe returns: the readers start, spawn returns ok.
SpawnDone(k) ==
    /\ call[k].at = "pipe"
    /\ lp' = [lp EXCEPT ![call[k].proc].pty = "open",
                        ![call[k].proc].out = "created",
                        ![call[k].proc].err = "reading"]
    /\ processes' = [processes EXCEPT ![call[k].name] = call[k].proc]
    /\ call' = [call EXCEPT ![k] = Idle]
    /\ UNCHANGED <<queues, content, made, printed>>

\* Either of the two raises: spawn returns ok = FALSE.  After the exec the
\* CLI is left running.
SpawnFails(k) ==
    /\ call[k].at \in {"exec", "pipe"}
    /\ call' = [call EXCEPT ![k] = Idle]
    /\ UNCHANGED <<processes, queues, content, made, lp, printed>>

-----------------------------------------------------------------------------
(* kill.                                                                   *)

\* kill has nothing to wait for: no process, or one whose stop has run.
Killed(n) ==
    processes[n] = None
    \/ LET p == processes[n] IN
       ~lp[p].handle /\ lp[p].out \in {"done", "failed"}

\* A reader task after cancel(): one that never ran ends without running.
Cancelled(out) ==
    CASE out = "reading" -> "cancelled"
      [] out = "created" -> "failed"
      [] OTHER -> out

\* _LocalProcess.stop down to its first await.
KillBegin(k, n) ==
    /\ call[k].at = "idle" /\ ~Killed(n)
    /\ LET p == processes[n]
           waits == lp[p].handle /\ lp[p].os # "reaped" IN
         /\ lp' = [lp EXCEPT
                ![p].pty = "closed",
                ![p].stdin = IF lp[p].handle THEN "closed" ELSE @,
                ![p].signal = IF lp[p].handle /\ Alive(p) /\ @ = "none"
                              THEN "term" ELSE @,
                ![p].handle = waits,
                ![p].out = IF waits THEN @ ELSE Cancelled(@)]
         /\ call' = [call EXCEPT ![k] =
                [at |-> IF waits THEN "wait" ELSE "readers",
                 name |-> n, proc |-> p]]

\* The wait is over: _proc becomes None and the stdout reader is cancelled.
LeaveWait(k, signal) ==
    LET p == call[k].proc IN
    /\ lp' = [lp EXCEPT
           ![p].signal = signal,
           ![p].handle = FALSE,
           ![p].out = Cancelled(@)]
    /\ call' = [call EXCEPT ![k].at = "readers"]
    /\ UNCHANGED <<processes, queues, content, made, printed>>

KillWaited(k) ==
    /\ call[k].at = "wait" /\ lp[call[k].proc].os = "reaped"
    /\ LeaveWait(k, lp[call[k].proc].signal)

\* Mutant: no SIGKILL after the timeout.
KillGivesUp(k) ==
    /\ call[k].at = "wait" /\ lp[call[k].proc].os # "reaped"
    /\ lp[call[k].proc].handle
    /\ LeaveWait(k, lp[call[k].proc].signal)

\* Mutant: a wait with no timeout.
KillNeverTimesOut(k) == FALSE

\* Mutant: the name is looked up again after the wait.
KillByName(k) ==
    LET p == processes[call[k].name] IN
    /\ call[k].at = "wait" /\ lp[call[k].proc].os # "reaped"
    /\ p # None
    /\ lp' = [lp EXCEPT ![p].signal = "kill", ![p].handle = FALSE]
    /\ call' = [call EXCEPT ![k].at = "readers"]
    /\ UNCHANGED <<processes, queues, content, made, printed>>

\* Five seconds have passed.
KillTimesOut(k) ==
    /\ call[k].at = "wait" /\ lp[call[k].proc].os # "reaped"
    /\ lp[call[k].proc].handle
    /\ LeaveWait(k, "kill")

\* Another stop of the same object set _proc to None during the wait: the
\* timeout's handler raises AttributeError, and kill with it.
KillRaises(k) ==
    /\ call[k].at = "wait" /\ lp[call[k].proc].os # "reaped"
    /\ ~lp[call[k].proc].handle

\* The readers are done, and kill returns.
KillReturns(k) ==
    /\ call[k].at = "readers"
    /\ lp[call[k].proc].out \in {"done", "failed"}

\* kill ends, with a result or with an exception its callers swallow.
KillEnds(k) ==
    /\ KillReturns(k) \/ KillRaises(k)
    /\ call' = [call EXCEPT ![k] = Idle]

\* The task is cancelled during the wait: neither handler of the wait runs,
\* only its finally clause.
KillCancelled(k) ==
    /\ call[k].at = "wait"
    /\ lp' = [lp EXCEPT ![call[k].proc].handle = FALSE]
    /\ call' = [call EXCEPT ![k] = Idle]

-----------------------------------------------------------------------------
(* The connection with callers that may do anything in any order, and that *)
(* leave the events in the queues.                                         *)

ClientRegister(n) ==
    /\ \E q \in Queues : Register(n, q)
    /\ UNCHANGED <<processes, content, lp, call, printed>>

ClientUnregister(n) ==
    /\ Unregister(n)
    /\ UNCHANGED <<content, made, lp, call, printed>>

ClientSpawn(k, n) ==
    /\ SpawnBegin(k, n)
    /\ UNCHANGED <<processes, queues, content, made, printed>>

ClientKill(k, n) ==
    /\ KillBegin(k, n)
    /\ UNCHANGED <<processes, queues, content, made, printed>>

ClientKillEnds(k) ==
    /\ KillEnds(k)
    /\ UNCHANGED <<processes, queues, content, made, lp, printed>>

Cli(p) == CliLog(p) \/ CliExit(p) \/ \E kind \in Kinds : CliPrint(p, kind)

CallSteps(k) ==
    \/ SpawnExec(k) \/ SpawnDone(k) \/ SpawnFails(k)
    \/ KillWaited(k) \/ KillTimesOut(k)

ConnNext ==
    \/ \E n \in Names : ClientRegister(n) \/ ClientUnregister(n)
    \/ \E k \in Tasks, n \in Names : ClientSpawn(k, n) \/ ClientKill(k, n)
    \/ \E k \in Tasks : CallSteps(k) \/ ClientKillEnds(k)
    \/ \E p \in Procs :
         Cli(p) \/ ChildReaped(p) \/ StdoutReader(p) \/ StderrReader(p)

ConnSpec == ConnInit /\ [][ConnNext]_connVars

\* The loop runs what can run, timers fire, the child watcher sees every
\* exit, and a CLI does not survive SIGKILL.
ConnFairness ==
    /\ \A p \in Procs :
         /\ WF_connVars(StdoutReader(p))
         /\ WF_connVars(StderrReader(p))
         /\ WF_connVars(ChildReaped(p))
         /\ WF_connVars(lp[p].signal = "kill" /\ CliExit(p))
    /\ \A k \in Tasks : WF_connVars(CallSteps(k) \/ ClientKillEnds(k))

FairConnSpec == ConnSpec /\ ConnFairness

-----------------------------------------------------------------------------
(* Properties.                                                             *)

Event == {Stdout(l) : l \in Line} \union {Stderr(l) : l \in ErrLine}
         \union {ExitFrom(p) : p \in Procs}

ConnTypeOK ==
    /\ processes \in [Names -> Procs \union {None}]
    /\ queues \in [Names -> Queues \union {None}]
    /\ content \in [Queues -> Seq(Event)]
    /\ made \subseteq Queues
    /\ lp \in [Procs -> LocalProcess]
    /\ call \in [Tasks -> Call]
    /\ printed \in [Procs -> Seq(Line)]

IsExitFrom(e, p) == e.type = "exit" /\ e.from = p
IsLineFrom(e, p) == e.type = "stdout" /\ e.line.proc = p

\* A process's exit event comes after all its stdout events and only once,
\* whatever ended the reader, and however kill and the reader interleave.
OutputThenExit ==
    \A q \in Queues, p \in Procs : \A i \in DOMAIN content[q] :
        IsExitFrom(content[q][i], p) =>
            \A j \in i + 1..Len(content[q]) :
                ~IsExitFrom(content[q][j], p) /\ ~IsLineFrom(content[q][j], p)

\* A CLI that nobody killed and that printed nothing its reader fails on has
\* all its JSON lines in its queue, nothing else and in their order, when its
\* reader is done.
NothingLostAtEof ==
    \A p \in Procs :
        (/\ lp[p].out = "done" /\ lp[p].pty = "open"
         /\ \A i \in DOMAIN printed[p] : printed[p][i].kind # "breaking")
        => LET events == content[lp[p].queue]
               json   == {i \in DOMAIN printed[p] : printed[p][i].kind # "junk"}
               lines  == {j \in DOMAIN events : IsLineFrom(events[j], p)} IN
           /\ \A i \in json : \E j \in lines : events[j].line = printed[p][i]
           /\ \A j \in lines : \E i \in json : events[j].line = printed[p][i]
           /\ \A i, j \in lines : i < j => events[i].line.id < events[j].line.id

\* Calls reach a process through the dictionary, or are at work on it.
InReach(p) == \/ \E n \in Names : processes[n] = p
              \/ \E k \in Tasks : call[k].proc = p

\* A CLI that runs and was sent no signal gets out of the reach of every call
\* in three ways only: its spawn fails after the exec, another spawn under its
\* name takes its place, or its name is unregistered.
LeftKnowingly(p) ==
    (Alive(p) /\ InReach(p) /\ lp[p].signal = "none" /\ ~InReach(p)') =>
       \/ \E k \in Tasks : /\ call[k].at = "pipe" /\ call[k].proc = p
                           /\ lp'[p].out = "none"
       \/ \E n \in Names : /\ processes[n] = p
                           /\ processes'[n] # None \/ queues'[n] = None
LeftBehindKnowingly == [][\A p \in Procs : LeftKnowingly(p)]_connVars

\* A kill under way ends with the process gone, even if it ignores SIGTERM
\* and however many kills run at once.
KillKills ==
    \A p \in Procs :
        (\E k \in Tasks : call[k].at = "wait" /\ call[k].proc = p)
            ~> ~Alive(p)

\* A process that exits while its reader runs is reported in its queue.
ExitReported ==
    \A p \in Procs :
        (lp[p].os = "exited" /\ lp[p].out \in {"created", "reading"})
            ~> (\/ lp[p].out = "failed"
                \/ \E q \in Queues : \E i \in DOMAIN content[q] :
                        IsExitFrom(content[q][i], p))

\* Every spawn and every kill returns.
CallsReturn == \A k \in Tasks : call[k].at # "idle" ~> call[k].at = "idle"
=============================================================================
