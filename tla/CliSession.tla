------------------------------ MODULE CliSession ------------------------------
(***************************************************************************)
(* rs/src/session.rs: a CliSession and the tasks from_command starts for   *)
(* it.                                                                     *)
(*                                                                         *)
(*    CLI --outPipe--> stdout reader --\                                   *)
(*    CLI --errPipe--> stderr reader ----> chan --> read_message (host)    *)
(*    CLI --exit-----> wait task ------/    ^                              *)
(*    CLI <--cliIn---- stdin writer <-- stdinCh <-- write (host)           *)
(*                                                                         *)
(* The four tasks run concurrently with each other and with the host.  The *)
(* host's own calls take &mut self, so they exclude each other: the only   *)
(* call that waits is read_message, and a host that gives up waiting (a    *)
(* timeout around the future) drops it, which is CancelRead.               *)
(*                                                                         *)
(* A session built by CliSession::new has closures of an external backend  *)
(* in place of the tasks (spawned = FALSE).  The backend is not in the     *)
(* repository: it is taken to be no more orderly than the tasks, and its   *)
(* kill, which is awaited, may take its time, fail, or be dropped.         *)
(***************************************************************************)
EXTENDS Integers, Sequences, SequencesExt

CONSTANTS
    MaxOut,          \* bound: lines the CLI prints on stdout
    MaxErr,          \* bound: lines the CLI prints on stderr
    MaxIn,           \* bound: messages the host writes
    Codes,           \* exit codes of the CLI
    NoCode           \* no exit code: death by a signal, or not known

ASSUME BoundsAssumption == MaxOut \in Nat /\ MaxErr \in Nat /\ MaxIn \in Nat
ASSUME NoCodeAssumption == NoCode \notin Codes

VARIABLES
    spawned,         \* built by from_command (TRUE) or by new (FALSE)
    \* the CLI process and the pipes to it
    proc,            \* "running", "zombie" (exited) or "reaped" (waited for)
    exitStatus,      \* the code it exited with
    pidReused,       \* the pid now names an unrelated process
    outPipe, errPipe, cliIn,
    stdinPipe,       \* what a write to stdin finds: "room", "full", or
                     \* "closed" at the CLI's end
    \* the tasks
    outReader, errReader, inWriter,      \* "open" or "done"
    waitTask,                            \* "waiting", "reaped" or "done"
    stdinCh, chan,                       \* the unbounded mpsc channels
    \* the fields of CliSession
    reconnecting, ready, cliExited, exitCode,
    \* the host
    host,            \* "idle", or "reading" inside read_message
    \* history
    printed,         \* every line the CLI put in outPipe
    logged,          \* the number of lines it put in errPipe
    delivered,       \* every line read_message returned
    callbacks,       \* every stderr line given to stderr_callback
    accepted,        \* every message write handed to send_stdin
    fakes,           \* initialize requests answered by the session itself
    signalled,       \* SIGTERM to the CLI: "no", "asked" of a backend, "sent"
    strayed          \* what signalled an unrelated process: "kill" (stop and
                     \* close) or "send_signal"

procVars == <<proc, exitStatus, pidReused, signalled, strayed>>
outVars  == <<outPipe, outReader, printed>>
errVars  == <<errPipe, errReader, logged>>
inVars   == <<cliIn, stdinPipe, stdinCh, inWriter, accepted, fakes>>
hostVars == <<reconnecting, ready, cliExited, exitCode, host, delivered,
              callbacks>>
vars == <<spawned, procVars, outVars, errVars, inVars, waitTask, chan,
          hostVars>>

-----------------------------------------------------------------------------
(* Lines, messages and events.                                             *)

\* A stdout line is a message for the host, a bare stream event the CLI
\* prints besides the wrapped one, junk (empty or not JSON), or not UTF-8.
LineKinds == {"message", "bare", "junk", "undecodable"}
Line == [id : 1..MaxOut, kind : LineKinds]
FakeResponse == [id |-> 0, kind |-> "message"]
ErrLine == [id : 1..MaxErr, kind : {"text", "undecodable"}]
HostMessage == [id : 1..MaxIn, kind : {"initialize", "other"}]

Stdout(l) == [type |-> "stdout", line |-> l]
Stderr(l) == [type |-> "stderr", line |-> l]
Exit(c)   == [type |-> "exit", code |-> c]

\* Junk and undecodable lines never leave the stdout reader; bare ones never
\* leave read_message.
Returned  == {l \in Line : l.kind = "message"} \union {FakeResponse}
Forwarded == {l \in Line : l.kind = "bare"} \union Returned

Event == {Stdout(l) : l \in Forwarded}
         \union {Stderr(l) : l \in ErrLine}
         \union {Exit(c) : c \in Codes \union {NoCode}}

IsMessage(l) == l.kind = "message"
IsMessageEvent(e) == e.type = "stdout" /\ IsMessage(e.line)

IsBareNever(l) == FALSE

IsBare(l) == l.kind = "bare"

-----------------------------------------------------------------------------
Init ==
    /\ spawned \in BOOLEAN
    /\ reconnecting \in IF spawned THEN {FALSE} ELSE BOOLEAN
    /\ proc = "running" /\ exitStatus = NoCode /\ pidReused = FALSE
    /\ outPipe = <<>> /\ errPipe = <<>> /\ cliIn = <<>>
    /\ outReader = "open" /\ errReader = "open" /\ inWriter = "open"
    /\ stdinPipe = "room" /\ waitTask = "waiting"
    /\ stdinCh = <<>> /\ chan = <<>>
    /\ ready = TRUE /\ cliExited = FALSE /\ exitCode = NoCode
    /\ host = "idle"
    /\ printed = <<>> /\ logged = 0 /\ delivered = <<>> /\ callbacks = <<>>
    /\ accepted = <<>> /\ fakes = 0
    /\ signalled = "no" /\ strayed = {}

-----------------------------------------------------------------------------
(* The CLI (external).  It prints, logs, reads its stdin, closes it and    *)
(* exits when it likes; SIGTERM does not oblige it to exit.                *)

CliPrint(kind) ==
    /\ proc = "running" /\ outReader = "open" /\ Len(printed) < MaxOut
    /\ LET l == [id |-> Len(printed) + 1, kind |-> kind] IN
         /\ outPipe' = Append(outPipe, l)
         /\ printed' = Append(printed, l)
    /\ UNCHANGED <<spawned, procVars, outReader, errVars, inVars, waitTask,
                   chan, hostVars>>

CliLog(kind) ==
    /\ proc = "running" /\ errReader = "open" /\ logged < MaxErr
    /\ errPipe' = Append(errPipe, [id |-> logged + 1, kind |-> kind])
    /\ logged' = logged + 1
    /\ UNCHANGED <<spawned, procVars, outVars, errReader, inVars, waitTask,
                   chan, hostVars>>

\* It reads what filled its stdin.
CliReads ==
    /\ proc = "running" /\ stdinPipe = "full"
    /\ stdinPipe' = "room"
    /\ UNCHANGED <<spawned, procVars, outVars, errVars, cliIn, stdinCh,
                   inWriter, accepted, fakes, waitTask, chan, hostVars>>

CliClosesStdin ==
    /\ proc = "running" /\ stdinPipe # "closed"
    /\ stdinPipe' = "closed"
    /\ UNCHANGED <<spawned, procVars, outVars, errVars, cliIn, stdinCh,
                   inWriter, accepted, fakes, waitTask, chan, hostVars>>

CliExit(code) ==
    /\ proc = "running"
    /\ proc' = "zombie"
    /\ exitStatus' = code
    /\ UNCHANGED <<spawned, pidReused, signalled, strayed, outVars, errVars,
                   inVars, waitTask, chan, hostVars>>

\* Once the process is reaped the system may give its pid to another one.
ReusePid ==
    /\ spawned /\ proc = "reaped" /\ ~pidReused
    /\ pidReused' = TRUE
    /\ UNCHANGED <<spawned, proc, exitStatus, signalled, strayed, outVars,
                   errVars, inVars, waitTask, chan, hostVars>>

-----------------------------------------------------------------------------
(* The stdout reader: lines.next_line() in a loop.                         *)

ForwardStdout ==
    /\ outReader = "open" /\ outPipe # <<>>
    /\ Head(outPipe).kind # "undecodable"
    /\ outPipe' = Tail(outPipe)
    /\ chan' = IF Head(outPipe).kind = "junk" THEN chan
               ELSE Append(chan, Stdout(Head(outPipe)))
    /\ UNCHANGED <<spawned, procVars, outReader, printed, errVars, inVars,
                   waitTask, hostVars>>

\* Mutant: the reader reports the end of its stream as the exit.
EndStdoutAsExit ==
    /\ outReader = "open"
    /\ IF outPipe = <<>> THEN proc # "running"
                         ELSE Head(outPipe).kind = "undecodable"
    /\ outReader' = "done"
    /\ outPipe' = <<>>
    /\ chan' = Append(chan, Exit(exitStatus))
    /\ UNCHANGED <<spawned, procVars, printed, errVars, inVars, waitTask,
                   hostVars>>

\* An I/O error ends the loop as end of file does, and drops the pipe.
EndStdout ==
    /\ outReader = "open"
    /\ IF outPipe = <<>> THEN proc # "running"
                         ELSE Head(outPipe).kind = "undecodable"
    /\ outReader' = "done"
    /\ outPipe' = <<>>
    /\ UNCHANGED <<spawned, procVars, printed, errVars, inVars, waitTask,
                   chan, hostVars>>

(* The stderr reader.                                                      *)

ForwardStderr ==
    /\ errReader = "open" /\ errPipe # <<>>
    /\ Head(errPipe).kind # "undecodable"
    /\ errPipe' = Tail(errPipe)
    /\ chan' = Append(chan, Stderr(Head(errPipe)))
    /\ UNCHANGED <<spawned, procVars, outVars, errReader, logged, inVars,
                   waitTask, hostVars>>

EndStderr ==
    /\ errReader = "open"
    /\ IF errPipe = <<>> THEN proc # "running"
                         ELSE Head(errPipe).kind = "undecodable"
    /\ errReader' = "done"
    /\ errPipe' = <<>>
    /\ UNCHANGED <<spawned, procVars, outVars, logged, inVars, waitTask,
                   chan, hostVars>>

(* The stdin writer.  A write to a full pipe waits for the CLI to read; how *)
(* many messages fill it is left open.  A failed write ends the writer: the *)
(* message it held and all those behind it in the channel are gone.        *)

WriteStdin ==
    /\ inWriter = "open" /\ stdinCh # <<>>
    /\ proc = "running" /\ stdinPipe = "room"
    /\ stdinPipe' \in {"room", "full"}
    /\ cliIn' = Append(cliIn, Head(stdinCh))
    /\ stdinCh' = Tail(stdinCh)
    /\ UNCHANGED <<spawned, procVars, outVars, errVars, inWriter, accepted,
                   fakes, waitTask, chan, hostVars>>

\* Mutant: continue in place of break.
FailStdinContinues ==
    /\ inWriter = "open" /\ stdinCh # <<>>
    /\ proc # "running" \/ stdinPipe = "closed"
    /\ stdinCh' = Tail(stdinCh)
    /\ UNCHANGED <<spawned, procVars, outVars, errVars, cliIn, stdinPipe,
                   inWriter, accepted, fakes, waitTask, chan, hostVars>>


FailStdin ==
    /\ inWriter = "open" /\ stdinCh # <<>>
    /\ proc # "running" \/ stdinPipe = "closed"
    /\ inWriter' = "done"
    /\ stdinCh' = <<>>
    /\ UNCHANGED <<spawned, procVars, outVars, errVars, cliIn, stdinPipe,
                   accepted, fakes, waitTask, chan, hostVars>>

(* The wait task: child.wait() reaps the process, then the exit event goes *)
(* to the channel, whatever the readers still have to forward.             *)

Reap ==
    /\ waitTask = "waiting" /\ proc = "zombie"
    /\ proc' = "reaped"
    /\ waitTask' = "reaped"
    /\ UNCHANGED <<spawned, exitStatus, pidReused, signalled, strayed,
                   outVars, errVars, inVars, chan, hostVars>>

\* Mutant: an exit without a code (a signal) is not reported.
SendExitWithCode ==
    /\ waitTask = "reaped"
    /\ waitTask' = "done"
    /\ chan' = IF exitStatus = NoCode THEN chan
               ELSE Append(chan, Exit(exitStatus))
    /\ UNCHANGED <<spawned, procVars, outVars, errVars, inVars, hostVars>>

SendExit ==
    /\ waitTask = "reaped"
    /\ waitTask' = "done"
    /\ chan' = Append(chan, Exit(exitStatus))
    /\ UNCHANGED <<spawned, procVars, outVars, errVars, inVars, hostVars>>

-----------------------------------------------------------------------------
(* The host's calls.                                                       *)

\* kill(pid, 0): a zombie still answers, and so does whoever has the pid
\* next.  The answer of a backend's closure is not known.
AliveAnswers == IF spawned THEN {proc # "reaped" \/ pidReused} ELSE BOOLEAN

\* What stop and close do with the kill closure, whose errors they ignore.
\* The session's own sends SIGTERM to the recorded pid before it returns; a
\* backend's is asked, and may be dropped or fail with nothing sent.
Terminate ==
    /\ signalled' = IF spawned /\ proc = "running" THEN "sent"
                    ELSE IF ~spawned /\ signalled = "no" THEN "asked"
                    ELSE signalled
    /\ strayed' = IF pidReused THEN strayed \union {"kill"} ELSE strayed
    /\ UNCHANGED <<proc, exitStatus, pidReused>>

\* A backend that was asked gets round to it (external).
BackendKills ==
    /\ signalled = "asked" /\ proc = "running"
    /\ signalled' = "sent"
    /\ UNCHANGED <<spawned, proc, exitStatus, pidReused, strayed, outVars,
                   errVars, inVars, waitTask, chan, hostVars>>

MustIntercept(kind) == reconnecting /\ kind = "initialize"

\* Mutant: the session goes on answering initialize itself.
InterceptAlways(kind) ==
    /\ MustIntercept(kind)
    /\ chan' = Append(chan, Stdout(FakeResponse))
    /\ fakes' = fakes + 1
    /\ UNCHANGED <<stdinCh, accepted, reconnecting>>

\* write(), when it succeeds; a dead process, bad JSON or a writer that is
\* done is an error that changes nothing.
Intercept(kind) ==
    /\ MustIntercept(kind)
    /\ chan' = Append(chan, Stdout(FakeResponse))
    /\ reconnecting' = FALSE
    /\ fakes' = fakes + 1
    /\ UNCHANGED <<stdinCh, accepted>>

SendStdin(kind) ==
    /\ ~MustIntercept(kind)
    /\ inWriter = "open"
    /\ LET m == [id |-> Len(accepted) + 1, kind |-> kind] IN
         /\ stdinCh' = Append(stdinCh, m)
         /\ accepted' = Append(accepted, m)
    /\ UNCHANGED <<chan, reconnecting, fakes>>

Write(kind) ==
    /\ host = "idle" /\ Len(accepted) + fakes < MaxIn
    /\ TRUE \in AliveAnswers
    /\ Intercept(kind) \/ SendStdin(kind)
    /\ UNCHANGED <<spawned, procVars, outVars, errVars, cliIn, stdinPipe,
                   inWriter, waitTask, ready, cliExited, exitCode, host,
                   delivered, callbacks>>

ReadMessage ==
    /\ host = "idle"
    /\ host' = "reading"
    /\ UNCHANGED <<spawned, procVars, outVars, errVars, inVars, waitTask,
                   chan, reconnecting, ready, cliExited, exitCode, delivered,
                   callbacks>>

\* Mutant: a receive that is not cancel safe.
CancelReadLossy ==
    /\ host = "reading"
    /\ host' = "idle"
    /\ chan' = IF chan = <<>> THEN chan ELSE Tail(chan)
    /\ UNCHANGED <<spawned, procVars, outVars, errVars, inVars, waitTask,
                   reconnecting, ready, cliExited, exitCode, delivered,
                   callbacks>>

CancelRead ==
    /\ host = "reading"
    /\ host' = "idle"
    /\ UNCHANGED <<spawned, procVars, outVars, errVars, inVars, waitTask,
                   chan, reconnecting, ready, cliExited, exitCode, delivered,
                   callbacks>>

\* One turn of read_message's loop, by the event it received.
Discard(e) ==
    /\ cliExited
    /\ host' = "idle"
    /\ UNCHANGED <<cliExited, exitCode, delivered, callbacks>>

DropBare(e) ==
    /\ ~cliExited /\ e.type = "stdout" /\ IsBare(e.line)
    /\ UNCHANGED <<host, cliExited, exitCode, delivered, callbacks>>

\* Mutant: no check of cli_exited after recv.
ReturnMessageUnchecked(e) ==
    /\ e.type = "stdout" /\ ~IsBare(e.line)
    /\ host' = "idle"
    /\ delivered' = Append(delivered, e.line)
    /\ UNCHANGED <<cliExited, exitCode, callbacks>>

ReturnMessage(e) ==
    /\ ~cliExited /\ e.type = "stdout" /\ ~IsBare(e.line)
    /\ host' = "idle"
    /\ delivered' = Append(delivered, e.line)
    /\ UNCHANGED <<cliExited, exitCode, callbacks>>

CallBack(e) ==
    /\ ~cliExited /\ e.type = "stderr"
    /\ callbacks' = Append(callbacks, e.line)
    /\ UNCHANGED <<host, cliExited, exitCode, delivered>>

SeeExit(e) ==
    /\ ~cliExited /\ e.type = "exit"
    /\ host' = "idle"
    /\ cliExited' = TRUE
    /\ exitCode' = e.code
    /\ UNCHANGED <<delivered, callbacks>>

Receive ==
    /\ host = "reading" /\ chan # <<>>
    /\ chan' = Tail(chan)
    /\ LET e == Head(chan) IN
         \/ Discard(e)
         \/ DropBare(e)
         \/ ReturnMessage(e)
         \/ CallBack(e)
         \/ SeeExit(e)
    /\ UNCHANGED <<spawned, procVars, outVars, errVars, inVars, waitTask,
                   reconnecting, ready>>

Stop ==
    /\ host = "idle"
    /\ ~cliExited
    /\ cliExited' = TRUE
    /\ chan' = Append(chan, Exit(NoCode))
    /\ Terminate
    /\ UNCHANGED <<spawned, outVars, errVars, inVars, waitTask, reconnecting,
                   ready, exitCode, host, delivered, callbacks>>

\* Mutant: close kills whatever it knows of the exit.
CloseKillsAlways ==
    /\ host = "idle"
    /\ IF ready THEN Terminate ELSE UNCHANGED procVars
    /\ ready' = FALSE
    /\ UNCHANGED <<spawned, outVars, errVars, inVars, waitTask, chan,
                   reconnecting, cliExited, exitCode, host, delivered,
                   callbacks>>

\* A close that is dropped while it waits for a backend's kill has asked for
\* it and leaves the session ready.
Close ==
    /\ host = "idle"
    /\ IF ready /\ ~cliExited THEN Terminate ELSE UNCHANGED procVars
    /\ \/ ready' = FALSE
       \/ ~spawned /\ ready /\ ~cliExited /\ ready' = TRUE
    /\ UNCHANGED <<spawned, outVars, errVars, inVars, waitTask, chan,
                   reconnecting, cliExited, exitCode, host, delivered,
                   callbacks>>

\* send_signal, any signal: the recorded pid is not asked who it is, nor
\* cli_exited.  What the signal does to the CLI is CliExit's.  A session of an
\* external backend has no pid and returns false.
SendSignal ==
    /\ host = "idle" /\ spawned
    /\ strayed' = IF pidReused THEN strayed \union {"send_signal"} ELSE strayed
    /\ UNCHANGED <<spawned, proc, exitStatus, pidReused, signalled, outVars,
                   errVars, inVars, waitTask, chan, hostVars>>

-----------------------------------------------------------------------------
Cli ==
    \/ \E kind \in LineKinds : CliPrint(kind)
    \/ \E kind \in {"text", "undecodable"} : CliLog(kind)
    \/ CliReads
    \/ CliClosesStdin
    \/ \E code \in Codes \union {NoCode} : CliExit(code)

StdoutReader == ForwardStdout \/ EndStdout
StderrReader == ForwardStderr \/ EndStderr
StdinWriter  == WriteStdin \/ FailStdin
WaitTask     == Reap \/ SendExit

Host ==
    \/ \E kind \in {"initialize", "other"} : Write(kind)
    \/ ReadMessage
    \/ CancelRead
    \/ Receive
    \/ Stop
    \/ Close
    \/ SendSignal

Next ==
    \/ Cli
    \/ ReusePid
    \/ BackendKills
    \/ StdoutReader
    \/ StderrReader
    \/ StdinWriter
    \/ WaitTask
    \/ Host

Spec == Init /\ [][Next]_vars

\* The runtime runs every task that can make a step, and polls a pending
\* read_message.  The CLI, a backend, the host's calls and the system owe
\* nothing.
Fairness ==
    /\ WF_vars(StdoutReader)
    /\ WF_vars(StderrReader)
    /\ WF_vars(StdinWriter)
    /\ WF_vars(WaitTask)
    /\ WF_vars(Receive)

FairSpec == Spec /\ Fairness

-----------------------------------------------------------------------------
(* Properties.                                                             *)

\* The type invariant, which also says what gets past the stdout reader (no
\* junk) and past read_message (no bare duplicate of a stream event).
TypeOK ==
    /\ spawned \in BOOLEAN
    /\ proc \in {"running", "zombie", "reaped"}
    /\ exitStatus \in Codes \union {NoCode}
    /\ pidReused \in BOOLEAN
    /\ outPipe \in Seq(Line) /\ errPipe \in Seq(ErrLine)
    /\ cliIn \in Seq(HostMessage) /\ stdinCh \in Seq(HostMessage)
    /\ stdinPipe \in {"room", "full", "closed"}
    /\ outReader \in {"open", "done"} /\ errReader \in {"open", "done"}
    /\ inWriter \in {"open", "done"}
    /\ waitTask \in {"waiting", "reaped", "done"}
    /\ chan \in Seq(Event)
    /\ reconnecting \in BOOLEAN /\ ready \in BOOLEAN
    /\ cliExited \in BOOLEAN /\ exitCode \in Codes \union {NoCode}
    /\ host \in {"idle", "reading"}
    /\ printed \in Seq(Line) /\ Len(printed) \in 0..MaxOut
    /\ logged \in 0..MaxErr
    /\ delivered \in Seq(Returned)
    /\ callbacks \in Seq(ErrLine)
    /\ accepted \in Seq(HostMessage) /\ fakes \in Nat
    /\ Len(accepted) + fakes \in 0..MaxIn
    /\ signalled \in {"no", "asked", "sent"}
    /\ signalled = "asked" => ~spawned
    /\ strayed \subseteq {"kill", "send_signal"}

\* A session that counts the CLI as gone (read_message saw an exit, or the
\* host called stop or close) has a CLI that exited, or that was sent
\* SIGTERM, or, where the kill is a backend's, one it was asked to kill.
\* Both stop and close skip the kill when cli_exited is set, so an exit
\* event must never run ahead of the exit.
NoUnsignalledOrphan ==
    (cliExited \/ ~ready) =>
        \/ proc # "running"
        \/ signalled = "sent"
        \/ ~spawned /\ signalled = "asked"

\* Why that is so: the wait task sends the exit event after the reaping, and
\* stop sends one only with cli_exited set.  An exit event in the channel
\* therefore means that the CLI is gone or that the host has ended the
\* stream.
ExitEventsAreEarned ==
    /\ waitTask # "waiting" => proc = "reaped"
    /\ (\E i \in DOMAIN chan : chan[i].type = "exit")
         => (proc # "running" \/ cliExited)

\* Where a sequence has an element.
Places(s, x) == {i \in DOMAIN s : s[i] = x}
One(S) == \E i \in S : S = {i}

\* A reconnecting session answers one initialize request itself, before any
\* reaches the CLI, and that answer stays on its way to the host, or got
\* there, once, as long as the host has not been told of the exit.
InterceptedOnce ==
    /\ fakes \in {0, 1}
    /\ reconnecting =>
         /\ fakes = 0
         /\ \A i \in DOMAIN accepted : accepted[i].kind # "initialize"
    /\ ~cliExited =>
         LET coming   == Places(chan, Stdout(FakeResponse))
             returned == Places(delivered, FakeResponse)
         IN \/ fakes = 0 /\ coming = {} /\ returned = {}
            \/ fakes = 1 /\ One(coming) /\ returned = {}
            \/ fakes = 1 /\ coming = {} /\ One(returned)

\* What write accepted reaches the CLI in order and without gaps; only a
\* writer that ended loses messages, and then it loses a tail.
StdinInOrder ==
    /\ IsPrefix(cliIn \o stdinCh, accepted)
    /\ inWriter = "open" => accepted = cliIn \o stdinCh

\* Once stop returned or read_message returned None for the exit, nothing
\* reaches the host any more, though readers go on filling the channel.
SilentAfterExit ==
    [][cliExited => UNCHANGED <<delivered, callbacks, exitCode>>]_vars

\* kill works on the recorded pid, which may name another process once the
\* wait task has reaped the CLI.  Once the host has seen the exit, or called
\* stop, neither stop nor close sends that pid anything more; send_signal is
\* the caller's and asks no such question.
NoStrayAfterExit ==
    [][cliExited => ("kill" \in strayed' <=> "kill" \in strayed)]_vars

\* What an event or a line brings the host.
EventMessages(e) == IF IsMessageEvent(e) THEN <<e.line>> ELSE <<>>
LineMessages(l)  == IF IsMessage(l) THEN <<l>> ELSE <<>>
InChan(events)   == FlattenSeq([i \in DOMAIN events |-> EventMessages(events[i])])
InPipe(lines)    == FlattenSeq([i \in DOMAIN lines |-> LineMessages(lines[i])])

\* The messages on their way are those in the channel, then the pipe.
OnTheWay == IF cliExited THEN <<>> ELSE InChan(chan) \o InPipe(outPipe)

\* The order and the losses of stdout are as the abstract stream has them:
\* a message is lost only to the end of the reader (which forwards no more,
\* and drops what it has not read) or to the end of the session.
Stream == INSTANCE MessageStream WITH
    Messages <- {l \in Line : IsMessage(l)},
    Held     <- {},
    Fake     <- FakeResponse,
    sent     <- InPipe(printed),
    pending  <- OnTheWay,
    got      <- delivered,
    feed     <- outReader = "open",
    open     <- ~cliExited

ImplementsStream == Stream!Spec

\* A read_message that waits when the CLI exits returns: with the messages
\* before the exit event, or with None for it.
FirstReadReturns ==
    (host = "reading" /\ ~cliExited /\ proc # "running") ~> (host = "idle")


-----------------------------------------------------------------------------
(* What the documentation and the tests say, and the code does not do.     *)

\* rs/tests/real_cli.rs reads every line a short-lived process printed and
\* then None: a CLI that exits on its own loses no message.
NothingLostOnExit ==
    (cliExited /\ signalled = "no" /\ proc = "reaped" /\ exitCode = exitStatus
       /\ exitCode # NoCode)
    => SelectSeq(delivered, LAMBDA l : l # FakeResponse)
         = SelectSeq(printed, IsMessage)
=============================================================================
