------------------------ MODULE DirectConnection_proofs ------------------------
(***************************************************************************)
(* Proofs about DirectConnection for every set of names, processes, queues *)
(* and tasks: type correctness, the exit event that ends a process's       *)
(* stream, no line lost at the end of file, and no CLI left behind by      *)
(* accident.                                                               *)
(***************************************************************************)
EXTENDS DirectConnection, SequenceTheorems, TLAPS

LEMMA EventsBuilt ==
    /\ \A l \in Line : Stdout(l) \in Event
    /\ \A l \in ErrLine : Stderr(l) \in Event
    /\ \A p \in Procs : ExitFrom(p) \in Event
  BY DEF Event

\* The fields a process has.
Fields == {"os", "handle", "stdin", "pty", "out", "err", "pipe", "errs",
           "logged", "queue", "signal"}

LEMMA FieldsOf == ASSUME NEW r \in LocalProcess PROVE DOMAIN r = Fields
  BY DEF LocalProcess, Fields

\* The types of everything but what the queues hold: a host's queues hold
\* events of its own too.
ObjectsTypeOK ==
    /\ processes \in [Names -> Procs \union {None}]
    /\ queues \in [Names -> Queues \union {None}]
    /\ made \subseteq Queues
    /\ lp \in [Procs -> LocalProcess]
    /\ call \in [Tasks -> Call]
    /\ printed \in [Procs -> Seq(Line)]

LEMMA TypeParts ==
    ConnTypeOK <=> ObjectsTypeOK /\ content \in [Queues -> Seq(Event)]
  BY DEF ConnTypeOK, ObjectsTypeOK

\* Putting events into a queue keeps the queues' type.
LEMMA PutTypeOK ==
    ASSUME ConnTypeOK, NEW q \in Queues, NEW es \in Seq(Event)
    PROVE  Put(q, es) \in [Queues -> Seq(Event)]
  BY DEF ConnTypeOK, Put

LEMMA ConnInitTypeOK == ConnInit => ConnTypeOK
  <1> SUFFICES ASSUME ConnInit PROVE ConnTypeOK
    OBVIOUS
  <1>1. Unstarted \in LocalProcess
    BY BoundsAssumption DEF Unstarted, LocalProcess
  <1>2. Idle \in Call
    BY DEF Idle, Call
  <1> QED
    BY <1>1, <1>2 DEF ConnInit, ConnTypeOK

\* A step that gives one process a record of the right type, and leaves the
\* rest alone or typed.
LEMMA UpdateTypeOK ==
    ASSUME ObjectsTypeOK, NEW p \in Procs, NEW r \in LocalProcess,
           lp' = [lp EXCEPT ![p] = r],
           processes' \in [Names -> Procs \union {None}], UNCHANGED <<queues, made>>,
           call' \in [Tasks -> Call],
           printed' \in [Procs -> Seq(Line)]
    PROVE  ObjectsTypeOK'
  BY DEF ObjectsTypeOK

LEMMA CliTypeOK ==
    ASSUME ObjectsTypeOK, NEW p \in Procs, Cli(p) \/ ChildReaped(p)
    PROVE  ObjectsTypeOK'
  <1>0. lp[p] \in LocalProcess /\ lp \in [Procs -> LocalProcess]
    BY DEF ObjectsTypeOK
  <1>1. ASSUME NEW kind \in Kinds, CliPrint(p, kind) PROVE ObjectsTypeOK'
    <2> DEFINE l == [proc |-> p, id |-> Len(printed[p]) + 1, kind |-> kind]
    <2>0. printed[p] \in Seq(Line) /\ lp[p].pipe \in Seq(Line)
      BY DEF ObjectsTypeOK, LocalProcess
    <2>1. l \in Line
      <3>1. Len(printed[p]) + 1 \in 1..MaxOut
        BY <2>0, <1>1, BoundsAssumption DEF CliPrint
      <3> QED
        BY <3>1 DEF Line
    <2> HIDE DEF l
    <2>2. /\ lp' = [lp EXCEPT ![p] = [lp[p] EXCEPT !.pipe = Append(lp[p].pipe, l)]]
          /\ printed' = [printed EXCEPT ![p] = Append(@, l)]
      BY <1>0, <1>1 DEF CliPrint, l
    <2>3. /\ Append(printed[p], l) \in Seq(Line)
          /\ Append(lp[p].pipe, l) \in Seq(Line)
      BY <2>0, <2>1
    <2>4. [lp[p] EXCEPT !.pipe = Append(lp[p].pipe, l)] \in LocalProcess
      BY <1>0, <2>3 DEF LocalProcess
    <2> QED
      BY <1>1, <2>2, <2>3, <2>4, UpdateTypeOK DEF CliPrint, ObjectsTypeOK
  <1>2. ASSUME CliLog(p) PROVE ObjectsTypeOK'
    <2> DEFINE l == [proc |-> p, id |-> lp[p].logged + 1]
               r == [lp[p] EXCEPT !.logged = lp[p].logged + 1,
                                  !.errs = Append(lp[p].errs, l)]
    <2>1. lp[p].logged + 1 \in 1..MaxErr /\ lp[p].logged + 1 \in 0..MaxErr
      BY <1>0, <1>2, BoundsAssumption DEF CliLog, LocalProcess
    <2>2. l \in ErrLine
      BY <2>1 DEF ErrLine
    <2> HIDE DEF l
    <2>3. r \in LocalProcess
      <3>1. Append(lp[p].errs, l) \in Seq(ErrLine)
        BY <1>0, <2>2 DEF LocalProcess
      <3> QED
        BY <1>0, <2>1, <3>1 DEF LocalProcess
    <2>4. lp' = [lp EXCEPT ![p] = r]
      BY <1>0, <1>2 DEF CliLog, l
    <2> HIDE DEF r
    <2> QED
      BY <1>2, <2>3, <2>4, UpdateTypeOK DEF CliLog, ObjectsTypeOK
  <1>3. ASSUME CliExit(p) PROVE ObjectsTypeOK'
    <2>1. lp' = [lp EXCEPT ![p] = [@ EXCEPT !.os = "exited"]]
      BY <1>0, <1>3 DEF CliExit
    <2>2. [lp[p] EXCEPT !.os = "exited"] \in LocalProcess
      BY <1>0 DEF LocalProcess
    <2> QED
      BY <1>3, <2>1, <2>2, UpdateTypeOK DEF CliExit, ObjectsTypeOK
  <1>4. ASSUME ChildReaped(p) PROVE ObjectsTypeOK'
    <2>1. lp' = [lp EXCEPT ![p] = [@ EXCEPT !.os = "reaped"]]
      BY <1>0, <1>4 DEF ChildReaped
    <2>2. [lp[p] EXCEPT !.os = "reaped"] \in LocalProcess
      BY <1>0 DEF LocalProcess
    <2> QED
      BY <1>4, <2>1, <2>2, UpdateTypeOK DEF ChildReaped, ObjectsTypeOK
  <1> QED
    BY <1>1, <1>2, <1>3, <1>4 DEF Cli

\* What the spawns under way hold: a process with a queue, whose readers have
\* not started, and that no other task holds.  And the kills: a process whose
\* pty is closed.
CallShape ==
    \A k \in Tasks :
      /\ call[k].at = "idle" => call[k].proc = None
      /\ call[k].at \in {"exec", "pipe"} =>
           /\ call[k].name \in Names /\ call[k].proc \in Procs
           /\ lp[call[k].proc].queue \in Queues
           /\ lp[call[k].proc].out = "none"
           /\ call[k].at = "exec" => lp[call[k].proc].os = "none"
           /\ call[k].at = "pipe" => lp[call[k].proc].handle
           /\ \A j \in Tasks \ {k} : call[j].proc # call[k].proc
      /\ call[k].at \in {"wait", "readers"} =>
           /\ call[k].proc \in Procs /\ lp[call[k].proc].pty = "closed"

\* The fields of a process: nothing of it has started before it has a queue,
\* its pty and its stdout reader start together, only a kill cancels the
\* reader, and a CLI that still runs when its pty is closed or its handle
\* gone was sent a signal.
ProcessShape ==
    \A p \in Procs :
      /\ lp[p].queue = None =>
           lp[p].os = "none" /\ lp[p].out = "none" /\ lp[p].err = "none"
      /\ lp[p].pty # "none" <=> lp[p].out # "none"
      /\ lp[p].out = "cancelled" => lp[p].pty = "closed"
      /\ Alive(p) /\ (lp[p].pty = "closed" \/ ~lp[p].handle)
           => lp[p].signal # "none"

\* The names reach processes whose readers have started.
EnteredShape ==
    \A n \in Names : processes[n] # None => lp[processes[n]].out # "none"

ConnShape == CallShape /\ ProcessShape /\ EnteredShape

LEMMA ReadersQueue ==
    ASSUME ObjectsTypeOK, ProcessShape, NEW p \in Procs,
           StdoutReader(p) \/ StderrReader(p)
    PROVE  lp[p].queue \in Queues
  <1>1. lp[p].queue \in Queues \union {None}
    BY DEF ObjectsTypeOK, LocalProcess
  <1>2. lp[p].out # "none" \/ lp[p].err # "none"
    BY DEF StdoutReader, StderrReader, StdoutStarts, ReadLine, ReadEof,
           ReadBreaks, ReadClosed, ReadCancelled, ReadStderr, EndStderr
  <1> QED
    BY <1>1, <1>2 DEF ProcessShape

\* What the readers put last: the line readline was about to return, or none.
LEMMA EndsWith ==
    ASSUME NEW p \in Procs,
           ReadEof(p) \/ ReadBreaks(p) \/ ReadClosed(p) \/ ReadCancelled(p)
    PROVE  \/ EndStdout(p, <<>>)
           \/ /\ lp[p].pipe # <<>>
              /\ Head(lp[p].pipe).kind \notin {"breaking", "junk"}
              /\ EndStdout(p, <<Stdout(Head(lp[p].pipe))>>)
  BY DEF ReadEof, ReadBreaks, ReadClosed, ReadCancelled

LEMMA ReadersTypeOK ==
    ASSUME ObjectsTypeOK, ProcessShape, NEW p \in Procs,
           StdoutReader(p) \/ StderrReader(p)
    PROVE  ObjectsTypeOK'
  <1>0. /\ lp[p] \in LocalProcess /\ lp \in [Procs -> LocalProcess]
        /\ lp[p].pipe \in Seq(Line) /\ lp[p].errs \in Seq(ErrLine)
    BY DEF ObjectsTypeOK, LocalProcess
  <1>1. CASE StdoutStarts(p)
    <2> DEFINE out == IF lp[p].pty = "closed" THEN "failed" ELSE "reading"
    <2>1. lp' = [lp EXCEPT ![p] = [lp[p] EXCEPT !.out = out]]
      BY <1>0, <1>1 DEF StdoutStarts
    <2>2. [lp[p] EXCEPT !.out = out] \in LocalProcess
      BY <1>0 DEF LocalProcess
    <2> QED
      BY <1>1, <2>1, <2>2, UpdateTypeOK DEF StdoutStarts, ObjectsTypeOK
  <1>2. CASE ReadLine(p)
    <2>1. lp' = [lp EXCEPT ![p] = [lp[p] EXCEPT !.pipe = Tail(lp[p].pipe)]]
      BY <1>0, <1>2 DEF ReadLine
    <2>2. lp[p].pipe # <<>>
      BY <1>2 DEF ReadLine
    <2>3. Tail(lp[p].pipe) \in Seq(Line)
      BY <1>0, <2>2
    <2>4. [lp[p] EXCEPT !.pipe = Tail(lp[p].pipe)] \in LocalProcess
      BY <1>0, <2>3 DEF LocalProcess
    <2> QED
      BY <1>2, <2>1, <2>4, UpdateTypeOK DEF ReadLine, ObjectsTypeOK
  <1>3. CASE ReadEof(p) \/ ReadBreaks(p) \/ ReadClosed(p) \/ ReadCancelled(p)
    <2>1. \E last : EndStdout(p, last)
      BY <1>3, EndsWith
    <2>2. /\ lp' = [lp EXCEPT ![p] = [lp[p] EXCEPT !.out = "done"]]
          /\ UNCHANGED <<processes, queues, made, call, printed>>
      BY <1>0, <2>1 DEF EndStdout
    <2>3. [lp[p] EXCEPT !.out = "done"] \in LocalProcess
      BY <1>0 DEF LocalProcess
    <2> QED
      BY <2>2, <2>3, UpdateTypeOK DEF ObjectsTypeOK
  <1>4. CASE ReadStderr(p)
    <2>1. lp' = [lp EXCEPT ![p] = [lp[p] EXCEPT !.errs = Tail(lp[p].errs)]]
      BY <1>0, <1>4 DEF ReadStderr
    <2>2. Tail(lp[p].errs) \in Seq(ErrLine)
      BY <1>0, <1>4 DEF ReadStderr
    <2>3. [lp[p] EXCEPT !.errs = Tail(lp[p].errs)] \in LocalProcess
      BY <1>0, <2>2 DEF LocalProcess
    <2> QED
      BY <1>4, <2>1, <2>3, UpdateTypeOK DEF ReadStderr, ObjectsTypeOK
  <1>5. CASE EndStderr(p)
    <2>1. lp' = [lp EXCEPT ![p] = [lp[p] EXCEPT !.err = "done"]]
      BY <1>0, <1>5 DEF EndStderr
    <2>2. [lp[p] EXCEPT !.err = "done"] \in LocalProcess
      BY <1>0 DEF LocalProcess
    <2> QED
      BY <1>5, <2>1, <2>2, UpdateTypeOK DEF EndStderr, ObjectsTypeOK
  <1> QED
    BY <1>1, <1>2, <1>3, <1>4, <1>5 DEF StdoutReader, StderrReader

\* The events a process's readers put into its queue: lines that are JSON,
\* lines from stderr and its exit.
Sent == {e \in Event : e.type = "stdout" => e.line.kind \notin {"junk", "breaking"}}

LEMMA TasksPut ==
    ASSUME ObjectsTypeOK, ProcessShape, NEW p \in Procs,
           Cli(p) \/ ChildReaped(p) \/ StdoutReader(p) \/ StderrReader(p)
    PROVE  \/ content' = content
           \/ /\ lp[p].queue \in Queues
              /\ \E es \in Seq(Sent) : content' = Put(lp[p].queue, es)
  <1>0. lp[p].pipe \in Seq(Line) /\ lp[p].errs \in Seq(ErrLine)
    BY DEF ObjectsTypeOK, LocalProcess
  <1>1. CASE Cli(p) \/ ChildReaped(p)
    BY <1>1 DEF Cli, CliPrint, CliLog, CliExit, ChildReaped
  <1>2. ASSUME lp[p].pipe # <<>>,
               Head(lp[p].pipe).kind \notin {"breaking", "junk"}
        PROVE  Stdout(Head(lp[p].pipe)) \in Sent
    <2>1. Head(lp[p].pipe) \in Line
      BY <1>0, <1>2
    <2>2. Stdout(Head(lp[p].pipe)) \in Event
      BY <2>1, EventsBuilt
    <2>3. Stdout(Head(lp[p].pipe)).line.kind \notin {"junk", "breaking"}
      BY <1>2 DEF Stdout
    <2> QED
      BY <2>2, <2>3 DEF Sent
  <1>3. ASSUME lp[p].errs # <<>>
        PROVE  Stderr(Head(lp[p].errs)) \in Sent
    <2>1. Head(lp[p].errs) \in ErrLine
      BY <1>0, <1>3
    <2>2. Stderr(Head(lp[p].errs)) \in Event
      BY <2>1, EventsBuilt
    <2> QED
      BY <2>2 DEF Sent, Stderr
  <1>4. ExitFrom(p) \in Sent
    <2>1. ExitFrom(p) \in Event
      BY EventsBuilt
    <2> QED
      BY <2>1 DEF Sent, ExitFrom
  <1>5. ASSUME StdoutReader(p) \/ StderrReader(p)
        PROVE  \/ content' = content
               \/ \E es \in Seq(Sent) : content' = Put(lp[p].queue, es)
    <2>1. CASE StdoutStarts(p)
      BY <2>1 DEF StdoutStarts
    <2>2. CASE ReadLine(p)
      <3>1. lp[p].pipe # <<>> /\ Head(lp[p].pipe).kind # "breaking"
        BY <2>2 DEF ReadLine
      <3>2. CASE Head(lp[p].pipe).kind = "junk"
        BY <2>2, <3>2 DEF ReadLine
      <3>3. CASE Head(lp[p].pipe).kind # "junk"
        <4>1. <<Stdout(Head(lp[p].pipe))>> \in Seq(Sent)
          BY <1>2, <3>1, <3>3
        <4>2. content' = Put(lp[p].queue, <<Stdout(Head(lp[p].pipe))>>)
          BY <2>2, <3>3 DEF ReadLine
        <4> QED
          BY <4>1, <4>2
      <3> QED
        BY <3>2, <3>3
    <2>3. CASE ReadEof(p) \/ ReadBreaks(p) \/ ReadClosed(p) \/ ReadCancelled(p)
      <3>1. PICK last \in Seq(Sent) : EndStdout(p, last)
        <4>1. <<>> \in Seq(Sent)
          OBVIOUS
        <4>2. (lp[p].pipe # <<>> /\ Head(lp[p].pipe).kind \notin {"breaking", "junk"})
                => <<Stdout(Head(lp[p].pipe))>> \in Seq(Sent)
          BY <1>2
        <4> QED
          BY <2>3, <4>1, <4>2, EndsWith
      <3>2. last \o <<ExitFrom(p)>> \in Seq(Sent)
        BY <1>4
      <3>3. content' = Put(lp[p].queue, last \o <<ExitFrom(p)>>)
        BY <3>1 DEF EndStdout
      <3> QED
        BY <3>2, <3>3
    <2>4. CASE StderrReader(p)
      <3>1. \/ content' = content
            \/ lp[p].errs # <<>>
               /\ content' = Put(lp[p].queue, <<Stderr(Head(lp[p].errs))>>)
        BY <2>4 DEF StderrReader, ReadStderr, EndStderr
      <3>2. lp[p].errs # <<>> => <<Stderr(Head(lp[p].errs))>> \in Seq(Sent)
        BY <1>3
      <3> QED
        BY <3>1, <3>2
    <2> QED
      BY <1>5, <2>1, <2>2, <2>3, <2>4 DEF StdoutReader
  <1> QED
    BY <1>1, <1>5, ReadersQueue

\* What the CLIs, the child watcher and the readers do to every process, and
\* what they leave alone.
LEMMA TasksLeave ==
    ASSUME ObjectsTypeOK, NEW p \in Procs,
           Cli(p) \/ ChildReaped(p) \/ StdoutReader(p) \/ StderrReader(p),
           NEW r \in Procs
    PROVE  /\ UNCHANGED <<processes, queues, made, call>>
           /\ UNCHANGED <<lp[r].queue, lp[r].pty, lp[r].handle, lp[r].stdin,
                          lp[r].signal>>
           /\ lp'[r].os # lp[r].os => lp[r].os # "none"
           /\ Alive(r)' => Alive(r)
           /\ lp'[r].err # lp[r].err => lp[r].err = "reading"
           /\ lp'[r].out # lp[r].out =>
                /\ lp[r].out \in {"created", "reading", "cancelled"}
                /\ lp'[r].out \in {"reading", "done", "failed"}
  <1>0. lp \in [Procs -> LocalProcess] /\ DOMAIN lp[p] = Fields
    BY FieldsOf DEF ObjectsTypeOK
  <1> USE DEF Fields, Alive
  <1>1. CASE \E kind \in Kinds : CliPrint(p, kind)
    BY <1>0, <1>1 DEF CliPrint
  <1>2. CASE CliLog(p)
    BY <1>0, <1>2 DEF CliLog
  <1>3. CASE CliExit(p)
    BY <1>0, <1>3 DEF CliExit
  <1>4. CASE ChildReaped(p)
    BY <1>0, <1>4 DEF ChildReaped
  <1>5. CASE StdoutStarts(p)
    BY <1>0, <1>5 DEF StdoutStarts
  <1>6. CASE ReadLine(p)
    BY <1>0, <1>6 DEF ReadLine
  <1>7. CASE ReadEof(p) \/ ReadBreaks(p) \/ ReadClosed(p) \/ ReadCancelled(p)
    <2>1. /\ lp[p].out \in {"reading", "cancelled"}
          /\ lp' = [lp EXCEPT ![p].out = "done"]
          /\ UNCHANGED <<processes, queues, made, call>>
      BY <1>7 DEF ReadEof, ReadBreaks, ReadClosed, ReadCancelled, EndStdout
    <2> QED
      BY <1>0, <2>1
  <1>8. CASE ReadStderr(p)
    BY <1>0, <1>8 DEF ReadStderr
  <1>9. CASE EndStderr(p)
    BY <1>0, <1>9 DEF EndStderr
  <1> QED
    BY <1>1, <1>2, <1>3, <1>4, <1>5, <1>6, <1>7, <1>8, <1>9
       DEF Cli, StdoutReader, StderrReader

LEMMA TasksShape ==
    ASSUME ObjectsTypeOK, ConnShape, NEW p \in Procs,
           Cli(p) \/ ChildReaped(p) \/ StdoutReader(p) \/ StderrReader(p)
    PROVE  ConnShape'
  <1> USE DEF ConnShape
  <1>0. \A r \in Procs :
           /\ UNCHANGED <<processes, queues, made, call>>
           /\ UNCHANGED <<lp[r].queue, lp[r].pty, lp[r].handle, lp[r].stdin,
                          lp[r].signal>>
           /\ lp'[r].os # lp[r].os => lp[r].os # "none"
           /\ Alive(r)' => Alive(r)
           /\ lp'[r].err # lp[r].err => lp[r].err = "reading"
           /\ lp'[r].out # lp[r].out =>
                /\ lp[r].out \in {"created", "reading", "cancelled"}
                /\ lp'[r].out \in {"reading", "done", "failed"}
    BY TasksLeave
  <1>1. CallShape'
    BY <1>0 DEF CallShape
  <1>2. ProcessShape'
    BY <1>0 DEF ProcessShape
  <1>3. EnteredShape'
    <2>1. processes' = processes /\ processes \in [Names -> Procs \union {None}]
      BY <1>0 DEF ObjectsTypeOK
    <2> QED
      BY <1>0, <2>1 DEF EnteredShape
  <1> QED
    BY <1>1, <1>2, <1>3


LEMMA ClientsTypeOK ==
    ASSUME ObjectsTypeOK, ConnShape, NEW n \in Names,
           ClientRegister(n) \/ ClientUnregister(n)
    PROVE  ObjectsTypeOK' /\ ConnShape'
  <1> USE DEF ConnShape
  <1>1. CASE ClientRegister(n)
    <2>1. ObjectsTypeOK'
      BY <1>1 DEF ClientRegister, Register, ObjectsTypeOK
    <2>2. UNCHANGED <<processes, lp, call>>
      BY <1>1 DEF ClientRegister
    <2> QED
      BY <2>1, <2>2 DEF CallShape, ProcessShape, EnteredShape, Alive
  <1>2. CASE ClientUnregister(n)
    <2>1. ObjectsTypeOK'
      BY <1>2 DEF ClientUnregister, Unregister, ObjectsTypeOK
    <2>2. UNCHANGED <<lp, call>>
      BY <1>2 DEF ClientUnregister
    <2>3. EnteredShape'
      BY <1>2, <2>2 DEF ClientUnregister, Unregister, EnteredShape, ObjectsTypeOK
    <2> QED
      BY <2>1, <2>2, <2>3 DEF CallShape, ProcessShape, Alive
  <1> QED
    BY <1>1, <1>2

\* The steps of spawn.
LEMMA SpawnBeginSafe ==
    ASSUME ObjectsTypeOK, ConnShape, NEW k \in Tasks, NEW n \in Names,
           SpawnBegin(k, n), UNCHANGED <<processes, queues, made, printed>>
    PROVE  ObjectsTypeOK' /\ ConnShape'
  <1> USE DEF ConnShape
  <1>1. PICK p \in Fresh :
           /\ lp' = [lp EXCEPT ![p].queue = queues[n]]
           /\ call' = [call EXCEPT ![k] = [at |-> "exec", name |-> n, proc |-> p]]
    BY DEF SpawnBegin
  <1>2. /\ p \in Procs /\ lp[p].queue = None /\ queues[n] \in Queues
        /\ lp[p] \in LocalProcess /\ lp \in [Procs -> LocalProcess]
        /\ call \in [Tasks -> Call] /\ DOMAIN lp[p] = Fields
    BY <1>1, FieldsOf DEF Fresh, SpawnBegin, ObjectsTypeOK
  <1>3. ObjectsTypeOK'
    <2>1. lp' = [lp EXCEPT ![p] = [lp[p] EXCEPT !.queue = queues[n]]]
      BY <1>1, <1>2
    <2>2. [lp[p] EXCEPT !.queue = queues[n]] \in LocalProcess
      BY <1>2 DEF LocalProcess
    <2>3. [at |-> "exec", name |-> n, proc |-> p] \in Call
      BY <1>2 DEF Call
    <2>4. call' \in [Tasks -> Call]
      BY <1>1, <1>2, <2>3
    <2> QED
      BY <2>1, <2>2, <2>4, UpdateTypeOK, <1>2 DEF ObjectsTypeOK
  <1>4. /\ lp'[p].queue = queues[n] /\ queues[n] # None
        /\ lp'[p].os = lp[p].os /\ lp'[p].out = lp[p].out
        /\ lp'[p].err = lp[p].err /\ lp'[p].pty = lp[p].pty
        /\ lp'[p].handle = lp[p].handle /\ lp'[p].signal = lp[p].signal
        /\ \A r \in Procs \ {p} : lp'[r] = lp[r]
    BY <1>1, <1>2, NoneAssumption DEF Fields
  <1>5. ProcessShape'
    BY <1>4, <1>2 DEF ProcessShape, Alive
  <1>6. EnteredShape'
    BY <1>4 DEF EnteredShape, ObjectsTypeOK
  <1>7. \A j \in Tasks : call[j].proc # p
    <2> SUFFICES ASSUME NEW j \in Tasks, call[j].proc = p PROVE FALSE
      OBVIOUS
    <2>1. call[j].at \in {"idle", "exec", "pipe", "wait", "readers"}
      BY <1>2 DEF Call
    <2>2. lp[p].out = "none" /\ lp[p].pty = "none"
      BY <1>2 DEF ProcessShape
    <2> QED
      BY <1>2, <2>1, <2>2, NoneAssumption DEF CallShape
  <1>8. CallShape'
    <2>1. /\ call'[k].at = "exec" /\ call'[k].name = n /\ call'[k].proc = p
      BY <1>1, <1>2
    <2>2. \A j \in Tasks \ {k} : call'[j] = call[j]
      BY <1>1, <1>2
    <2>3. lp[p].os = "none" /\ lp[p].out = "none"
      BY <1>2 DEF ProcessShape
    <2> QED
      BY <1>2, <1>4, <1>7, <2>1, <2>2, <2>3 DEF CallShape
  <1> QED
    BY <1>3, <1>5, <1>6, <1>8

LEMMA SpawnStepsSafe ==
    ASSUME ObjectsTypeOK, ConnShape, NEW k \in Tasks,
           SpawnExec(k) \/ SpawnDone(k) \/ SpawnFails(k)
    PROVE  ObjectsTypeOK' /\ ConnShape'
  <1> USE DEF ConnShape
  <1> DEFINE p == call[k].proc
  <1>1. /\ call[k].at \in {"exec", "pipe"} /\ call[k] \in Call
        /\ p \in Procs /\ call[k].name \in Names
        /\ lp[p] \in LocalProcess /\ lp \in [Procs -> LocalProcess]
        /\ call \in [Tasks -> Call] /\ DOMAIN lp[p] = Fields
        /\ DOMAIN call[k] = {"at", "name", "proc"}
    <2>1. call[k].at \in {"exec", "pipe"} /\ call[k] \in Call
      BY DEF SpawnExec, SpawnDone, SpawnFails, ObjectsTypeOK
    <2>2. p \in Procs /\ call[k].name \in Names
      BY <2>1 DEF CallShape
    <2>3. DOMAIN call[k] = {"at", "name", "proc"}
      BY <2>1 DEF Call
    <2> QED
      BY <2>1, <2>2, <2>3, FieldsOf DEF ObjectsTypeOK
  <1>2. Idle \in Call
    BY DEF Idle, Call
  <1>3. /\ lp[p].queue \in Queues /\ lp[p].out = "none" /\ lp[p].pty = "none"
        /\ \A j \in Tasks \ {k} : call[j].proc # p
    BY <1>1 DEF CallShape, ProcessShape
  <1>4. lp[p].queue # None
    BY <1>3, NoneAssumption
  <1> HIDE DEF p
  <1>5. CASE SpawnExec(k)
    <2>1. /\ lp' = [lp EXCEPT ![p] = [lp[p] EXCEPT !.os = "running",
                                                    !.handle = TRUE]]
          /\ call' = [call EXCEPT ![k] = [call[k] EXCEPT !.at = "pipe"]]
      BY <1>1, <1>5 DEF SpawnExec, p
    <2>2. [lp[p] EXCEPT !.os = "running", !.handle = TRUE] \in LocalProcess
      BY <1>1 DEF LocalProcess
    <2>3. [call[k] EXCEPT !.at = "pipe"] \in Call
      BY <1>1 DEF Call
    <2>4. ObjectsTypeOK'
      <3>1. call' \in [Tasks -> Call]
        BY <1>1, <2>1, <2>3
      <3> QED
        BY <1>1, <1>5, <2>1, <2>2, <3>1, UpdateTypeOK DEF SpawnExec, ObjectsTypeOK
    <2>5. /\ lp'[p].os = "running" /\ lp'[p].handle /\ lp'[p].out = "none"
          /\ lp'[p].pty = "none" /\ lp'[p].queue = lp[p].queue
          /\ \A r \in Procs \ {p} : lp'[r] = lp[r]
      BY <1>1, <1>3, <2>1 DEF Fields
    <2>6. /\ call'[k].at = "pipe" /\ call'[k].proc = p
          /\ call'[k].name = call[k].name
          /\ \A j \in Tasks \ {k} : call'[j] = call[j]
      BY <1>1, <2>1 DEF p
    <2>7. ProcessShape'
      BY <1>1, <1>4, <2>5 DEF ProcessShape, Alive
    <2>8. EnteredShape'
      BY <1>3, <1>5, <2>5 DEF EnteredShape, SpawnExec, ObjectsTypeOK
    <2>9. CallShape'
      BY <1>1, <1>3, <2>5, <2>6 DEF CallShape
    <2> QED
      BY <2>4, <2>7, <2>8, <2>9
  <1>6. CASE SpawnDone(k)
    <2> DEFINE r == [lp[p] EXCEPT !.pty = "open", !.out = "created",
                                  !.err = "reading"]
    <2>1. /\ lp' = [lp EXCEPT ![p] = r]
          /\ call' = [call EXCEPT ![k] = Idle]
          /\ processes' = [processes EXCEPT ![call[k].name] = p]
      BY <1>1, <1>6 DEF SpawnDone, p
    <2>2. r \in LocalProcess
      BY <1>1 DEF LocalProcess
    <2>4. ObjectsTypeOK'
      <3> HIDE DEF r
      <3> QED
        BY <1>1, <1>2, <1>6, <2>1, <2>2, UpdateTypeOK DEF SpawnDone, ObjectsTypeOK
    <2>5. /\ lp'[p].os = lp[p].os /\ lp'[p].handle = lp[p].handle
          /\ lp'[p].out = "created"
          /\ lp'[p].pty = "open" /\ lp'[p].queue = lp[p].queue
          /\ \A s \in Procs \ {p} : lp'[s] = lp[s]
      BY <1>1, <1>3, <2>1 DEF Fields
    <2> HIDE DEF r
    <2>6. /\ call'[k].at = "idle" /\ call'[k].proc = None
          /\ \A j \in Tasks \ {k} : call'[j] = call[j]
      BY <1>1, <2>1 DEF Idle
    <2>a. call[k].at = "pipe" /\ lp[p].handle
      BY <1>6 DEF SpawnDone, CallShape, p
    <2>b. lp'[p].handle
      BY <2>5, <2>a
    <2>7. ProcessShape'
      BY <1>1, <1>4, <2>5, <2>b DEF ProcessShape, Alive
    <2>8. EnteredShape'
      BY <1>1, <2>1, <2>5 DEF EnteredShape, ObjectsTypeOK
    <2>9. CallShape'
      BY <1>1, <1>3, <2>5, <2>6, NoneAssumption DEF CallShape
    <2> QED
      BY <2>4, <2>7, <2>8, <2>9
  <1>7. CASE SpawnFails(k)
    <2>1. call' = [call EXCEPT ![k] = Idle] /\ lp' = lp /\ processes' = processes
      BY <1>7 DEF SpawnFails
    <2>2. ObjectsTypeOK'
      BY <1>1, <1>2, <1>7, <2>1 DEF SpawnFails, ObjectsTypeOK
    <2>3. /\ call'[k].at = "idle" /\ call'[k].proc = None
          /\ \A j \in Tasks \ {k} : call'[j] = call[j]
      BY <1>1, <2>1 DEF Idle
    <2>4. CallShape'
      BY <1>1, <2>1, <2>3, NoneAssumption DEF CallShape
    <2> QED
      BY <2>1, <2>2, <2>4 DEF ProcessShape, EnteredShape, Alive
  <1> QED
    BY <1>5, <1>6, <1>7

\* The steps of kill.
LEMMA KillBeginSafe ==
    ASSUME ObjectsTypeOK, ConnShape, NEW k \in Tasks, NEW n \in Names,
           KillBegin(k, n), UNCHANGED <<processes, queues, made, printed>>
    PROVE  ObjectsTypeOK' /\ ConnShape'
  <1> USE DEF ConnShape
  <1> DEFINE p == processes[n]
             waits == lp[p].handle /\ lp[p].os # "reaped"
             r == [lp[p] EXCEPT
                !.pty = "closed",
                !.stdin = IF lp[p].handle THEN "closed" ELSE lp[p].stdin,
                !.signal = IF lp[p].handle /\ Alive(p) /\ lp[p].signal = "none"
                           THEN "term" ELSE lp[p].signal,
                !.handle = waits,
                !.out = IF waits THEN lp[p].out ELSE Cancelled(lp[p].out)]
             c == [at |-> IF waits THEN "wait" ELSE "readers",
                   name |-> n, proc |-> p]
  <1>1. /\ p \in Procs /\ lp[p] \in LocalProcess /\ lp \in [Procs -> LocalProcess]
        /\ call \in [Tasks -> Call] /\ DOMAIN lp[p] = Fields
        /\ lp[p].out # "none" /\ lp[p].queue # None
    <2>1. p \in Procs /\ lp[p].out # "none"
      BY DEF KillBegin, Killed, ObjectsTypeOK, EnteredShape
    <2> QED
      BY <2>1, FieldsOf DEF ObjectsTypeOK, ProcessShape
  <1>2. lp' = [lp EXCEPT ![p] = r]
    BY <1>1 DEF KillBegin
  <1>3. call' = [call EXCEPT ![k] = c]
    BY DEF KillBegin
  <1>4. /\ Cancelled(lp[p].out) \in {"cancelled", "failed", "done", "none"}
        /\ Cancelled(lp[p].out) # "none"
    BY <1>1 DEF Cancelled, LocalProcess
  <1>5. r \in LocalProcess
    <2> DEFINE signal == IF lp[p].handle /\ Alive(p) /\ lp[p].signal = "none"
                         THEN "term" ELSE lp[p].signal
               stdin == IF lp[p].handle THEN "closed" ELSE lp[p].stdin
               out == IF waits THEN lp[p].out ELSE Cancelled(lp[p].out)
    <2>1. signal \in {"none", "term", "kill"}
      BY <1>1 DEF LocalProcess
    <2>2. stdin \in {"open", "closed"}
      BY <1>1 DEF LocalProcess
    <2>3. out \in {"none", "created", "reading", "cancelled", "done", "failed"}
      BY <1>1, <1>4 DEF LocalProcess
    <2>4. waits \in BOOLEAN
      OBVIOUS
    <2>5. r = [lp[p] EXCEPT !.pty = "closed", !.stdin = stdin, !.signal = signal,
                            !.handle = waits, !.out = out]
      OBVIOUS
    <2> HIDE DEF signal, stdin, out, waits, r
    <2> DEFINE closed == [lp[p] EXCEPT !.pty = "closed", !.stdin = stdin,
                                       !.signal = signal]
    <2>6. closed \in LocalProcess
      BY <1>1, <2>1, <2>2 DEF LocalProcess
    <2>7. r = [closed EXCEPT !.handle = waits, !.out = out]
      BY <2>5
    <2> HIDE DEF closed
    <2> QED
      BY <2>3, <2>4, <2>6, <2>7 DEF LocalProcess
  <1>6. c \in Call
    BY <1>1 DEF Call
  <1>7. ObjectsTypeOK'
    <2> HIDE DEF r, c, p
    <2> QED
      BY <1>1, <1>2, <1>3, <1>5, <1>6, UpdateTypeOK DEF ObjectsTypeOK
  <1>8. /\ lp'[p].os = lp[p].os /\ lp'[p].queue = lp[p].queue
        /\ lp'[p].err = lp[p].err
        /\ lp'[p].pty = "closed" /\ lp'[p].out # "none"
        /\ lp'[p].handle => lp[p].handle
        /\ lp'[p].signal = IF lp[p].handle /\ Alive(p) /\ lp[p].signal = "none"
                           THEN "term" ELSE lp[p].signal
        /\ \A s \in Procs \ {p} : lp'[s] = lp[s]
    BY <1>1, <1>2, <1>4 DEF Fields
  <1>9. call'[k].at \in {"wait", "readers"} /\ call'[k].proc = p
        /\ \A j \in Tasks \ {k} : call'[j] = call[j]
    BY <1>1, <1>3
  <1> HIDE DEF r, c, p, waits
  <1>10. ProcessShape'
    BY <1>1, <1>8 DEF ProcessShape, Alive
  <1>11. EnteredShape'
    BY <1>1, <1>8 DEF EnteredShape, ObjectsTypeOK
  <1>12. CallShape'
    BY <1>1, <1>8, <1>9 DEF CallShape
  <1> QED
    BY <1>7, <1>10, <1>11, <1>12

LEMMA LeaveWaitSafe ==
    ASSUME ObjectsTypeOK, ConnShape, NEW k \in Tasks,
           KillWaited(k) \/ KillTimesOut(k)
    PROVE  ObjectsTypeOK' /\ ConnShape'
  <1> USE DEF ConnShape
  <1> DEFINE p == call[k].proc
  <1>1. PICK signal \in {"none", "term", "kill"} :
           /\ call[k].at = "wait" /\ LeaveWait(k, signal)
           /\ Alive(p) => signal # "none"
    <2>1. CASE KillWaited(k)
      <3>1. call[k].at = "wait" /\ LeaveWait(k, lp[p].signal) /\ lp[p].os = "reaped"
        BY <2>1 DEF KillWaited
      <3>2. p \in Procs
        BY <3>1 DEF CallShape
      <3>3. lp[p].signal \in {"none", "term", "kill"}
        BY <3>2 DEF ObjectsTypeOK, LocalProcess
      <3> QED
        BY <3>1, <3>3 DEF Alive
    <2>2. CASE KillTimesOut(k)
      BY <2>2 DEF KillTimesOut
    <2> QED
      BY <2>1, <2>2
  <1> DEFINE r == [lp[p] EXCEPT !.signal = signal, !.handle = FALSE,
                                !.out = Cancelled(lp[p].out)]
             c == [call[k] EXCEPT !.at = "readers"]
  <1>2. /\ p \in Procs /\ lp[p] \in LocalProcess /\ lp \in [Procs -> LocalProcess]
        /\ call \in [Tasks -> Call] /\ DOMAIN lp[p] = Fields
        /\ lp[p].pty = "closed" /\ lp[p].out # "none" /\ lp[p].queue # None
        /\ call[k] \in Call /\ DOMAIN call[k] = {"at", "name", "proc"}
    <2>1. p \in Procs /\ lp[p].pty = "closed"
      BY <1>1 DEF CallShape
    <2>2. lp[p].out # "none" /\ lp[p].queue # None
      BY <2>1 DEF ProcessShape
    <2>3. call[k] \in Call
      BY DEF ObjectsTypeOK
    <2>4. DOMAIN call[k] = {"at", "name", "proc"}
      BY <2>3 DEF Call
    <2> QED
      BY <2>1, <2>2, <2>3, <2>4, FieldsOf DEF ObjectsTypeOK
  <1>3. lp' = [lp EXCEPT ![p] = r] /\ call' = [call EXCEPT ![k] = c]
    BY <1>1, <1>2 DEF LeaveWait
  <1>4. /\ Cancelled(lp[p].out) \in {"cancelled", "failed", "done", "none"}
        /\ Cancelled(lp[p].out) # "none"
    BY <1>2 DEF Cancelled, LocalProcess
  <1>5. r \in LocalProcess
    BY <1>1, <1>2, <1>4 DEF LocalProcess
  <1>6. c \in Call
    BY <1>2 DEF Call
  <1>7. ObjectsTypeOK'
    <2> HIDE DEF r, c, p
    <2>1. call' \in [Tasks -> Call]
      BY <1>2, <1>3, <1>6
    <2>2. UNCHANGED <<processes, queues, content, made, printed>>
      BY <1>1 DEF LeaveWait
    <2> QED
      BY <1>2, <1>3, <1>5, <2>1, <2>2, UpdateTypeOK DEF ObjectsTypeOK
  <1>8. /\ lp'[p].os = lp[p].os /\ lp'[p].queue = lp[p].queue
        /\ lp'[p].err = lp[p].err /\ lp'[p].signal = signal
        /\ lp'[p].pty = "closed" /\ lp'[p].out # "none"
        /\ \A s \in Procs \ {p} : lp'[s] = lp[s]
    BY <1>2, <1>3, <1>4 DEF Fields
  <1>9. call'[k].at = "readers" /\ call'[k].proc = p
        /\ \A j \in Tasks \ {k} : call'[j] = call[j]
    BY <1>2, <1>3
  <1>a. processes' = processes
    BY <1>1 DEF LeaveWait
  <1> HIDE DEF r, c, p
  <1>10. ProcessShape'
    BY <1>1, <1>2, <1>8 DEF ProcessShape, Alive
  <1>11. EnteredShape'
    BY <1>2, <1>8, <1>a DEF EnteredShape, ObjectsTypeOK
  <1>12. CallShape'
    BY <1>2, <1>8, <1>9 DEF CallShape, p
  <1> QED
    BY <1>7, <1>10, <1>11, <1>12

\* The end of a call, with which a host may unregister the name.
LEMMA CallEndsSafe ==
    ASSUME ObjectsTypeOK, ConnShape, NEW k \in Tasks,
           call' = [call EXCEPT ![k] = Idle], UNCHANGED <<made, lp, printed>>,
           \/ UNCHANGED <<processes, queues>>
           \/ \E n \in Names : Unregister(n)
    PROVE  ObjectsTypeOK' /\ ConnShape'
  <1>1. Idle \in Call
    BY DEF Idle, Call
  <1>2. ObjectsTypeOK'
    BY <1>1 DEF ObjectsTypeOK, Unregister
  <1>3. /\ call'[k].at = "idle" /\ call'[k].proc = None
        /\ \A j \in Tasks \ {k} : call'[j] = call[j]
    BY DEF Idle, ObjectsTypeOK
  <1>4. CallShape'
    BY <1>3, NoneAssumption DEF CallShape, ConnShape
  <1>5. EnteredShape'
    BY DEF EnteredShape, ConnShape, Unregister, ObjectsTypeOK
  <1> QED
    BY <1>2, <1>4, <1>5 DEF ConnShape, ProcessShape, Alive

LEMMA KillCancelledSafe ==
    ASSUME ObjectsTypeOK, ConnShape, NEW k \in Tasks, KillCancelled(k),
           UNCHANGED <<processes, queues, made, printed>>
    PROVE  ObjectsTypeOK' /\ ConnShape'
  <1> DEFINE p == call[k].proc
  <1>1. /\ p \in Procs /\ lp[p] \in LocalProcess /\ lp \in [Procs -> LocalProcess]
        /\ call \in [Tasks -> Call] /\ DOMAIN lp[p] = Fields
        /\ lp[p].pty = "closed"
    <2>1. p \in Procs /\ lp[p].pty = "closed"
      BY DEF KillCancelled, ConnShape, CallShape
    <2> QED
      BY <2>1, FieldsOf DEF ObjectsTypeOK
  <1>2. /\ lp' = [lp EXCEPT ![p] = [lp[p] EXCEPT !.handle = FALSE]]
        /\ call' = [call EXCEPT ![k] = Idle]
    BY <1>1 DEF KillCancelled
  <1>3. [lp[p] EXCEPT !.handle = FALSE] \in LocalProcess
    BY <1>1 DEF LocalProcess
  <1>4. Idle \in Call
    BY DEF Idle, Call
  <1>5. ObjectsTypeOK'
    <2> HIDE DEF p
    <2> QED
      BY <1>1, <1>2, <1>3, <1>4, UpdateTypeOK DEF ObjectsTypeOK
  <1>6. /\ lp'[p].os = lp[p].os /\ lp'[p].queue = lp[p].queue
        /\ lp'[p].err = lp[p].err /\ lp'[p].signal = lp[p].signal
        /\ lp'[p].pty = lp[p].pty /\ lp'[p].out = lp[p].out
        /\ \A s \in Procs \ {p} : lp'[s] = lp[s]
    BY <1>1, <1>2 DEF Fields
  <1>7. /\ call'[k].at = "idle" /\ call'[k].proc = None
        /\ \A j \in Tasks \ {k} : call'[j] = call[j]
    BY <1>1, <1>2 DEF Idle
  <1>8. \A j \in Tasks : call[j].at \in {"exec", "pipe"} => call[j].proc # p
    <2>1. lp[p].out # "none"
      BY <1>1 DEF ConnShape, ProcessShape
    <2> QED
      BY <2>1 DEF ConnShape, CallShape
  <1> HIDE DEF p
  <1>9. ProcessShape'
    BY <1>1, <1>6 DEF ConnShape, ProcessShape, Alive
  <1>10. EnteredShape'
    BY <1>1, <1>6 DEF ConnShape, EnteredShape, ObjectsTypeOK
  <1>11. CallShape'
    BY <1>1, <1>6, <1>7, <1>8, NoneAssumption DEF ConnShape, CallShape
  <1> QED
    BY <1>5, <1>9, <1>10, <1>11 DEF ConnShape

\* The step of the specification, and type correctness.
LEMMA ConnInitShape == ConnInit => ConnShape
  BY NoneAssumption
     DEF ConnInit, ConnShape, CallShape, ProcessShape, EnteredShape, Alive,
         Unstarted, Idle

LEMMA ConnStep ==
    ASSUME ConnTypeOK, ConnShape, [ConnNext]_connVars
    PROVE  ConnTypeOK' /\ ConnShape'
  <1>0. ObjectsTypeOK /\ content \in [Queues -> Seq(Event)]
    BY TypeParts
  <1> SUFFICES ObjectsTypeOK' /\ ConnShape' /\ content' \in [Queues -> Seq(Event)]
    BY DEF ConnTypeOK, ObjectsTypeOK
  <1>1. ASSUME NEW n \in Names, ClientRegister(n) \/ ClientUnregister(n)
        PROVE  ObjectsTypeOK' /\ ConnShape' /\ content' = content
    BY <1>0, <1>1, ClientsTypeOK DEF ClientRegister, ClientUnregister
  <1>2. ASSUME NEW k \in Tasks, NEW n \in Names,
               ClientSpawn(k, n) \/ ClientKill(k, n)
        PROVE  ObjectsTypeOK' /\ ConnShape' /\ content' = content
    BY <1>0, <1>2, SpawnBeginSafe, KillBeginSafe DEF ClientSpawn, ClientKill
  <1>3. ASSUME NEW k \in Tasks, CallSteps(k)
        PROVE  ObjectsTypeOK' /\ ConnShape' /\ content' = content
    <2>1. content' = content
      BY <1>3 DEF CallSteps, SpawnExec, SpawnDone, SpawnFails, KillWaited,
                  KillTimesOut, LeaveWait
    <2> QED
      BY <1>0, <1>3, <2>1, SpawnStepsSafe, LeaveWaitSafe DEF CallSteps
  <1>4. ASSUME NEW k \in Tasks, ClientKillEnds(k)
        PROVE  ObjectsTypeOK' /\ ConnShape' /\ content' = content
    BY <1>0, <1>4, CallEndsSafe DEF ClientKillEnds, KillEnds
  <1>5. ASSUME NEW p \in Procs,
               Cli(p) \/ ChildReaped(p) \/ StdoutReader(p) \/ StderrReader(p)
        PROVE  ObjectsTypeOK' /\ ConnShape' /\ content' \in [Queues -> Seq(Event)]
    <2>1. ObjectsTypeOK'
      BY <1>0, <1>5, CliTypeOK, ReadersTypeOK DEF ConnShape
    <2>2. ConnShape'
      BY <1>0, <1>5, TasksShape
    <2>3. \/ content' = content
          \/ /\ lp[p].queue \in Queues
             /\ \E es \in Seq(Sent) : content' = Put(lp[p].queue, es)
      BY <1>0, <1>5, TasksPut DEF ConnShape
    <2>4. Seq(Sent) \subseteq Seq(Event)
      BY DEF Sent
    <2>5. content' \in [Queues -> Seq(Event)]
      BY <1>0, <2>3, <2>4, PutTypeOK
    <2> QED
      BY <2>1, <2>2, <2>5
  <1>6. CASE UNCHANGED connVars
    <2>1. ObjectsTypeOK' /\ content' = content
      BY <1>0, <1>6 DEF connVars, ObjectsTypeOK
    <2>2. ConnShape'
      BY <1>6 DEF connVars, ConnShape, CallShape, ProcessShape, EnteredShape, Alive
    <2> QED
      BY <1>0, <2>1, <2>2
  <1> QED
    BY <1>0, <1>1, <1>2, <1>3, <1>4, <1>5, <1>6 DEF ConnNext

\* The type and the shape of the connection's state are invariants.
THEOREM ConnSafe == ConnSpec => [](ConnTypeOK /\ ConnShape)
  <1>1. ConnInit => ConnTypeOK /\ ConnShape
    BY ConnInitTypeOK, ConnInitShape
  <1>2. ConnTypeOK /\ ConnShape /\ [ConnNext]_connVars
          => (ConnTypeOK /\ ConnShape)'
    BY ConnStep
  <1> QED
    BY <1>1, <1>2, PTL DEF ConnSpec

\* Every value of connVars has the type the code's data have.
THEOREM ConnTypeCorrect == ConnSpec => []ConnTypeOK
  BY ConnSafe, PTL

-----------------------------------------------------------------------------
(* Lines and events.                                                       *)

\* What the reader has taken of the lines printed, and what is left.
Taken(p) == Len(printed[p]) - Len(lp[p].pipe)

\* The pty holds the lines printed last; a line's number is its place.
Numbered(p) ==
    /\ Len(lp[p].pipe) <= Len(printed[p])
    /\ \A i \in DOMAIN printed[p] :
         printed[p][i].proc = p /\ printed[p][i].id = i
    /\ \A i \in DOMAIN lp[p].pipe : lp[p].pipe[i] = printed[p][Taken(p) + i]

\* An exit event is put when the reader is done, and not before.
ExitWhenDone(p) ==
    \A q \in Queues : \A i \in DOMAIN content[q] :
        IsExitFrom(content[q][i], p) => lp[p].out = "done"

ExitIsLast(p) ==
    \A q \in Queues : \A i \in DOMAIN content[q] :
        IsExitFrom(content[q][i], p) =>
            \A j \in i + 1..Len(content[q]) :
                ~IsExitFrom(content[q][j], p) /\ ~IsLineFrom(content[q][j], p)

\* Until a kill, the queue has the lines taken that are not junk, in their
\* order, and nothing else of this CLI's stdout.
Forwarded(p) ==
    lp[p].pty # "closed" =>
      /\ lp[p].out = "none" => Taken(p) = 0
      /\ \A i \in 1..Taken(p) : printed[p][i].kind # "junk" =>
           \E j \in DOMAIN content[lp[p].queue] :
              content[lp[p].queue][j] = Stdout(printed[p][i])
      /\ \A q \in Queues : \A j \in DOMAIN content[q] :
           IsLineFrom(content[q][j], p) =>
             /\ q = lp[p].queue
             /\ content[q][j].line.id \in 1..Taken(p)
             /\ content[q][j].line = printed[p][content[q][j].line.id]
             /\ content[q][j].line.kind # "junk"
             /\ \A i \in 1..j - 1 : IsLineFrom(content[q][i], p) =>
                  content[q][i].line.id < content[q][j].line.id

\* The reader of a pty nobody closed ends when it is drained or on a line it
\* fails on.
Drained(p) ==
    lp[p].pty # "closed" /\ lp[p].out = "done" =>
      \/ lp[p].pipe = <<>> /\ lp[p].os \in {"exited", "reaped"}
      \/ \E i \in DOMAIN printed[p] : printed[p][i].kind = "breaking"

LinesInv(p) ==
    Numbered(p) /\ ExitWhenDone(p) /\ ExitIsLast(p) /\ Forwarded(p) /\ Drained(p)

\* What a queue keeps in a step, and what it gets.
Kept(q) ==
    /\ Len(content[q]) <= Len(content'[q])
    /\ \A j \in DOMAIN content[q] : content'[q][j] = content[q][j]
New(q) == Len(content[q]) + 1..Len(content'[q])

\* A step that neither prints for p nor is a step of its stdout reader but
\* the first.
Foreign(p) ==
    /\ printed'[p] = printed[p] /\ lp'[p].pipe = lp[p].pipe
    /\ lp'[p].queue # lp[p].queue => lp[p].queue = None
    /\ lp[p].out = "done" <=> lp'[p].out = "done"
    /\ lp'[p].out = "none" => lp[p].out = "none"
    /\ lp[p].pty = "closed" => lp'[p].pty = "closed"
    /\ lp[p].os \in {"exited", "reaped"} => lp'[p].os \in {"exited", "reaped"}
    /\ \A q \in Queues :
         /\ Kept(q)
         /\ \A j \in New(q) : /\ ~IsExitFrom(content'[q][j], p)
                              /\ ~IsLineFrom(content'[q][j], p)

LEMMA ForeignKeeps ==
    ASSUME ConnTypeOK, ConnShape, ConnTypeOK', NEW p \in Procs, Foreign(p),
           LinesInv(p)
    PROVE  LinesInv(p)'
  <1>0. /\ printed[p] \in Seq(Line) /\ lp[p].pipe \in Seq(Line)
        /\ content \in [Queues -> Seq(Event)] /\ content' \in [Queues -> Seq(Event)]
    BY DEF ConnTypeOK, LocalProcess
  <1>1. Taken(p)' = Taken(p)
    BY DEF Foreign, Taken
  <1>2. Numbered(p)'
    BY <1>1 DEF Foreign, Numbered, LinesInv
  <1>3. \A q \in Queues : \A j \in DOMAIN content'[q] :
           IsExitFrom(content'[q][j], p) \/ IsLineFrom(content'[q][j], p) =>
             j \in DOMAIN content[q] /\ content'[q][j] = content[q][j]
    <2> TAKE q \in Queues
    <2>1. /\ Kept(q)
          /\ \A j \in New(q) : /\ ~IsExitFrom(content'[q][j], p)
                               /\ ~IsLineFrom(content'[q][j], p)
      BY DEF Foreign
    <2>2. /\ DOMAIN content[q] = 1..Len(content[q]) /\ Len(content[q]) \in Nat
          /\ DOMAIN content'[q] = 1..Len(content'[q]) /\ Len(content'[q]) \in Nat
      BY <1>0
    <2> QED
      BY <2>1, <2>2 DEF Kept, New
  <1>4. ExitWhenDone(p)'
    BY <1>0, <1>3 DEF Foreign, LinesInv, ExitWhenDone
  <1>5. ExitIsLast(p)'
    <2> SUFFICES ASSUME NEW q \in Queues, NEW i \in DOMAIN content'[q],
                        IsExitFrom(content'[q][i], p),
                        NEW j \in i + 1..Len(content'[q])
                 PROVE  ~IsExitFrom(content'[q][j], p)
                          /\ ~IsLineFrom(content'[q][j], p)
      BY DEF ExitIsLast
    <2>1. i \in DOMAIN content[q] /\ content'[q][i] = content[q][i]
      BY <1>3
    <2>2. j \in DOMAIN content'[q]
      BY <1>0
    <2>3. CASE j \in DOMAIN content[q] /\ content'[q][j] = content[q][j]
      BY <1>0, <2>1, <2>3 DEF LinesInv, ExitIsLast
    <2> QED
      BY <1>3, <2>2, <2>3
  <1>6. Forwarded(p)'
    <2> SUFFICES ASSUME lp'[p].pty # "closed" PROVE Forwarded(p)'
      BY DEF Forwarded
    <2>1. Forwarded(p) /\ lp[p].pty # "closed"
      BY DEF Foreign, LinesInv
    <2>2. lp'[p].out = "none" => Taken(p)' = 0
      BY <1>1, <2>1 DEF Foreign, Forwarded
    <2>3. ASSUME NEW i \in 1..Taken(p)', printed'[p][i].kind # "junk"
          PROVE  \E j \in DOMAIN content'[lp'[p].queue] :
                    content'[lp'[p].queue][j] = Stdout(printed'[p][i])
      <3>1. lp[p].queue # None
        BY <1>1, <2>1, <2>3 DEF Forwarded, ConnShape, ProcessShape
      <3>2. lp'[p].queue = lp[p].queue /\ lp[p].queue \in Queues
        BY <3>1 DEF Foreign, ConnTypeOK, LocalProcess
      <3>3. PICK j \in DOMAIN content[lp[p].queue] :
               content[lp[p].queue][j] = Stdout(printed[p][i])
        BY <1>1, <2>1, <2>3 DEF Foreign, Forwarded
      <3>4. j \in DOMAIN content'[lp[p].queue]
               /\ content'[lp[p].queue][j] = content[lp[p].queue][j]
        BY <1>0, <3>2, <3>3 DEF Foreign, Kept
      <3> QED
        BY <3>2, <3>3, <3>4 DEF Foreign
    <2>4. ASSUME NEW q \in Queues, NEW j \in DOMAIN content'[q],
                 IsLineFrom(content'[q][j], p)
          PROVE  /\ q = lp'[p].queue
                 /\ content'[q][j].line.id \in 1..Taken(p)'
                 /\ content'[q][j].line = printed'[p][content'[q][j].line.id]
                 /\ content'[q][j].line.kind # "junk"
                 /\ \A i \in 1..j - 1 : IsLineFrom(content'[q][i], p) =>
                      content'[q][i].line.id < content'[q][j].line.id
      <3>1. j \in DOMAIN content[q] /\ content'[q][j] = content[q][j]
        BY <1>3, <2>4
      <3>2. q = lp[p].queue /\ lp'[p].queue = lp[p].queue
        BY <2>1, <2>4, <3>1, NoneAssumption DEF Foreign, Forwarded
      <3>3. \A i \in 1..j - 1 : content'[q][i] = content[q][i]
        BY <1>0, <3>1 DEF Foreign, Kept
      <3> QED
        BY <1>1, <2>1, <2>4, <3>1, <3>2, <3>3 DEF Foreign, Forwarded
    <2> QED
      BY <2>2, <2>3, <2>4 DEF Forwarded, Taken, IsLineFrom
  <1>7. Drained(p)'
    BY DEF Foreign, LinesInv, Drained
  <1> QED
    BY <1>2, <1>4, <1>5, <1>6, <1>7 DEF LinesInv


LEMMA TailPoints ==
    ASSUME NEW S, NEW s \in Seq(S), s # <<>>
    PROVE  \A i \in DOMAIN Tail(s) : i + 1 \in DOMAIN s /\ Tail(s)[i] = s[i + 1]
  <1>1. DOMAIN s = 1..Len(s) /\ Len(s) \in Nat /\ Len(Tail(s)) = Len(s) - 1
    OBVIOUS
  <1>2. DOMAIN Tail(s) = 1..Len(s) - 1
    OBVIOUS
  <1> QED
    BY <1>1, <1>2

\* What Put leaves of every queue.
LEMMA PutPoints ==
    ASSUME content \in [Queues -> Seq(Event)], NEW q \in Queues,
           NEW es \in Seq(Event), content' = Put(q, es)
    PROVE  /\ \A r \in Queues : Kept(r)
           /\ \A r \in Queues \ {q} : content'[r] = content[r] /\ New(r) = {}
           /\ Len(content'[q]) = Len(content[q]) + Len(es)
           /\ \A j \in New(q) : /\ j - Len(content[q]) \in 1..Len(es)
                               /\ content'[q][j] = es[j - Len(content[q])]
  <1>1. content'[q] = content[q] \o es
    BY DEF Put
  <1>2. \A r \in Queues \ {q} : content'[r] = content[r]
    BY DEF Put
  <1>3. content[q] \in Seq(Event)
    OBVIOUS
  <1>4. /\ Len(content'[q]) = Len(content[q]) + Len(es)
        /\ \A j \in 1..Len(content[q]) : content'[q][j] = content[q][j]
        /\ \A j \in Len(content[q]) + 1..Len(content[q]) + Len(es) :
             content'[q][j] = es[j - Len(content[q])]
    BY <1>1, <1>3
  <1>5. Kept(q)
    BY <1>3, <1>4, SMTT(30) DEF Kept
  <1>6. \A r \in Queues \ {q} : Kept(r) /\ New(r) = {}
    <2> TAKE r \in Queues \ {q}
    <2>1. content[r] \in Seq(Event) /\ content'[r] = content[r]
      BY <1>2
    <2> QED
      BY <2>1 DEF Kept, New
  <1>7. \A j \in New(q) : /\ j - Len(content[q]) \in 1..Len(es)
                         /\ content'[q][j] = es[j - Len(content[q])]
    <2>1. Len(content[q]) \in Nat /\ Len(es) \in Nat
      BY <1>3
    <2> QED
      BY <1>4, <2>1 DEF New
  <1> QED
    BY <1>2, <1>4, <1>5, <1>6, <1>7

\* The CLI prints a line.
LEMMA PrintNumbered ==
    ASSUME ObjectsTypeOK, NEW p \in Procs, Numbered(p),
           NEW kind \in Kinds, CliPrint(p, kind)
    PROVE  /\ Numbered(p)' /\ Taken(p)' = Taken(p)
           /\ Taken(p) \in Nat /\ 1..Taken(p) \subseteq DOMAIN printed[p]
           /\ \A i \in DOMAIN printed[p] :
                i \in DOMAIN printed'[p] /\ printed'[p][i] = printed[p][i]
  <1> DEFINE l == [proc |-> p, id |-> Len(printed[p]) + 1, kind |-> kind]
  <1>0. /\ printed[p] \in Seq(Line) /\ lp[p].pipe \in Seq(Line)
        /\ lp[p] \in LocalProcess /\ lp \in [Procs -> LocalProcess]
        /\ printed \in [Procs -> Seq(Line)] /\ DOMAIN lp[p] = Fields
    BY FieldsOf DEF ObjectsTypeOK, LocalProcess
  <1>1. l.proc = p /\ l.id = Len(printed[p]) + 1 /\ l.kind = kind
    OBVIOUS
  <1>l. l \in Line
    <2>1. Len(printed[p]) + 1 \in 1..MaxOut
      BY <1>0, BoundsAssumption DEF CliPrint
    <2> QED
      BY <2>1 DEF Line
  <1> HIDE DEF l
  <1>2. /\ lp' = [lp EXCEPT ![p].pipe = Append(@, l)]
        /\ printed' = [printed EXCEPT ![p] = Append(@, l)]
    BY DEF CliPrint, l
  <1>3. lp'[p].pipe = Append(lp[p].pipe, l) /\ printed'[p] = Append(printed[p], l)
    BY <1>0, <1>2 DEF Fields
  <1>4. /\ Len(lp'[p].pipe) = Len(lp[p].pipe) + 1
        /\ Len(printed'[p]) = Len(printed[p]) + 1
        /\ Len(lp[p].pipe) \in Nat /\ Len(printed[p]) \in Nat
        /\ DOMAIN printed[p] = 1..Len(printed[p])
        /\ DOMAIN printed'[p] = 1..Len(printed'[p])
        /\ DOMAIN lp[p].pipe = 1..Len(lp[p].pipe)
        /\ DOMAIN lp'[p].pipe = 1..Len(lp'[p].pipe)
    BY <1>0, <1>l, <1>3
  <1>a. Len(lp[p].pipe) <= Len(printed[p])
    BY DEF Numbered
  <1>5. /\ Taken(p)' = Taken(p) /\ Taken(p) \in Nat
        /\ Taken(p) + Len(lp[p].pipe) = Len(printed[p])
    BY <1>4, <1>a DEF Taken
  <1>6. /\ \A i \in DOMAIN printed[p] : printed'[p][i] = printed[p][i]
        /\ \A i \in DOMAIN lp[p].pipe : lp'[p].pipe[i] = lp[p].pipe[i]
        /\ printed'[p][Len(printed[p]) + 1] = l
        /\ lp'[p].pipe[Len(lp[p].pipe) + 1] = l
    BY <1>0, <1>3, <1>l
  <1>7. Numbered(p)'
    <2>1. \A i \in DOMAIN printed'[p] :
             printed'[p][i].proc = p /\ printed'[p][i].id = i
      BY <1>1, <1>4, <1>6 DEF Numbered
    <2>2. ASSUME NEW i \in DOMAIN lp'[p].pipe
          PROVE  lp'[p].pipe[i] = printed'[p][Taken(p) + i]
      <3>1. CASE i \in DOMAIN lp[p].pipe
        <4>1. lp[p].pipe[i] = printed[p][Taken(p) + i]
          BY <3>1 DEF Numbered
        <4>2. Taken(p) + i \in DOMAIN printed[p]
          BY <1>4, <1>5, <3>1
        <4> QED
          BY <1>6, <3>1, <4>1, <4>2
      <3>2. CASE i = Len(lp[p].pipe) + 1
        <4>1. Taken(p) + i = Len(printed[p]) + 1
          <5>1. /\ Taken(p) \in Nat /\ Len(lp[p].pipe) \in Nat
                /\ Taken(p) + Len(lp[p].pipe) = Len(printed[p])
            BY <1>4, <1>5
          <5>2. \A a, b, c \in Nat : a + b = c => a + (b + 1) = c + 1
            OBVIOUS
          <5> QED
            BY <1>4, <3>2, <5>1, <5>2
        <4> QED
          BY <1>6, <3>2, <4>1
      <3> QED
        BY <1>4, <3>1, <3>2, SMTT(60)
    <2>3. Len(lp'[p].pipe) <= Len(printed'[p])
      BY <1>4 DEF Numbered
    <2> QED
      BY <1>5, <2>1, <2>2, <2>3 DEF Numbered
  <1>8. 1..Taken(p) \subseteq DOMAIN printed[p]
    <2>1. Taken(p) \in Nat /\ Len(printed[p]) \in Nat /\ Taken(p) <= Len(printed[p])
      BY <1>4, <1>5
    <2> QED
      BY <1>4, <2>1
  <1>9. \A i \in DOMAIN printed[p] : i \in DOMAIN printed'[p]
    BY <1>4
  <1> QED
    BY <1>5, <1>6, <1>7, <1>8, <1>9

LEMMA PrintKeeps ==
    ASSUME ConnTypeOK, ConnShape, NEW p \in Procs, LinesInv(p),
           NEW kind \in Kinds, CliPrint(p, kind)
    PROVE  LinesInv(p)'
  <1>1. ObjectsTypeOK /\ lp \in [Procs -> LocalProcess] /\ DOMAIN lp[p] = Fields
    BY TypeParts, FieldsOf DEF ConnTypeOK
  <1>2. content' = content /\ \E l : lp' = [lp EXCEPT ![p].pipe = Append(@, l)]
    BY DEF CliPrint
  <1>3. /\ lp'[p].out = lp[p].out /\ lp'[p].pty = lp[p].pty
        /\ lp'[p].queue = lp[p].queue /\ lp'[p].os = lp[p].os
    BY <1>1, <1>2 DEF Fields
  <1>4. /\ Numbered(p)' /\ Taken(p)' = Taken(p)
        /\ Taken(p) \in Nat /\ 1..Taken(p) \subseteq DOMAIN printed[p]
        /\ \A i \in DOMAIN printed[p] :
             i \in DOMAIN printed'[p] /\ printed'[p][i] = printed[p][i]
    BY <1>1, PrintNumbered DEF LinesInv
  <1>5. ExitWhenDone(p)' /\ ExitIsLast(p)'
    BY <1>2, <1>3 DEF LinesInv, ExitWhenDone, ExitIsLast
  <1>6. Forwarded(p)'
    BY <1>2, <1>3, <1>4 DEF LinesInv, Forwarded, IsLineFrom
  <1>7. Drained(p)'
    <2>1. lp[p].os = "running"
      BY DEF CliPrint, Alive
    <2> QED
      BY <1>3, <1>4, <2>1 DEF LinesInv, Drained
  <1> QED
    BY <1>4, <1>5, <1>6, <1>7 DEF LinesInv

\* What the stdout reader reads from its CLI and puts.
LEMMA HeadFrom ==
    ASSUME ObjectsTypeOK, NEW p \in Procs, Numbered(p), lp[p].pipe # <<>>
    PROVE  /\ Head(lp[p].pipe) \in Line
           /\ Head(lp[p].pipe) = printed[p][Taken(p) + 1]
           /\ Taken(p) \in Nat /\ Taken(p) + 1 \in DOMAIN printed[p]
           /\ Head(lp[p].pipe).proc = p /\ Head(lp[p].pipe).id = Taken(p) + 1
  <1>1. printed[p] \in Seq(Line) /\ lp[p].pipe \in Seq(Line)
    BY DEF ObjectsTypeOK, LocalProcess
  <1>2. 1 \in DOMAIN lp[p].pipe /\ Head(lp[p].pipe) = lp[p].pipe[1]
    BY <1>1
  <1>3. Taken(p) \in Nat /\ Taken(p) + 1 \in DOMAIN printed[p]
    <2>1. Len(lp[p].pipe) <= Len(printed[p])
      BY DEF Numbered
    <2>2. /\ DOMAIN lp[p].pipe = 1..Len(lp[p].pipe) /\ Len(lp[p].pipe) \in Nat
          /\ DOMAIN printed[p] = 1..Len(printed[p]) /\ Len(printed[p]) \in Nat
      BY <1>1
    <2>3. 1 <= Len(lp[p].pipe)
      BY <1>2, <2>2
    <2>4. Taken(p) \in Nat /\ Taken(p) + 1 <= Len(printed[p])
      BY <2>1, <2>2, <2>3 DEF Taken
    <2> QED
      BY <2>2, <2>4
  <1> QED
    BY <1>1, <1>2, <1>3 DEF Numbered

LEMMA ReadNumbered ==
    ASSUME ObjectsTypeOK, NEW p \in Procs, Numbered(p), ReadLine(p)
    PROVE  Numbered(p)' /\ Taken(p)' = Taken(p) + 1
  <1>0. /\ printed[p] \in Seq(Line) /\ lp[p].pipe \in Seq(Line)
        /\ lp[p] \in LocalProcess /\ lp \in [Procs -> LocalProcess]
        /\ DOMAIN lp[p] = Fields
    BY FieldsOf DEF ObjectsTypeOK, LocalProcess
  <1>1. /\ lp[p].pipe # <<>> /\ printed' = printed
        /\ lp' = [lp EXCEPT ![p].pipe = Tail(@)]
    BY DEF ReadLine
  <1>2. Taken(p) \in Nat
    BY <1>1, HeadFrom
  <1>3. lp'[p].pipe = Tail(lp[p].pipe)
    BY <1>0, <1>1 DEF Fields
  <1>4. /\ Len(lp'[p].pipe) = Len(lp[p].pipe) - 1
        /\ Len(lp[p].pipe) \in Nat /\ Len(printed[p]) \in Nat
    BY <1>0, <1>1, <1>3
  <1>5. Taken(p)' = Taken(p) + 1
    <2>1. Len(printed'[p]) = Len(printed[p])
      BY <1>1
    <2> QED
      BY <1>4, <2>1 DEF Taken
  <1>6. \A i \in DOMAIN lp'[p].pipe :
           i + 1 \in DOMAIN lp[p].pipe /\ lp'[p].pipe[i] = lp[p].pipe[i + 1]
    <2>1. \A i \in DOMAIN Tail(lp[p].pipe) :
             /\ i + 1 \in DOMAIN lp[p].pipe
             /\ Tail(lp[p].pipe)[i] = lp[p].pipe[i + 1]
      BY <1>0, <1>1, TailPoints
    <2> QED
      BY <1>3, <2>1
  <1>7. Numbered(p)'
    <2>1. Len(lp'[p].pipe) <= Len(printed'[p])
      <3>1. Len(lp[p].pipe) <= Len(printed[p])
        BY DEF Numbered
      <3> QED
        BY <1>1, <1>4, <3>1
    <2>2. ASSUME NEW i \in DOMAIN lp'[p].pipe
          PROVE  lp'[p].pipe[i] = printed'[p][Taken(p)' + i]
      <3>1. lp[p].pipe[i + 1] = printed[p][Taken(p) + (i + 1)]
        BY <1>6 DEF Numbered
      <3>2. i \in Nat
        <4>1. lp'[p].pipe \in Seq(Line)
          BY <1>0, <1>1, <1>3
        <4> QED
          BY <4>1
      <3>3. Taken(p) + (i + 1) = Taken(p)' + i
        BY <1>2, <1>5, <3>2
      <3> QED
        BY <1>1, <1>6, <3>1, <3>3
    <2> QED
      BY <1>1, <2>1, <2>2 DEF Numbered
  <1> QED
    BY <1>5, <1>7

\* The reader takes a line.
LEMMA ReadKeeps ==
    ASSUME ConnTypeOK, ConnShape, ConnTypeOK', NEW p \in Procs, LinesInv(p),
           ReadLine(p)
    PROVE  LinesInv(p)'
  <1> DEFINE l == Head(lp[p].pipe)
             q == lp[p].queue
  <1>0. /\ printed[p] \in Seq(Line) /\ lp[p].pipe \in Seq(Line)
        /\ lp[p] \in LocalProcess /\ lp \in [Procs -> LocalProcess]
        /\ content \in [Queues -> Seq(Event)] /\ DOMAIN lp[p] = Fields
    BY FieldsOf DEF ConnTypeOK, LocalProcess
  <1>1. /\ lp[p].out = "reading" /\ lp[p].pipe # <<>>
        /\ lp' = [lp EXCEPT ![p].pipe = Tail(@)] /\ printed' = printed
        /\ content' = IF l.kind = "junk" THEN content ELSE Put(q, <<Stdout(l)>>)
    BY DEF ReadLine
  <1>2. /\ l \in Line /\ l = printed[p][Taken(p) + 1] /\ Taken(p) \in Nat
        /\ Taken(p) + 1 \in DOMAIN printed[p] /\ l.proc = p /\ l.id = Taken(p) + 1
    BY <1>1, HeadFrom, TypeParts DEF LinesInv
  <1>q. q \in Queues
    <2>1. q \in Queues \union {None} /\ q # None
      BY <1>0, <1>1 DEF LocalProcess, ConnShape, ProcessShape
    <2> QED
      BY <2>1
  <1>3. /\ lp'[p].pipe = Tail(lp[p].pipe) /\ lp'[p].out = "reading"
        /\ lp'[p].pty = lp[p].pty /\ lp'[p].queue = q
    BY <1>0, <1>1 DEF Fields
  <1>4. /\ Len(lp'[p].pipe) = Len(lp[p].pipe) - 1
        /\ Len(lp[p].pipe) \in Nat /\ Len(printed[p]) \in Nat
    BY <1>0, <1>1, <1>3
  <1>5. Numbered(p)' /\ Taken(p)' = Taken(p) + 1
    BY ReadNumbered, TypeParts DEF LinesInv
  <1> HIDE DEF l, q
  <1>8. \A r \in Queues :
           /\ Kept(r)
           /\ \A j \in New(r) : /\ l.kind # "junk" /\ r = q
                                /\ j = Len(content[q]) + 1
                                /\ content'[r][j] = Stdout(l)
    <2>1. CASE l.kind = "junk"
      <3>1. content' = content
        BY <1>1, <2>1
      <3>2. \A r \in Queues : Len(content[r]) \in Nat
        BY <1>0
      <3> QED
        BY <3>1, <3>2 DEF Kept, New
    <2>2. CASE l.kind # "junk"
      <3>1. content' = Put(q, <<Stdout(l)>>)
        BY <1>1, <2>2
      <3>2. <<Stdout(l)>> \in Seq(Event)
        BY <1>2, EventsBuilt
      <3> DEFINE es == <<Stdout(l)>>
      <3>3. Len(es) = 1 /\ es[1] = Stdout(l)
        OBVIOUS
      <3> HIDE DEF es
      <3>4. /\ \A r \in Queues : Kept(r)
            /\ \A r \in Queues \ {q} : content'[r] = content[r] /\ New(r) = {}
            /\ \A j \in New(q) : /\ j - Len(content[q]) \in 1..Len(es)
                                /\ content'[q][j] = es[j - Len(content[q])]
        BY <1>0, <1>q, <3>1, <3>2, PutPoints DEF es
      <3>5. \A j \in New(q) : j = Len(content[q]) + 1 /\ content'[q][j] = Stdout(l)
        <4>1. Len(content[q]) \in Nat /\ Len(content'[q]) \in Nat
          BY <1>0, <1>q DEF ConnTypeOK
        <4> QED
          BY <3>3, <3>4, <4>1 DEF New
      <3> QED
        BY <2>2, <3>4, <3>5
    <2> QED
      BY <2>1, <2>2
  <1>9. \A r \in Queues : \A j \in DOMAIN content'[r] :
           \/ j \in DOMAIN content[r] /\ content'[r][j] = content[r][j]
           \/ j \in New(r) /\ j = Len(content[r]) + 1
    <2> TAKE r \in Queues
    <2>1. /\ DOMAIN content[r] = 1..Len(content[r]) /\ Len(content[r]) \in Nat
          /\ DOMAIN content'[r] = 1..Len(content'[r]) /\ Len(content'[r]) \in Nat
      BY <1>0 DEF ConnTypeOK
    <2> QED
      BY <1>8, <2>1 DEF Kept, New
  <1>10. \A e \in {Stdout(l)} : ~IsExitFrom(e, p)
    BY DEF Stdout, IsExitFrom
  <1>11. \A r \in Queues : \A j \in DOMAIN content'[r] : ~IsExitFrom(content'[r][j], p)
    <2>1. \A r \in Queues : \A j \in DOMAIN content[r] : ~IsExitFrom(content[r][j], p)
      BY <1>1 DEF LinesInv, ExitWhenDone
    <2> QED
      BY <1>8, <1>9, <1>10, <2>1
  <1>12. ExitWhenDone(p)' /\ ExitIsLast(p)'
    BY <1>11 DEF ExitWhenDone, ExitIsLast
  <1>13. Forwarded(p)'
    <2> SUFFICES ASSUME lp'[p].pty # "closed" PROVE Forwarded(p)'
      BY DEF Forwarded
    <2>1. Forwarded(p) /\ lp[p].pty # "closed"
      BY <1>3 DEF LinesInv
    <2>3. ASSUME NEW i \in 1..Taken(p)', printed'[p][i].kind # "junk"
          PROVE  \E j \in DOMAIN content'[lp'[p].queue] :
                    content'[lp'[p].queue][j] = Stdout(printed'[p][i])
      <3>1. CASE i \in 1..Taken(p)
        <4>1. PICK j \in DOMAIN content[q] : content[q][j] = Stdout(printed[p][i])
          BY <1>1, <2>1, <2>3, <3>1 DEF Forwarded, q
        <4>2. j \in DOMAIN content'[q] /\ content'[q][j] = content[q][j]
          <5>1. Kept(q) /\ content[q] \in Seq(Event) /\ content'[q] \in Seq(Event)
            BY <1>0, <1>8, <1>q DEF ConnTypeOK
          <5> QED
            BY <4>1, <5>1 DEF Kept
        <4> QED
          BY <1>1, <1>3, <4>1, <4>2
      <3>2. CASE i = Taken(p) + 1
        <4>1. printed'[p][i] = l /\ l.kind # "junk"
          BY <1>1, <1>2, <2>3, <3>2
        <4>2. content'[q] = content[q] \o <<Stdout(l)>>
          BY <1>0, <1>1, <1>q, <4>1 DEF Put
        <4>3. content[q] \in Seq(Event)
          BY <1>0, <1>q
        <4>4. /\ Len(content[q]) + 1 \in DOMAIN content'[q]
              /\ content'[q][Len(content[q]) + 1] = Stdout(l)
          BY <4>2, <4>3
        <4> QED
          BY <1>3, <4>1, <4>4
      <3> QED
        BY <1>2, <1>5, <3>1, <3>2
    <2>4. ASSUME NEW r \in Queues, NEW j \in DOMAIN content'[r],
                 IsLineFrom(content'[r][j], p)
          PROVE  /\ r = lp'[p].queue
                 /\ content'[r][j].line.id \in 1..Taken(p)'
                 /\ content'[r][j].line = printed'[p][content'[r][j].line.id]
                 /\ content'[r][j].line.kind # "junk"
                 /\ \A i \in 1..j - 1 : IsLineFrom(content'[r][i], p) =>
                      content'[r][i].line.id < content'[r][j].line.id
      <3>0. content[r] \in Seq(Event) /\ Kept(r)
        BY <1>0, <1>8
      <3>a. \A i \in DOMAIN content[r] : IsLineFrom(content[r][i], p) =>
               /\ r = q /\ content[r][i].line.id \in 1..Taken(p)
               /\ content[r][i].line = printed[p][content[r][i].line.id]
               /\ content[r][i].line.kind # "junk"
               /\ \A h \in 1..i - 1 : IsLineFrom(content[r][h], p) =>
                      content[r][h].line.id < content[r][i].line.id
        BY <2>1 DEF Forwarded, q
      <3>1. CASE j \in DOMAIN content[r] /\ content'[r][j] = content[r][j]
        <4>1. \A i \in 1..j - 1 : content'[r][i] = content[r][i]
          BY <3>0, <3>1 DEF Kept
        <4>2. 1..Taken(p) \subseteq 1..Taken(p) + 1
          BY <1>2
        <4> QED
          BY <1>1, <1>3, <1>5, <2>4, <3>1, <3>a, <4>1, <4>2
      <3>2. CASE j \in New(r) /\ j = Len(content[r]) + 1
        <4>1. r = q /\ l.kind # "junk" /\ content'[r][j] = Stdout(l)
          BY <1>8, <3>2
        <4>2. content'[r][j].line = l
          BY <4>1 DEF Stdout
        <4>3. \A i \in 1..j - 1 : /\ i \in DOMAIN content[r]
                                 /\ content'[r][i] = content[r][i]
          BY <3>0, <3>2 DEF Kept
        <4>4. \A i \in 1..j - 1 : IsLineFrom(content'[r][i], p) =>
                 content'[r][i].line.id < Taken(p) + 1
          BY <1>2, <3>a, <4>3
        <4>5. l.id \in 1..Taken(p)'
          BY <1>2, <1>5
        <4> QED
          BY <1>1, <1>2, <1>3, <4>1, <4>2, <4>4, <4>5
      <3> QED
        BY <1>9, <3>1, <3>2
    <2> QED
      BY <1>3, <2>3, <2>4 DEF Forwarded, Taken, IsLineFrom
  <1>14. Drained(p)'
    BY <1>3 DEF Drained
  <1> QED
    BY <1>5, <1>12, <1>13, <1>14 DEF LinesInv


\* The reader ends.
LEMMA EndKeeps ==
    ASSUME ConnTypeOK, ConnShape, ConnTypeOK', NEW p \in Procs, LinesInv(p),
           ReadEof(p) \/ ReadBreaks(p) \/ ReadClosed(p) \/ ReadCancelled(p)
    PROVE  LinesInv(p)'
  <1> DEFINE q == lp[p].queue
  <1>0. /\ printed[p] \in Seq(Line) /\ lp[p].pipe \in Seq(Line)
        /\ lp[p] \in LocalProcess /\ lp \in [Procs -> LocalProcess]
        /\ content \in [Queues -> Seq(Event)] /\ DOMAIN lp[p] = Fields
        /\ content' \in [Queues -> Seq(Event)]
    BY FieldsOf DEF ConnTypeOK, LocalProcess
  <1>1. PICK last \in Seq(Event) :
           /\ EndStdout(p, last)
           /\ \/ last = <<>>
              \/ lp[p].pty = "closed" /\ lp[p].pipe # <<>>
                   /\ last = <<Stdout(Head(lp[p].pipe))>>
    <2>1. <<>> \in Seq(Event)
      OBVIOUS
    <2>2. lp[p].pipe # <<>> => <<Stdout(Head(lp[p].pipe))>> \in Seq(Event)
      BY HeadFrom, EventsBuilt, TypeParts DEF LinesInv
    <2> QED
      BY <2>1, <2>2 DEF ReadEof, ReadBreaks, ReadClosed, ReadCancelled
  <1>2. /\ lp[p].out \in {"reading", "cancelled"}
        /\ lp[p].pty # "closed" =>
             \/ lp[p].pipe = <<>> /\ lp[p].os \in {"exited", "reaped"}
             \/ lp[p].pipe # <<>> /\ Head(lp[p].pipe).kind = "breaking"
    BY DEF ReadEof, ReadBreaks, ReadClosed, ReadCancelled, ConnShape, ProcessShape
  <1>q. q \in Queues
    <2>1. q \in Queues \union {None} /\ q # None
      BY <1>0, <1>2 DEF LocalProcess, ConnShape, ProcessShape
    <2> QED
      BY <2>1
  <1>3. /\ lp' = [lp EXCEPT ![p].out = "done"] /\ printed' = printed
        /\ content' = Put(q, last \o <<ExitFrom(p)>>)
    BY <1>1 DEF EndStdout
  <1>4. /\ lp'[p].pipe = lp[p].pipe /\ lp'[p].out = "done"
        /\ lp'[p].pty = lp[p].pty /\ lp'[p].queue = q /\ lp'[p].os = lp[p].os
    BY <1>0, <1>3 DEF Fields
  <1> HIDE DEF q
  <1>5. Taken(p)' = Taken(p) /\ Numbered(p)'
    <2>1. Taken(p)' = Taken(p)
      BY <1>3, <1>4 DEF Taken
    <2> QED
      BY <1>3, <1>4, <2>1 DEF LinesInv, Numbered
  <1> DEFINE es == last \o <<ExitFrom(p)>>
  <1>6. /\ es \in Seq(Event) /\ Len(es) = Len(last) + 1 /\ Len(last) \in Nat
        /\ es[Len(es)] = ExitFrom(p)
        /\ \A i \in 1..Len(last) : es[i] = last[i]
    <2>1. ExitFrom(p) \in Event
      BY EventsBuilt
    <2> QED
      BY <2>1
  <1>7. \A i \in 1..Len(last) : ~IsExitFrom(last[i], p) /\ lp[p].pty = "closed"
    <2>1. CASE last = <<>>
      BY <2>1
    <2>2. CASE last = <<Stdout(Head(lp[p].pipe))>> /\ lp[p].pty = "closed"
      BY <2>2 DEF IsExitFrom, Stdout
    <2> QED
      BY <1>1, <2>1, <2>2
  <1>8. ~IsLineFrom(ExitFrom(p), p)
    BY DEF IsLineFrom, ExitFrom
  <1> HIDE DEF es
  <1>9. /\ \A r \in Queues : Kept(r)
        /\ \A r \in Queues \ {q} : content'[r] = content[r] /\ New(r) = {}
        /\ Len(content'[q]) = Len(content[q]) + Len(es)
        /\ \A j \in New(q) : /\ j - Len(content[q]) \in 1..Len(es)
                            /\ content'[q][j] = es[j - Len(content[q])]
    BY <1>0, <1>3, <1>6, <1>q, PutPoints DEF es
  <1>10. \A r \in Queues : \A j \in DOMAIN content'[r] :
            \/ j \in DOMAIN content[r] /\ content'[r][j] = content[r][j]
            \/ r = q /\ j \in New(q)
    <2> TAKE r \in Queues
    <2>1. /\ DOMAIN content[r] = 1..Len(content[r]) /\ Len(content[r]) \in Nat
          /\ DOMAIN content'[r] = 1..Len(content'[r]) /\ Len(content'[r]) \in Nat
      BY <1>0
    <2> QED
      BY <1>9, <2>1 DEF Kept, New
  <1>11. \A j \in New(q) :
            \/ j < Len(content'[q]) /\ ~IsExitFrom(content'[q][j], p)
                 /\ lp[p].pty = "closed"
            \/ j = Len(content'[q]) /\ content'[q][j] = ExitFrom(p)
    <2> TAKE j \in New(q)
    <2>1. /\ Len(content[q]) \in Nat /\ Len(content'[q]) \in Nat /\ j \in Nat
          /\ Len(last) \in Nat /\ Len(es) = Len(last) + 1
          /\ Len(content'[q]) = Len(content[q]) + Len(es)
          /\ j - Len(content[q]) \in 1..Len(es)
      BY <1>0, <1>q, <1>6, <1>9 DEF New
    <2> DEFINE n == Len(content[q])
               m == Len(content'[q])
    <2> HIDE DEF n, m
    <2>a. /\ n \in Nat /\ m \in Nat /\ m = n + Len(es) /\ j - n \in 1..Len(es)
          /\ Len(last) \in Nat /\ Len(es) = Len(last) + 1 /\ j \in Nat
      BY <2>1 DEF n, m
    <2>2. CASE j - Len(content[q]) \in 1..Len(last)
      <3>1. content'[q][j] = last[j - Len(content[q])]
        BY <1>6, <1>9, <2>2
      <3>2. j < Len(content'[q])
        <4>1. j - n \in 1..Len(last)
          BY <2>2 DEF n
        <4>2. j < m
          BY <2>a, <4>1
        <4> QED
          BY <4>2 DEF m
      <3> QED
        BY <1>7, <2>2, <3>1, <3>2
    <2>3. CASE j - Len(content[q]) = Len(es)
      <3>1. content'[q][j] = ExitFrom(p)
        BY <1>6, <1>9, <2>3
      <3>2. j = Len(content'[q])
        <4>1. j - n = Len(es)
          BY <2>3 DEF n
        <4>2. j = m
          BY <2>a, <4>1
        <4> QED
          BY <4>2 DEF m
      <3> QED
        BY <3>1, <3>2
    <2>4. j - n \in 1..Len(last) \/ j - n = Len(es)
      BY <2>a
    <2> QED
      BY <2>2, <2>3, <2>4 DEF n
  <1>12. \A r \in Queues : \A j \in DOMAIN content[r] : ~IsExitFrom(content[r][j], p)
    BY <1>2 DEF LinesInv, ExitWhenDone
  <1>13. ExitWhenDone(p)'
    BY <1>4 DEF ExitWhenDone
  <1>14. ExitIsLast(p)'
    <2> SUFFICES ASSUME NEW r \in Queues, NEW i \in DOMAIN content'[r],
                        IsExitFrom(content'[r][i], p),
                        NEW j \in i + 1..Len(content'[r])
                 PROVE  FALSE
      BY DEF ExitIsLast
    <2>1. r = q /\ i \in New(q)
      BY <1>10, <1>12
    <2>2. i = Len(content'[r])
      BY <1>11, <2>1
    <2>3. Len(content'[r]) \in Nat
      BY <1>0
    <2> QED
      BY <2>2, <2>3
  <1>15. Forwarded(p)'
    <2> SUFFICES ASSUME lp'[p].pty # "closed" PROVE Forwarded(p)'
      BY DEF Forwarded
    <2>1. Forwarded(p) /\ lp[p].pty # "closed"
      BY <1>4 DEF LinesInv
    <2>3. ASSUME NEW i \in 1..Taken(p)', printed'[p][i].kind # "junk"
          PROVE  \E j \in DOMAIN content'[lp'[p].queue] :
                    content'[lp'[p].queue][j] = Stdout(printed'[p][i])
      <3>1. PICK j \in DOMAIN content[q] : content[q][j] = Stdout(printed[p][i])
        BY <1>3, <1>5, <2>1, <2>3 DEF Forwarded, q
      <3>2. j \in DOMAIN content'[q] /\ content'[q][j] = content[q][j]
        <4>1. Kept(q) /\ content[q] \in Seq(Event) /\ content'[q] \in Seq(Event)
          BY <1>0, <1>9, <1>q
        <4> QED
          BY <3>1, <4>1 DEF Kept
      <3> QED
        BY <1>3, <1>4, <3>1, <3>2
    <2>4. ASSUME NEW r \in Queues, NEW j \in DOMAIN content'[r],
                 IsLineFrom(content'[r][j], p)
          PROVE  /\ r = lp'[p].queue
                 /\ content'[r][j].line.id \in 1..Taken(p)'
                 /\ content'[r][j].line = printed'[p][content'[r][j].line.id]
                 /\ content'[r][j].line.kind # "junk"
                 /\ \A i \in 1..j - 1 : IsLineFrom(content'[r][i], p) =>
                      content'[r][i].line.id < content'[r][j].line.id
      <3>1. j \in DOMAIN content[r] /\ content'[r][j] = content[r][j]
        <4>1. \A i \in New(q) : content'[q][i] = ExitFrom(p)
          BY <1>11, <2>1
        <4> QED
          BY <1>8, <1>10, <2>4, <4>1
      <3>2. Kept(r) /\ content[r] \in Seq(Event)
        BY <1>0, <1>9
      <3>3. \A i \in 1..j - 1 : content'[r][i] = content[r][i]
        BY <3>1, <3>2 DEF Kept
      <3> QED
        BY <1>3, <1>4, <1>5, <2>1, <2>4, <3>1, <3>3 DEF Forwarded, q
    <2> QED
      BY <1>4, <2>3, <2>4 DEF Forwarded, Taken, IsLineFrom
  <1>16. Drained(p)'
    <2>1. lp[p].pipe # <<>> /\ Head(lp[p].pipe).kind = "breaking" =>
             \E i \in DOMAIN printed[p] : printed[p][i].kind = "breaking"
      BY HeadFrom, TypeParts DEF LinesInv
    <2> QED
      BY <1>2, <1>3, <1>4, <2>1 DEF Drained
  <1> QED
    BY <1>5, <1>13, <1>14, <1>15, <1>16 DEF LinesInv


\* Events of others, put into any queue, are no exit and no line of p.
LEMMA PutForeign ==
    ASSUME content \in [Queues -> Seq(Event)], NEW q \in Queues,
           NEW es \in Seq(Event), content' = Put(q, es), NEW p \in Procs,
           \A i \in DOMAIN es : ~IsExitFrom(es[i], p) /\ ~IsLineFrom(es[i], p)
    PROVE  \A r \in Queues :
             /\ Kept(r)
             /\ \A j \in New(r) : /\ ~IsExitFrom(content'[r][j], p)
                                 /\ ~IsLineFrom(content'[r][j], p)
  <1>1. /\ \A r \in Queues : Kept(r)
        /\ \A r \in Queues \ {q} : New(r) = {}
        /\ \A j \in New(q) : /\ j - Len(content[q]) \in 1..Len(es)
                            /\ content'[q][j] = es[j - Len(content[q])]
    BY PutPoints
  <1>2. DOMAIN es = 1..Len(es)
    OBVIOUS
  <1> QED
    BY <1>1, <1>2

LEMMA UnputForeign ==
    ASSUME content \in [Queues -> Seq(Event)], content' = content
    PROVE  \A r \in Queues : Kept(r) /\ New(r) = {}
  <1>1. \A r \in Queues : Len(content[r]) \in Nat
    OBVIOUS
  <1> QED
    BY <1>1 DEF Kept, New

\* What the calls leave of a process.
LEMMA CallsForeign ==
    ASSUME ConnTypeOK, ConnShape, NEW p \in Procs, NEW k \in Tasks,
           \/ \E n \in Names : ClientSpawn(k, n) \/ ClientKill(k, n)
           \/ CallSteps(k)
    PROVE  Foreign(p)
  <1>0. /\ lp \in [Procs -> LocalProcess] /\ lp[p] \in LocalProcess
        /\ DOMAIN lp[p] = Fields /\ content \in [Queues -> Seq(Event)]
    BY FieldsOf DEF ConnTypeOK
  <1>1. content' = content /\ printed' = printed
    BY DEF ClientSpawn, ClientKill, CallSteps, SpawnExec, SpawnDone, SpawnFails,
           KillWaited, KillTimesOut, LeaveWait
  <1>2. \A r \in Queues : Kept(r) /\ New(r) = {}
    BY <1>0, <1>1, UnputForeign
  <1> DEFINE Leaves ==
        /\ lp'[p].pipe = lp[p].pipe
        /\ lp'[p].queue # lp[p].queue => lp[p].queue = None
        /\ lp[p].out = "done" <=> lp'[p].out = "done"
        /\ lp'[p].out = "none" => lp[p].out = "none"
        /\ lp[p].pty = "closed" => lp'[p].pty = "closed"
        /\ lp[p].os \in {"exited", "reaped"} => lp'[p].os \in {"exited", "reaped"}
  <1>3. ASSUME NEW n \in Names, ClientSpawn(k, n) PROVE Foreign(p)
    <2>1. PICK r \in Procs : lp[r].queue = None
                             /\ lp' = [lp EXCEPT ![r].queue = queues[n]]
      BY <1>3 DEF ClientSpawn, SpawnBegin, Fresh
    <2>2. Leaves
      BY <1>0, <2>1 DEF Fields
    <2> QED
      BY <1>1, <1>2, <2>2 DEF Foreign
  <1>4. \A out : /\ Cancelled(out) = "done" <=> out = "done"
                 /\ Cancelled(out) = "none" <=> out = "none"
    BY DEF Cancelled
  <1>5. ASSUME NEW n \in Names, ClientKill(k, n) PROVE Foreign(p)
    <2> DEFINE r == processes[n]
    <2>1. CASE r # p
      <3>1. lp'[p] = lp[p]
        BY <1>0, <1>5, <2>1 DEF ClientKill, KillBegin
      <3> QED
        BY <1>1, <1>2, <3>1 DEF Foreign
    <2>2. CASE r = p
      <3>1. /\ lp'[p].pipe = lp[p].pipe /\ lp'[p].queue = lp[p].queue
            /\ lp'[p].pty = "closed" /\ lp'[p].os = lp[p].os
            /\ lp'[p].out \in {lp[p].out, Cancelled(lp[p].out)}
        BY <1>0, <1>5, <2>2 DEF ClientKill, KillBegin, Fields
      <3>2. Leaves
        BY <1>4, <3>1
      <3> QED
        BY <1>1, <1>2, <3>2 DEF Foreign
    <2> QED
      BY <2>1, <2>2
  <1>6. CASE CallSteps(k)
    <2> DEFINE r == call[k].proc
    <2>1. CASE r # p
      <3>1. lp'[p] = lp[p]
        BY <1>0, <1>6, <2>1
           DEF CallSteps, SpawnExec, SpawnDone, SpawnFails, KillWaited,
               KillTimesOut, LeaveWait
      <3> QED
        BY <1>1, <1>2, <3>1 DEF Foreign
    <2>2. CASE r = p /\ SpawnExec(k)
      <3>1. lp[p].os = "none"
        BY <2>2 DEF SpawnExec, ConnShape, CallShape
      <3>2. Leaves
        BY <1>0, <2>2, <3>1 DEF SpawnExec, Fields
      <3> QED
        BY <1>1, <1>2, <3>2 DEF Foreign
    <2>3. CASE r = p /\ SpawnDone(k)
      <3>1. lp[p].out = "none" /\ lp[p].pty = "none"
        BY <2>3 DEF SpawnDone, ConnShape, CallShape, ProcessShape
      <3>2. Leaves
        BY <1>0, <2>3, <3>1 DEF SpawnDone, Fields
      <3> QED
        BY <1>1, <1>2, <3>2 DEF Foreign
    <2>4. CASE r = p /\ SpawnFails(k)
      BY <1>1, <1>2, <2>4 DEF Foreign, SpawnFails
    <2>5. CASE r = p /\ (KillWaited(k) \/ KillTimesOut(k))
      <3>1. PICK signal : LeaveWait(k, signal)
        BY <2>5 DEF KillWaited, KillTimesOut
      <3>2. /\ lp'[p].pipe = lp[p].pipe /\ lp'[p].queue = lp[p].queue
            /\ lp'[p].pty = lp[p].pty /\ lp'[p].os = lp[p].os
            /\ lp'[p].out = Cancelled(lp[p].out)
        BY <1>0, <2>5, <3>1 DEF LeaveWait, Fields
      <3>3. Leaves
        BY <1>4, <3>2
      <3> QED
        BY <1>1, <1>2, <3>3 DEF Foreign
    <2> QED
      BY <1>6, <2>1, <2>2, <2>3, <2>4, <2>5 DEF CallSteps
  <1> QED
    BY <1>3, <1>5, <1>6

\* A step that changes no queue and no line, and of p nothing but fields of
\* no interest to its lines.
LEMMA QuietForeign ==
    ASSUME ConnTypeOK, NEW p \in Procs, content' = content, printed'[p] = printed[p],
           lp'[p].pipe = lp[p].pipe, lp'[p].queue = lp[p].queue,
           lp[p].out = "done" <=> lp'[p].out = "done",
           lp'[p].out = "none" => lp[p].out = "none",
           lp'[p].pty = lp[p].pty,
           lp[p].os \in {"exited", "reaped"} => lp'[p].os \in {"exited", "reaped"}
    PROVE  Foreign(p)
  <1>1. \A r \in Queues : Kept(r) /\ New(r) = {}
    BY UnputForeign DEF ConnTypeOK
  <1> QED
    BY <1>1 DEF Foreign

\* The other steps of p, and those of other processes.
LEMMA OwnForeign ==
    ASSUME ConnTypeOK, ConnShape, NEW p \in Procs,
           \/ CliLog(p) \/ CliExit(p) \/ ChildReaped(p) \/ StdoutStarts(p)
           \/ StderrReader(p)
    PROVE  Foreign(p)
  <1>0. /\ lp \in [Procs -> LocalProcess] /\ lp[p] \in LocalProcess
        /\ DOMAIN lp[p] = Fields /\ content \in [Queues -> Seq(Event)]
        /\ lp[p].errs \in Seq(ErrLine)
    BY FieldsOf DEF ConnTypeOK, LocalProcess
  <1>1. CASE CliLog(p)
    BY <1>0, <1>1, QuietForeign DEF CliLog, Fields
  <1>2. CASE CliExit(p)
    BY <1>0, <1>2, QuietForeign DEF CliExit, Fields
  <1>3. CASE ChildReaped(p)
    BY <1>0, <1>3, QuietForeign DEF ChildReaped, Fields
  <1>4. CASE StdoutStarts(p)
    BY <1>0, <1>4, QuietForeign DEF StdoutStarts, Fields
  <1>5. CASE StderrReader(p)
    <2>1. /\ printed' = printed /\ lp'[p].pipe = lp[p].pipe
          /\ lp'[p].queue = lp[p].queue /\ lp'[p].out = lp[p].out
          /\ lp'[p].pty = lp[p].pty /\ lp'[p].os = lp[p].os
      BY <1>0, <1>5 DEF StderrReader, ReadStderr, EndStderr, Fields
    <2>2. CASE content' = content
      BY <2>1, <2>2, QuietForeign
    <2>3. CASE lp[p].errs # <<>>
               /\ content' = Put(lp[p].queue, <<Stderr(Head(lp[p].errs))>>)
      <3> DEFINE es == <<Stderr(Head(lp[p].errs))>>
      <3>1. lp[p].queue \in Queues
        <4>1. lp[p].err = "reading"
          BY <1>5 DEF StderrReader, ReadStderr, EndStderr
        <4>2. lp[p].queue # None /\ lp[p].queue \in Queues \union {None}
          BY <1>0, <4>1 DEF ConnShape, ProcessShape, LocalProcess
        <4> QED
          BY <4>2
      <3>2. es \in Seq(Event)
        <4>1. Head(lp[p].errs) \in ErrLine
          BY <1>0, <2>3
        <4> QED
          BY <4>1, EventsBuilt
      <3>3. \A i \in DOMAIN es : ~IsExitFrom(es[i], p) /\ ~IsLineFrom(es[i], p)
        BY DEF Stderr, IsExitFrom, IsLineFrom
      <3> HIDE DEF es
      <3>4. \A r \in Queues :
             /\ Kept(r)
             /\ \A j \in New(r) : /\ ~IsExitFrom(content'[r][j], p)
                                 /\ ~IsLineFrom(content'[r][j], p)
        BY <1>0, <2>3, <3>1, <3>2, <3>3, PutForeign DEF es
      <3> QED
        BY <2>1, <3>4 DEF Foreign
    <2>4. \/ content' = content
          \/ lp[p].errs # <<>>
             /\ content' = Put(lp[p].queue, <<Stderr(Head(lp[p].errs))>>)
      BY <1>5 DEF StderrReader, ReadStderr, EndStderr
    <2> QED
      BY <2>2, <2>3, <2>4
  <1> QED
    BY <1>1, <1>2, <1>3, <1>4, <1>5

LEMMA OthersForeign ==
    ASSUME ConnTypeOK, ConnShape, NEW p \in Procs, NEW r \in Procs \ {p},
           LinesInv(r),
           Cli(r) \/ ChildReaped(r) \/ StdoutReader(r) \/ StderrReader(r)
    PROVE  Foreign(p)
  <1>0. /\ lp \in [Procs -> LocalProcess] /\ lp[r] \in LocalProcess
        /\ content \in [Queues -> Seq(Event)]
        /\ lp[r].errs \in Seq(ErrLine) /\ lp[r].pipe \in Seq(Line)
        /\ printed \in [Procs -> Seq(Line)]
    BY DEF ConnTypeOK, LocalProcess
  <1>1. lp'[p] = lp[p] /\ printed'[p] = printed[p]
    <2>1. CASE Cli(r) \/ ChildReaped(r)
      BY <1>0, <2>1 DEF Cli, CliPrint, CliLog, CliExit, ChildReaped
    <2>2. CASE StdoutReader(r)
      BY <1>0, <2>2 DEF StdoutReader, StdoutStarts, ReadLine, ReadEof,
                        ReadBreaks, ReadClosed, ReadCancelled, EndStdout
    <2>3. CASE StderrReader(r)
      BY <1>0, <2>3 DEF StderrReader, ReadStderr, EndStderr
    <2> QED
      BY <2>1, <2>2, <2>3
  <1>2. CASE content' = content
    BY <1>1, <1>2, QuietForeign
  <1>3. ASSUME NEW es \in Seq(Event), content' = Put(lp[r].queue, es),
               lp[r].queue \in Queues,
               \A i \in DOMAIN es : ~IsExitFrom(es[i], p) /\ ~IsLineFrom(es[i], p)
        PROVE  Foreign(p)
    <2>1. \A q \in Queues :
             /\ Kept(q)
             /\ \A j \in New(q) : /\ ~IsExitFrom(content'[q][j], p)
                                 /\ ~IsLineFrom(content'[q][j], p)
      BY <1>0, <1>3, PutForeign
    <2> QED
      BY <1>1, <2>1 DEF Foreign
  <1>q. lp[r].out # "none" \/ lp[r].err # "none" => lp[r].queue \in Queues
    <2>1. lp[r].queue \in Queues \union {None}
      BY <1>0 DEF LocalProcess
    <2> QED
      BY <2>1 DEF ConnShape, ProcessShape
  <1>4. lp[r].errs # <<>> =>
           LET es == <<Stderr(Head(lp[r].errs))>> IN
           /\ es \in Seq(Event)
           /\ \A i \in DOMAIN es : ~IsExitFrom(es[i], p) /\ ~IsLineFrom(es[i], p)
    <2>1. lp[r].errs # <<>> => Head(lp[r].errs) \in ErrLine
      BY <1>0
    <2> QED
      BY <2>1, EventsBuilt DEF Stderr, IsExitFrom, IsLineFrom
  <1>5. lp[r].pipe # <<>> =>
           LET es == <<Stdout(Head(lp[r].pipe))>> IN
           /\ es \in Seq(Event)
           /\ \A i \in DOMAIN es : ~IsExitFrom(es[i], p) /\ ~IsLineFrom(es[i], p)
    <2>1. lp[r].pipe # <<>> => Head(lp[r].pipe) \in Line /\ Head(lp[r].pipe).proc = r
      BY HeadFrom, TypeParts DEF LinesInv
    <2> QED
      BY <2>1, EventsBuilt DEF Stdout, IsExitFrom, IsLineFrom
  <1>6. ASSUME NEW last \in Seq(Event),
               \A i \in DOMAIN last : ~IsExitFrom(last[i], p) /\ ~IsLineFrom(last[i], p)
        PROVE  LET es == last \o <<ExitFrom(r)>> IN
               /\ es \in Seq(Event)
               /\ \A i \in DOMAIN es : ~IsExitFrom(es[i], p) /\ ~IsLineFrom(es[i], p)
    <2> DEFINE es == last \o <<ExitFrom(r)>>
    <2>1. ExitFrom(r) \in Event
      BY EventsBuilt
    <2>2. ~IsExitFrom(ExitFrom(r), p) /\ ~IsLineFrom(ExitFrom(r), p)
      BY DEF ExitFrom, IsExitFrom, IsLineFrom
    <2>3. \A i \in DOMAIN es : \/ i \in DOMAIN last /\ es[i] = last[i]
                              \/ es[i] = ExitFrom(r)
      BY <2>1
    <2>4. es \in Seq(Event)
      BY <2>1
    <2> HIDE DEF es
    <2>5. \A i \in DOMAIN es : ~IsExitFrom(es[i], p) /\ ~IsLineFrom(es[i], p)
      BY <1>6, <2>2, <2>3
    <2> QED
      BY <2>4, <2>5 DEF es
  <1>7. CASE Cli(r) \/ ChildReaped(r) \/ StdoutStarts(r)
    <2>1. content' = content
      BY <1>7 DEF Cli, CliPrint, CliLog, CliExit, ChildReaped, StdoutStarts
    <2> QED
      BY <1>2, <2>1
  <1>8. CASE ReadLine(r)
    <2>1. /\ lp[r].queue \in Queues /\ lp[r].pipe # <<>>
          /\ \/ content' = content
             \/ content' = Put(lp[r].queue, <<Stdout(Head(lp[r].pipe))>>)
      BY <1>8, <1>q DEF ReadLine
    <2> QED
      BY <1>2, <1>3, <1>5, <2>1
  <1>9. CASE ReadEof(r) \/ ReadBreaks(r) \/ ReadClosed(r) \/ ReadCancelled(r)
    <2>1. /\ lp[r].queue \in Queues
          /\ \/ EndStdout(r, <<>>)
             \/ lp[r].pipe # <<>> /\ EndStdout(r, <<Stdout(Head(lp[r].pipe))>>)
      BY <1>9, <1>q DEF ReadEof, ReadBreaks, ReadClosed, ReadCancelled
    <2>2. CASE EndStdout(r, <<>>)
      <3>1. <<>> \in Seq(Event) /\ DOMAIN <<>> = {}
        OBVIOUS
      <3> QED
        BY <1>3, <1>6, <2>1, <2>2, <3>1 DEF EndStdout
    <2>3. CASE lp[r].pipe # <<>> /\ EndStdout(r, <<Stdout(Head(lp[r].pipe))>>)
      BY <1>3, <1>5, <1>6, <2>1, <2>3 DEF EndStdout
    <2> QED
      BY <2>1, <2>2, <2>3
  <1>10. CASE StderrReader(r)
    <2>1. /\ lp[r].queue \in Queues
          /\ \/ content' = content
             \/ /\ lp[r].errs # <<>>
                /\ content' = Put(lp[r].queue, <<Stderr(Head(lp[r].errs))>>)
      BY <1>10, <1>q DEF StderrReader, ReadStderr, EndStderr
    <2> QED
      BY <1>2, <1>3, <1>4, <2>1
  <1> QED
    BY <1>7, <1>8, <1>9, <1>10 DEF StdoutReader


LEMMA LinesStep ==
    ASSUME ConnTypeOK, ConnShape, [ConnNext]_connVars, \A p \in Procs : LinesInv(p)
    PROVE  \A p \in Procs : LinesInv(p)'
  <1> TAKE p \in Procs
  <1>0. ConnTypeOK' /\ LinesInv(p)
    BY ConnStep
  <1>1. CASE Foreign(p)
    BY <1>0, <1>1, ForeignKeeps
  <1>2. ASSUME NEW n \in Names, ClientRegister(n) \/ ClientUnregister(n)
        PROVE  Foreign(p)
    <2>1. UNCHANGED <<content, lp, printed>>
      BY <1>2 DEF ClientRegister, ClientUnregister
    <2> QED
      BY <2>1, QuietForeign
  <1>3. ASSUME NEW k \in Tasks, NEW n \in Names,
               ClientSpawn(k, n) \/ ClientKill(k, n)
        PROVE  Foreign(p)
    BY <1>3, CallsForeign
  <1>4. ASSUME NEW k \in Tasks, ClientKillEnds(k)
        PROVE  Foreign(p)
    <2>1. UNCHANGED <<content, lp, printed>>
      BY <1>4 DEF ClientKillEnds
    <2> QED
      BY <2>1, QuietForeign
  <1>5. CASE UNCHANGED connVars
    <2>1. UNCHANGED <<content, lp, printed>>
      BY <1>5 DEF connVars
    <2> QED
      BY <1>1, <2>1, QuietForeign
  <1>6. ASSUME NEW k \in Tasks, CallSteps(k)
        PROVE  Foreign(p)
    BY <1>6, CallsForeign
  <1>7. ASSUME NEW r \in Procs,
               Cli(r) \/ ChildReaped(r) \/ StdoutReader(r) \/ StderrReader(r)
        PROVE  LinesInv(p)'
    <2>1. CASE r # p
      BY <1>1, <1>7, <2>1, OthersForeign
    <2>2. CASE r = p
      <3>1. ASSUME NEW kind \in Kinds, CliPrint(p, kind) PROVE LinesInv(p)'
        BY <1>0, <3>1, PrintKeeps
      <3>2. CASE ReadLine(p)
        BY <1>0, <3>2, ReadKeeps
      <3>3. CASE ReadEof(p) \/ ReadBreaks(p) \/ ReadClosed(p) \/ ReadCancelled(p)
        BY <1>0, <3>3, EndKeeps
      <3>4. CASE \/ CliLog(p) \/ CliExit(p) \/ ChildReaped(p) \/ StdoutStarts(p)
                 \/ StderrReader(p)
        BY <1>1, <3>4, OwnForeign
      <3> QED
        BY <1>7, <2>2, <3>1, <3>2, <3>3, <3>4 DEF Cli, StdoutReader
    <2> QED
      BY <2>1, <2>2
  <1> QED
    BY <1>1, <1>2, <1>3, <1>4, <1>5, <1>6, <1>7 DEF ConnNext

LEMMA LinesInit == ConnInit => \A p \in Procs : LinesInv(p)
  <1> SUFFICES ASSUME ConnInit, NEW p \in Procs PROVE LinesInv(p)
    OBVIOUS
  <1>1. /\ printed[p] = <<>> /\ lp[p].pipe = <<>> /\ lp[p].out = "none"
        /\ \A q \in Queues : content[q] = <<>>
    BY DEF ConnInit, Unstarted
  <1>2. /\ Len(<<>>) = 0 /\ DOMAIN <<>> = {}
    OBVIOUS
  <1>3. Taken(p) = 0
    BY <1>1, <1>2 DEF Taken
  <1> QED
    BY <1>1, <1>2, <1>3
       DEF LinesInv, Numbered, ExitWhenDone, ExitIsLast, Forwarded, Drained

\* The history of every CLI's lines, in the pty and in the queue.
THEOREM LinesSafe == ConnSpec => [](\A p \in Procs : LinesInv(p))
  <1>1. ConnInit => \A p \in Procs : LinesInv(p)
    BY LinesInit
  <1>2. ConnTypeOK /\ ConnShape /\ [ConnNext]_connVars /\ (\A p \in Procs : LinesInv(p))
          => (\A p \in Procs : LinesInv(p))'
    BY LinesStep
  <1> QED
    BY <1>1, <1>2, ConnSafe, PTL DEF ConnSpec

\* A process's exit event follows all its stdout events, and is the only one,
\* for every interleaving of readers, spawns, kills and re-registrations.
THEOREM ExitComesLast == ConnSpec => []OutputThenExit
  <1>1. (\A p \in Procs : LinesInv(p)) => OutputThenExit
    BY DEF LinesInv, ExitIsLast, OutputThenExit
  <1> QED
    BY <1>1, LinesSafe, PTL

\* At the end of file every JSON line of a CLI nobody killed is in its queue,
\* nothing else is, and the order is the one it printed.
THEOREM AllLinesArrive == ConnSpec => []NothingLostAtEof
  <1>1. ConnTypeOK /\ ConnShape /\ (\A p \in Procs : LinesInv(p)) => NothingLostAtEof
    <2> SUFFICES ASSUME ConnTypeOK, ConnShape, NEW p \in Procs, LinesInv(p),
                        lp[p].out = "done", lp[p].pty = "open",
                        \A i \in DOMAIN printed[p] : printed[p][i].kind # "breaking"
                 PROVE  LET events == content[lp[p].queue]
                            json == {i \in DOMAIN printed[p] :
                                       printed[p][i].kind # "junk"}
                            lines == {j \in DOMAIN events : IsLineFrom(events[j], p)} IN
                        /\ \A i \in json : \E j \in lines : events[j].line = printed[p][i]
                        /\ \A j \in lines : \E i \in json : events[j].line = printed[p][i]
                        /\ \A i, j \in lines : i < j =>
                             events[i].line.id < events[j].line.id
      BY DEF NothingLostAtEof
    <2> DEFINE q == lp[p].queue
    <2>1. printed[p] \in Seq(Line) /\ lp[p].pipe = <<>>
      BY DEF LinesInv, Drained, ConnTypeOK
    <2>2. Taken(p) = Len(printed[p]) /\ DOMAIN printed[p] = 1..Taken(p)
      BY <2>1 DEF Taken
    <2>3. q \in Queues
      <3>1. q \in Queues \union {None} /\ q # None
        BY DEF ConnTypeOK, LocalProcess, ConnShape, ProcessShape
      <3> QED
        BY <3>1
    <2>4. content[q] \in Seq(Event)
      BY <2>3 DEF ConnTypeOK
    <2>5. ASSUME NEW i \in DOMAIN printed[p], printed[p][i].kind # "junk"
          PROVE  \E j \in DOMAIN content[q] : /\ IsLineFrom(content[q][j], p)
                                             /\ content[q][j].line = printed[p][i]
      <3>1. PICK j \in DOMAIN content[q] : content[q][j] = Stdout(printed[p][i])
        BY <2>2, <2>5 DEF LinesInv, Forwarded
      <3>2. printed[p][i].proc = p
        BY DEF LinesInv, Numbered
      <3> QED
        BY <3>1, <3>2 DEF Stdout, IsLineFrom
    <2>6. ASSUME NEW j \in DOMAIN content[q], IsLineFrom(content[q][j], p)
          PROVE  /\ content[q][j].line.id \in DOMAIN printed[p]
                 /\ content[q][j].line = printed[p][content[q][j].line.id]
                 /\ content[q][j].line.kind # "junk"
                 /\ \A i \in 1..j - 1 : IsLineFrom(content[q][i], p) =>
                      content[q][i].line.id < content[q][j].line.id
      BY <2>2, <2>3, <2>6 DEF LinesInv, Forwarded
    <2>7. ASSUME NEW i \in DOMAIN content[q], NEW j \in DOMAIN content[q], i < j
          PROVE  i \in 1..j - 1
      BY <2>4, <2>7
    <2> QED
      BY <2>5, <2>6, <2>7
  <1> QED
    BY <1>1, LinesSafe, ConnSafe, PTL


\* A step that takes p out of reach overwrites the entry of its name, removes
\* it, or ends a spawn or a kill of it; and a kill has sent a signal.
LEMMA LeftBehindStep ==
    ASSUME ConnTypeOK, ConnShape, [ConnNext]_connVars
    PROVE  \A p \in Procs : LeftKnowingly(p)
  <1> SUFFICES ASSUME NEW p \in Procs, Alive(p), InReach(p),
                      lp[p].signal = "none", ~InReach(p)'
               PROVE  \/ \E k \in Tasks : /\ call[k].at = "pipe" /\ call[k].proc = p
                                          /\ lp'[p].out = "none"
                      \/ \E n \in Names : /\ processes[n] = p
                                          /\ processes'[n] # None \/ queues'[n] = None
    BY DEF LeftKnowingly
  <1>0. /\ processes \in [Names -> Procs \union {None}]
        /\ queues \in [Names -> Queues \union {None}] /\ call \in [Tasks -> Call]
        /\ p # None
    BY NoneAssumption DEF ConnTypeOK
  <1>1. ASSUME processes' = processes,
               \A k \in Tasks : call[k].proc = p => call'[k].proc = p
        PROVE  FALSE
    BY <1>1 DEF InReach
  <1>2. ASSUME NEW n \in Names, ClientRegister(n) PROVE FALSE
    BY <1>1, <1>2 DEF ClientRegister
  <1>3. ASSUME NEW n \in Names, ClientUnregister(n)
        PROVE  processes[n] = p /\ queues'[n] = None
    <2>1. call' = call /\ \A m \in Names \ {n} : processes'[m] = processes[m]
      BY <1>0, <1>3 DEF ClientUnregister, Unregister
    <2>2. processes[n] = p
      BY <2>1 DEF InReach
    <2> QED
      BY <1>0, <1>3, <2>2 DEF ClientUnregister, Unregister
  <1>4. ASSUME NEW k \in Tasks, NEW n \in Names,
               ClientSpawn(k, n) \/ ClientKill(k, n)
        PROVE  FALSE
    <2>1. call[k].at = "idle" /\ processes' = processes
      BY <1>4 DEF ClientSpawn, SpawnBegin, ClientKill, KillBegin
    <2>2. call[k].proc # p
      BY <1>0, <2>1 DEF ConnShape, CallShape
    <2>3. \A j \in Tasks \ {k} : call'[j] = call[j]
      BY <1>0, <1>4 DEF ClientSpawn, SpawnBegin, ClientKill, KillBegin
    <2> QED
      BY <1>1, <2>1, <2>2, <2>3
  <1>5. ASSUME NEW k \in Tasks, SpawnExec(k) \/ KillWaited(k) \/ KillTimesOut(k)
        PROVE  FALSE
    <2>1. /\ processes' = processes
          /\ \E at : call' = [call EXCEPT ![k].at = at]
      BY <1>5 DEF SpawnExec, KillWaited, KillTimesOut, LeaveWait
    <2>2. \A j \in Tasks : DOMAIN call[j] = {"at", "name", "proc"}
      BY <1>0 DEF Call
    <2>3. \A j \in Tasks : call'[j].proc = call[j].proc
      BY <1>0, <2>1, <2>2
    <2> QED
      BY <1>1, <2>1, <2>3
  <1>6. ASSUME NEW k \in Tasks, SpawnDone(k)
        PROVE  \E n \in Names : processes[n] = p /\ processes'[n] # None
    <2>1. /\ call[k].name \in Names /\ call[k].proc \in Procs
      BY <1>6 DEF SpawnDone, ConnShape, CallShape
    <2>2. /\ processes' = [processes EXCEPT ![call[k].name] = call[k].proc]
          /\ \A j \in Tasks \ {k} : call'[j] = call[j]
      BY <1>0, <1>6 DEF SpawnDone
    <2>3. processes'[call[k].name] = call[k].proc
      BY <1>0, <2>1, <2>2
    <2>4. call[k].proc # p
      BY <2>1, <2>3 DEF InReach
    <2>5. PICK n \in Names : processes[n] = p
      BY <2>2, <2>4 DEF InReach
    <2>6. n = call[k].name
      BY <1>0, <2>2, <2>5 DEF InReach
    <2> QED
      BY <2>1, <2>3, <2>5, <2>6, NoneAssumption
  <1>7. ASSUME NEW k \in Tasks, SpawnFails(k)
        PROVE  call[k].at = "pipe" /\ call[k].proc = p /\ lp'[p].out = "none"
    <2>1. processes' = processes /\ lp' = lp
          /\ \A j \in Tasks \ {k} : call'[j] = call[j]
      BY <1>0, <1>7 DEF SpawnFails
    <2>2. call[k].proc = p
      BY <1>1, <2>1
    <2> QED
      BY <1>7, <2>1, <2>2 DEF SpawnFails, ConnShape, CallShape, Alive
  <1>8. ASSUME NEW k \in Tasks, ClientKillEnds(k) PROVE FALSE
    <2>1. processes' = processes /\ \A j \in Tasks \ {k} : call'[j] = call[j]
      BY <1>0, <1>8 DEF ClientKillEnds, KillEnds
    <2>2. call[k].proc = p
      BY <1>1, <2>1
    <2>3. lp[p].pty = "closed"
      BY <1>8, <2>2
         DEF ClientKillEnds, KillEnds, KillReturns, KillRaises, ConnShape, CallShape
    <2> QED
      BY <2>3 DEF ConnShape, ProcessShape
  <1>9. ASSUME NEW r \in Procs,
               Cli(r) \/ ChildReaped(r) \/ StdoutReader(r) \/ StderrReader(r)
        PROVE  FALSE
    BY <1>1, <1>9, TasksLeave, TypeParts
  <1>10. CASE UNCHANGED connVars
    BY <1>1, <1>10 DEF connVars
  <1> QED
    BY <1>2, <1>3, <1>4, <1>5, <1>6, <1>7, <1>8, <1>9, <1>10
       DEF ConnNext, CallSteps

\* No connection step loses a CLI that runs and got no signal, other than by
\* a failed spawn, a second spawn under its name, or unregister.
THEOREM NoneLeftByAccident == ConnSpec => LeftBehindKnowingly
  <1>1. ConnTypeOK /\ ConnShape /\ [ConnNext]_connVars
          => \A p \in Procs : LeftKnowingly(p)
    BY LeftBehindStep
  <1> QED
    BY <1>1, ConnSafe, PTL DEF ConnSpec, LeftBehindKnowingly
=============================================================================
