-------------------------- MODULE CliSession_proofs --------------------------
(***************************************************************************)
(* Proofs about CliSession for every bound and every set of exit codes:    *)
(* type correctness, no orphaned CLI, silence and no stray signal after    *)
(* the exit, the order of stdin, and the interception of initialize.       *)
(***************************************************************************)
EXTENDS CliSession, Flattening

-----------------------------------------------------------------------------
(* Facts about events and sequences the steps below rest on.               *)

\* What a message returned by read_message is: an event that is neither
\* stderr, nor exit, nor a bare line, carries a line for the host.
LEMMA EventCases ==
    ASSUME NEW e \in Event
    PROVE  /\ e.type = "stdout" => e.line \in Forwarded
           /\ e.type = "stdout" /\ ~IsBare(e.line) => e.line \in Returned
           /\ e.type = "stderr" => e.line \in ErrLine
           /\ e.type = "exit" => e.code \in Codes \union {NoCode}
  <1>1. CASE e \in {Stdout(l) : l \in Forwarded}
    <2>1. PICK l \in Forwarded : e = Stdout(l)
      BY <1>1
    <2>2. e.type = "stdout" /\ e.line = l
      BY <2>1 DEF Stdout
    <2> QED
      BY <2>2 DEF Forwarded, Returned, IsBare
  <1>2. CASE e \in {Stderr(l) : l \in ErrLine}
    <2>1. PICK l \in ErrLine : e = Stderr(l)
      BY <1>2
    <2> QED
      BY <2>1 DEF Stderr
  <1>3. CASE e \in {Exit(c) : c \in Codes \union {NoCode}}
    <2>1. PICK c \in Codes \union {NoCode} : e = Exit(c)
      BY <1>3
    <2> QED
      BY <2>1 DEF Exit
  <1> QED
    BY <1>1, <1>2, <1>3 DEF Event

\* The constructors build events.
LEMMA EventsBuilt ==
    /\ \A l \in Forwarded : Stdout(l) \in Event
    /\ \A l \in ErrLine : Stderr(l) \in Event
    /\ \A c \in Codes \union {NoCode} : Exit(c) \in Event
  BY DEF Event

LEMMA FakeIsReturned == FakeResponse \in Forwarded
  BY DEF Forwarded, Returned

\* Taking the head of a non-empty sequence leaves a sequence over the same
\* set.
LEMMA HeadTail ==
    ASSUME NEW S, NEW s \in Seq(S), s # <<>>
    PROVE  Head(s) \in S /\ Tail(s) \in Seq(S)
  OBVIOUS

-----------------------------------------------------------------------------
(* Type correctness.                                                       *)

LEMMA InitTypeOK == Init => TypeOK
  <1> SUFFICES ASSUME Init PROVE TypeOK
    OBVIOUS
  <1>1. reconnecting \in BOOLEAN /\ spawned \in BOOLEAN
    BY DEF Init
  <1>2. /\ Len(printed) \in 0..MaxOut /\ logged \in 0..MaxErr
        /\ Len(accepted) + fakes \in 0..MaxIn /\ fakes \in Nat
    BY BoundsAssumption DEF Init
  <1>3. /\ outPipe \in Seq(Line) /\ errPipe \in Seq(ErrLine)
        /\ cliIn \in Seq(HostMessage) /\ stdinCh \in Seq(HostMessage)
        /\ chan \in Seq(Event) /\ printed \in Seq(Line)
        /\ delivered \in Seq(Returned) /\ callbacks \in Seq(ErrLine)
        /\ accepted \in Seq(HostMessage)
    BY DEF Init
  <1>4. /\ proc \in {"running", "zombie", "reaped"}
        /\ exitStatus \in Codes \union {NoCode}
        /\ exitCode \in Codes \union {NoCode}
    BY DEF Init
  <1> QED
    BY <1>1, <1>2, <1>3, <1>4 DEF Init, TypeOK

LEMMA CliTypeOK == TypeOK /\ Cli => TypeOK'
  <1> SUFFICES ASSUME TypeOK, Cli PROVE TypeOK'
    OBVIOUS
  <1> USE BoundsAssumption
  <1>1. ASSUME NEW kind \in LineKinds, CliPrint(kind) PROVE TypeOK'
    <2> DEFINE l == [id |-> Len(printed) + 1, kind |-> kind]
    <2>1. l \in Line
      BY <1>1 DEF CliPrint, TypeOK, Line
    <2> HIDE DEF l
    <2>2. printed' = Append(printed, l) /\ outPipe' = Append(outPipe, l)
      BY <1>1 DEF CliPrint, l
    <2>3. Len(printed') = Len(printed) + 1
      BY <2>1, <2>2 DEF TypeOK
    <2> QED
      BY <1>1, <2>1, <2>2, <2>3
         DEF CliPrint, TypeOK, procVars, errVars, inVars, hostVars
  <1>2. ASSUME NEW kind \in {"text", "undecodable"}, CliLog(kind)
        PROVE  TypeOK'
    <2>1. [id |-> logged + 1, kind |-> kind] \in ErrLine
      BY <1>2 DEF CliLog, TypeOK, ErrLine
    <2> QED
      BY <1>2, <2>1 DEF CliLog, TypeOK, procVars, outVars, inVars, hostVars
  <1>3. ASSUME NEW code \in Codes \union {NoCode}, CliExit(code)
        PROVE  TypeOK'
    BY <1>3 DEF CliExit, TypeOK, outVars, errVars, inVars, hostVars
  <1>4. ASSUME CliReads \/ CliClosesStdin
        PROVE  TypeOK'
    <2>1. stdinPipe' \in {"room", "full", "closed"}
      BY <1>4 DEF CliReads, CliClosesStdin
    <2>2. UNCHANGED <<spawned, procVars, outVars, errVars, cliIn, stdinCh,
                      inWriter, accepted, fakes, waitTask, chan, hostVars>>
      BY <1>4 DEF CliReads, CliClosesStdin
    <2> QED
      BY <2>1, <2>2 DEF TypeOK, procVars, outVars, errVars, hostVars
  <1> QED
    BY <1>1, <1>2, <1>3, <1>4 DEF Cli

LEMMA TasksTypeOK ==
    TypeOK /\ (StdoutReader \/ StderrReader \/ StdinWriter \/ WaitTask)
      => TypeOK'
  <1>1. ASSUME TypeOK, ForwardStdout PROVE TypeOK'
    <2>1. Head(outPipe) \in Line /\ Tail(outPipe) \in Seq(Line)
      BY <1>1, HeadTail DEF ForwardStdout, TypeOK
    <2>2. Head(outPipe).kind # "junk" => Head(outPipe) \in Forwarded
      BY <1>1, <2>1
         DEF ForwardStdout, Line, LineKinds, Forwarded, Returned
    <2>3. chan' \in Seq(Event)
      <3>1. CASE Head(outPipe).kind = "junk"
        BY <1>1, <3>1 DEF ForwardStdout, TypeOK
      <3>2. CASE Head(outPipe).kind # "junk"
        <4>1. Stdout(Head(outPipe)) \in Event
          BY <2>2, <3>2, EventsBuilt
        <4>2. chan' = Append(chan, Stdout(Head(outPipe)))
          BY <1>1, <3>2 DEF ForwardStdout
        <4> QED
          BY <1>1, <4>1, <4>2 DEF TypeOK
      <3> QED
        BY <3>1, <3>2
    <2> QED
      BY <1>1, <2>1, <2>3
         DEF ForwardStdout, TypeOK, procVars, errVars, inVars, hostVars
  <1>2. ASSUME TypeOK, EndStdout PROVE TypeOK'
    BY <1>2 DEF EndStdout, TypeOK, procVars, errVars, inVars, hostVars
  <1>3. ASSUME TypeOK, ForwardStderr PROVE TypeOK'
    <2>1. Head(errPipe) \in ErrLine /\ Tail(errPipe) \in Seq(ErrLine)
      BY <1>3, HeadTail DEF ForwardStderr, TypeOK
    <2>2. Stderr(Head(errPipe)) \in Event
      BY <2>1, EventsBuilt
    <2>3. chan' \in Seq(Event)
      BY <1>3, <2>2 DEF ForwardStderr, TypeOK
    <2> QED
      BY <1>3, <2>1, <2>3
         DEF ForwardStderr, TypeOK, procVars, outVars, inVars, hostVars
  <1>4. ASSUME TypeOK, EndStderr PROVE TypeOK'
    BY <1>4 DEF EndStderr, TypeOK, procVars, outVars, inVars, hostVars
  <1>5. ASSUME TypeOK, WriteStdin PROVE TypeOK'
    <2>1. Head(stdinCh) \in HostMessage /\ Tail(stdinCh) \in Seq(HostMessage)
      BY <1>5, HeadTail DEF WriteStdin, TypeOK
    <2>2. cliIn' \in Seq(HostMessage)
      BY <1>5, <2>1 DEF WriteStdin, TypeOK
    <2> QED
      BY <1>5, <2>1, <2>2
         DEF WriteStdin, TypeOK, procVars, outVars, errVars, hostVars
  <1>6. ASSUME TypeOK, FailStdin PROVE TypeOK'
    BY <1>6 DEF FailStdin, TypeOK, procVars, outVars, errVars, hostVars
  <1>7. ASSUME TypeOK, Reap PROVE TypeOK'
    BY <1>7 DEF Reap, TypeOK, outVars, errVars, inVars, hostVars
  <1>8. ASSUME TypeOK, SendExit PROVE TypeOK'
    <2>1. Exit(exitStatus) \in Event
      BY <1>8, EventsBuilt DEF TypeOK
    <2>2. chan' \in Seq(Event)
      BY <1>8, <2>1 DEF SendExit, TypeOK
    <2> QED
      BY <1>8, <2>2
         DEF SendExit, TypeOK, procVars, outVars, errVars, inVars, hostVars
  <1> QED
    BY <1>1, <1>2, <1>3, <1>4, <1>5, <1>6, <1>7, <1>8
       DEF StdoutReader, StderrReader, StdinWriter, WaitTask

LEMMA WriteTypeOK ==
    ASSUME TypeOK, NEW kind \in {"initialize", "other"}, Write(kind)
    PROVE  TypeOK'
  <1>1. CASE Intercept(kind)
    <2>1. Stdout(FakeResponse) \in Event
      BY EventsBuilt, FakeIsReturned
    <2>2. chan' \in Seq(Event)
      BY <1>1, <2>1 DEF Intercept, TypeOK
    <2>3. fakes' \in Nat /\ Len(accepted') + fakes' \in 0..MaxIn
      BY <1>1, BoundsAssumption DEF Intercept, Write, TypeOK
    <2>4. reconnecting' \in BOOLEAN /\ UNCHANGED <<stdinCh, accepted>>
      BY <1>1 DEF Intercept
    <2>5. UNCHANGED <<spawned, procVars, outVars, errVars, cliIn, stdinPipe,
                      inWriter, waitTask, ready, cliExited, exitCode, host,
                      delivered, callbacks>>
      BY DEF Write
    <2> QED
      BY <2>2, <2>3, <2>4, <2>5 DEF TypeOK, procVars, outVars, errVars
  <1>2. CASE SendStdin(kind)
    <2> DEFINE m == [id |-> Len(accepted) + 1, kind |-> kind]
    <2>1. m \in HostMessage
      BY BoundsAssumption DEF Write, TypeOK, HostMessage
    <2>2. /\ accepted' = Append(accepted, m)
          /\ stdinCh' = Append(stdinCh, m)
      BY <1>2 DEF SendStdin
    <2> HIDE DEF m
    <2>3. /\ accepted' \in Seq(HostMessage)
          /\ stdinCh' \in Seq(HostMessage)
          /\ Len(accepted') = Len(accepted) + 1
      BY <2>1, <2>2 DEF TypeOK
    <2>4. Len(accepted') + fakes' \in 0..MaxIn
      BY <1>2, <2>3, BoundsAssumption DEF SendStdin, Write, TypeOK
    <2> QED
      BY <1>2, <2>3, <2>4
         DEF SendStdin, Write, TypeOK, procVars, outVars, errVars
  <1> QED
    BY <1>1, <1>2 DEF Write

LEMMA HostTypeOK == TypeOK /\ Host => TypeOK'
  <1> SUFFICES ASSUME TypeOK, Host PROVE TypeOK'
    OBVIOUS
  <1>1. ASSUME NEW kind \in {"initialize", "other"}, Write(kind)
        PROVE  TypeOK'
    BY <1>1, WriteTypeOK
  <1>2. CASE ReadMessage \/ CancelRead
    <2>1. host' \in {"idle", "reading"}
      BY <1>2 DEF ReadMessage, CancelRead
    <2>2. UNCHANGED <<spawned, procVars, outVars, errVars, inVars, waitTask,
                      chan, reconnecting, ready, cliExited, exitCode,
                      delivered, callbacks>>
      BY <1>2 DEF ReadMessage, CancelRead
    <2> QED
      BY <2>1, <2>2 DEF TypeOK, procVars, outVars, errVars, inVars
  <1>3. CASE Receive
    <2> DEFINE e == Head(chan)
    <2>1. e \in Event /\ chan' \in Seq(Event)
      BY <1>3, HeadTail DEF Receive, TypeOK
    <2>2. Discard(e) \/ DropBare(e) \/ ReturnMessage(e) \/ CallBack(e)
            \/ SeeExit(e)
      BY <1>3 DEF Receive
    <2> HIDE DEF e
    <2>3. /\ delivered' \in Seq(Returned)
          /\ callbacks' \in Seq(ErrLine)
          /\ exitCode' \in Codes \union {NoCode}
          /\ cliExited' \in BOOLEAN
          /\ host' \in {"idle", "reading"}
      <3>1. CASE Discard(e) \/ DropBare(e)
        BY <3>1 DEF Discard, DropBare, TypeOK
      <3>2. CASE ReturnMessage(e)
        <4>1. e.line \in Returned
          BY <2>1, <3>2, EventCases DEF ReturnMessage
        <4> QED
          BY <3>2, <4>1 DEF ReturnMessage, TypeOK
      <3>3. CASE CallBack(e)
        <4>1. e.line \in ErrLine
          BY <2>1, <3>3, EventCases DEF CallBack
        <4> QED
          BY <3>3, <4>1 DEF CallBack, TypeOK
      <3>4. CASE SeeExit(e)
        <4>1. e.code \in Codes \union {NoCode}
          BY <2>1, <3>4, EventCases DEF SeeExit
        <4> QED
          BY <3>4, <4>1 DEF SeeExit, TypeOK
      <3> QED
        BY <2>2, <3>1, <3>2, <3>3, <3>4
    <2> QED
      BY <1>3, <2>1, <2>3
         DEF Receive, TypeOK, procVars, outVars, errVars, inVars
  <1>4. CASE Stop
    <2>1. Exit(NoCode) \in Event
      BY EventsBuilt
    <2>2. chan' \in Seq(Event)
      BY <1>4, <2>1 DEF Stop, TypeOK
    <2>3. /\ signalled' \in {"no", "asked", "sent"}
          /\ signalled' = "asked" => ~spawned
          /\ strayed' \subseteq {"kill", "send_signal"}
      BY <1>4 DEF Stop, Terminate, TypeOK
    <2> QED
      BY <1>4, <2>2, <2>3
         DEF Stop, Terminate, TypeOK, outVars, errVars, inVars
  <1>5. CASE Close
    <2>1. /\ signalled' \in {"no", "asked", "sent"}
          /\ signalled' = "asked" => ~spawned
          /\ strayed' \subseteq {"kill", "send_signal"}
      BY <1>5 DEF Close, Terminate, TypeOK, procVars
    <2>2. UNCHANGED <<proc, exitStatus, pidReused>>
      BY <1>5 DEF Close, Terminate, procVars
    <2>3. ready' \in BOOLEAN
      BY <1>5 DEF Close
    <2>4. UNCHANGED <<spawned, outVars, errVars, inVars, waitTask, chan,
                      reconnecting, cliExited, exitCode, host, delivered,
                      callbacks>>
      BY <1>5 DEF Close
    <2> QED
      BY <2>1, <2>2, <2>3, <2>4 DEF TypeOK, outVars, errVars, inVars
  <1>6. CASE SendSignal
    BY <1>6 DEF SendSignal, TypeOK, outVars, errVars, inVars, hostVars
  <1> QED
    BY <1>1, <1>2, <1>3, <1>4, <1>5, <1>6 DEF Host

LEMMA NextTypeOK == TypeOK /\ [Next]_vars => TypeOK'
  <1> SUFFICES ASSUME TypeOK, [Next]_vars PROVE TypeOK'
    OBVIOUS
  <1>0. CASE BackendKills
    BY <1>0 DEF BackendKills, TypeOK, outVars, errVars, inVars, hostVars
  <1>1. CASE ReusePid
    BY <1>1 DEF ReusePid, TypeOK, outVars, errVars, inVars, hostVars
  <1>2. CASE UNCHANGED vars
    BY <1>2 DEF vars, TypeOK, procVars, outVars, errVars, inVars, hostVars
  <1> QED
    BY <1>0, <1>1, <1>2, CliTypeOK, TasksTypeOK, HostTypeOK DEF Next

\* Every event in the channel and every line given to the host has the shape
\* the code gives it: junk stops at the stdout reader, bare duplicates stop
\* at read_message.
THEOREM TypeCorrect == Spec => []TypeOK
  <1>1. Init => TypeOK
    BY InitTypeOK
  <1>2. TypeOK /\ [Next]_vars => TypeOK'
    BY NextTypeOK
  <1> QED
    BY <1>1, <1>2, PTL DEF Spec

-----------------------------------------------------------------------------
(* No CLI is orphaned.  The property is not inductive alone: that          *)
(* read_message may set cli_exited on an exit event rests on what an exit  *)
(* event in the channel means.                                             *)

OrphanInv == TypeOK /\ ExitEventsAreEarned /\ NoUnsignalledOrphan

LEMMA InitOrphanInv == Init => OrphanInv
  <1> SUFFICES ASSUME Init PROVE OrphanInv
    OBVIOUS
  <1>1. ExitEventsAreEarned
    BY DEF Init, ExitEventsAreEarned
  <1>2. NoUnsignalledOrphan
    BY DEF Init, NoUnsignalledOrphan
  <1> QED
    BY <1>1, <1>2, InitTypeOK DEF OrphanInv

\* A channel that gains an event with no exit in it, or loses its head, has
\* an exit event only if it had one.
LEMMA ExitsAfterAppend ==
    ASSUME NEW s \in Seq(Event), NEW e \in Event, e.type # "exit",
           \E i \in DOMAIN Append(s, e) : Append(s, e)[i].type = "exit"
    PROVE  \E i \in DOMAIN s : s[i].type = "exit"
  <1>1. PICK i \in DOMAIN Append(s, e) : Append(s, e)[i].type = "exit"
    OBVIOUS
  <1>2. CASE i \in DOMAIN s
    BY <1>1, <1>2
  <1>3. CASE i = Len(s) + 1
    BY <1>1, <1>3
  <1> QED
    BY <1>2, <1>3

LEMMA ExitsAfterTail ==
    ASSUME NEW s \in Seq(Event), s # <<>>,
           \E i \in DOMAIN Tail(s) : Tail(s)[i].type = "exit"
    PROVE  \E i \in DOMAIN s : s[i].type = "exit"
  <1>1. PICK i \in DOMAIN Tail(s) : Tail(s)[i].type = "exit"
    OBVIOUS
  <1>2. i + 1 \in DOMAIN s /\ s[i + 1] = Tail(s)[i]
    OBVIOUS
  <1> QED
    BY <1>1, <1>2

LEMMA NextOrphanInv == OrphanInv /\ [Next]_vars => OrphanInv'
  <1> SUFFICES ASSUME OrphanInv, [Next]_vars
               PROVE  ExitEventsAreEarned' /\ NoUnsignalledOrphan'
    BY NextTypeOK DEF OrphanInv
  <1> USE DEF OrphanInv, ExitEventsAreEarned, NoUnsignalledOrphan
  <1> DEFINE HasExit == \E i \in DOMAIN chan : chan[i].type = "exit"
  <1> SUFFICES /\ (waitTask # "waiting" => proc = "reaped")'
               /\ HasExit' => (proc # "running" \/ cliExited)'
               /\ NoUnsignalledOrphan'
    OBVIOUS
  <1> HasExit => (proc # "running" \/ cliExited)
    OBVIOUS
  <1> chan \in Seq(Event)
    BY DEF TypeOK
  <1>1. CASE Cli
    <2>1. UNCHANGED <<spawned, chan, waitTask, cliExited, ready, signalled>>
      BY <1>1 DEF Cli, CliPrint, CliLog, CliReads, CliClosesStdin, CliExit,
                  procVars, hostVars
    <2>2. proc' = proc \/ (proc = "running" /\ proc' = "zombie")
      BY <1>1 DEF Cli, CliPrint, CliLog, CliReads, CliClosesStdin, CliExit,
                  procVars
    <2> QED
      BY <2>1, <2>2
  <1>2. CASE ReusePid \/ BackendKills
    BY <1>2 DEF ReusePid, BackendKills, hostVars
  <1>3. CASE StdoutReader
    <2>1. HasExit' => HasExit
      <3>1. CASE ForwardStdout /\ Head(outPipe).kind # "junk"
        <4>0. Head(outPipe) \in Line
          BY <3>1, HeadTail DEF ForwardStdout, TypeOK
        <4>1. Head(outPipe) \in Forwarded
          BY <3>1, <4>0
             DEF ForwardStdout, Line, LineKinds, Forwarded, Returned
        <4>2. /\ Stdout(Head(outPipe)) \in Event
              /\ Stdout(Head(outPipe)).type # "exit"
          BY <4>1, EventsBuilt DEF Stdout
        <4>3. chan' = Append(chan, Stdout(Head(outPipe)))
          BY <3>1 DEF ForwardStdout
        <4> QED
          BY <4>2, <4>3, ExitsAfterAppend
      <3>2. CASE UNCHANGED chan
        BY <3>2
      <3> QED
        BY <1>3, <3>1, <3>2 DEF StdoutReader, ForwardStdout, EndStdout
    <2> QED
      BY <1>3, <2>1
         DEF StdoutReader, ForwardStdout, EndStdout, procVars, hostVars
  <1>4. CASE StderrReader
    <2>1. HasExit' => HasExit
      <3>1. CASE ForwardStderr
        <4>1. Head(errPipe) \in ErrLine
          BY <3>1, HeadTail DEF ForwardStderr, TypeOK
        <4>2. /\ Stderr(Head(errPipe)) \in Event
              /\ Stderr(Head(errPipe)).type # "exit"
          BY <4>1, EventsBuilt DEF Stderr
        <4>3. chan' = Append(chan, Stderr(Head(errPipe)))
          BY <3>1 DEF ForwardStderr
        <4> QED
          BY <4>2, <4>3, ExitsAfterAppend
      <3> QED
        BY <1>4, <3>1 DEF StderrReader, EndStderr
    <2> QED
      BY <1>4, <2>1
         DEF StderrReader, ForwardStderr, EndStderr, procVars, hostVars
  <1>5. CASE StdinWriter
    BY <1>5 DEF StdinWriter, WriteStdin, FailStdin, procVars, hostVars
  <1>6. CASE WaitTask
    BY <1>6 DEF WaitTask, Reap, SendExit, procVars, hostVars
  <1>7. CASE Host
    <2>1. ASSUME NEW kind \in {"initialize", "other"}, Write(kind)
          PROVE  HasExit' => HasExit
      <3>1. CASE Intercept(kind)
        <4>1. /\ Stdout(FakeResponse) \in Event
              /\ Stdout(FakeResponse).type # "exit"
          BY EventsBuilt, FakeIsReturned DEF Stdout
        <4> QED
          BY <3>1, <4>1, ExitsAfterAppend DEF Intercept
      <3> QED
        BY <2>1, <3>1 DEF Write, SendStdin
    <2>2. CASE \E kind \in {"initialize", "other"} : Write(kind)
      <3>1. UNCHANGED <<spawned, proc, waitTask, cliExited, ready, signalled>>
        BY <2>2 DEF Write, procVars
      <3>2. HasExit' => HasExit
        BY <2>1, <2>2
      <3> QED
        BY <3>1, <3>2
    <2>3. CASE ReadMessage \/ CancelRead
      BY <2>3 DEF ReadMessage, CancelRead, procVars, hostVars
    <2>4. CASE Receive
      <3>1. HasExit' => HasExit
        BY <2>4, ExitsAfterTail DEF Receive
      <3>2. SeeExit(Head(chan)) => HasExit
        BY <2>4 DEF SeeExit, Receive
      <3> QED
        BY <2>4, <3>1, <3>2
           DEF Receive, Discard, DropBare, ReturnMessage, CallBack, SeeExit,
               procVars
    <2>5. CASE Stop
      BY <2>5 DEF Stop, Terminate, TypeOK
    <2>6. CASE Close
      <3>1. UNCHANGED <<spawned, proc, chan, waitTask, cliExited>>
        BY <2>6 DEF Close, Terminate, procVars
      <3>2. signalled # "no" => signalled' = signalled \/ signalled' = "sent"
        BY <2>6 DEF Close, Terminate, procVars, TypeOK
      <3>3. proc = "running" /\ ~cliExited /\ ready =>
              signalled' = "sent" \/ (~spawned /\ signalled' = "asked")
        BY <2>6 DEF Close, Terminate, TypeOK
      <3>4. ready' = TRUE => ready = TRUE
        BY <2>6 DEF Close
      <3>5. ready \/ ~ready
        OBVIOUS
      <3> QED
        BY <3>1, <3>2, <3>3, <3>4, <3>5 DEF TypeOK
    <2>7. CASE SendSignal
      BY <2>7 DEF SendSignal, hostVars
    <2> QED
      BY <1>7, <2>2, <2>3, <2>4, <2>5, <2>6, <2>7 DEF Host
  <1>8. CASE UNCHANGED vars
    BY <1>8 DEF vars, procVars, hostVars
  <1> QED
    BY <1>1, <1>2, <1>3, <1>4, <1>5, <1>6, <1>7, <1>8 DEF Next

\* A session that counts the CLI as gone has a CLI that exited or that was
\* sent SIGTERM: the skipped kills of stop and close leave no orphan.
THEOREM NoOrphan == Spec => []NoUnsignalledOrphan
  <1>1. Init => OrphanInv
    BY InitOrphanInv
  <1>2. OrphanInv /\ [Next]_vars => OrphanInv'
    BY NextOrphanInv
  <1>3. OrphanInv => NoUnsignalledOrphan
    BY DEF OrphanInv
  <1> QED
    BY <1>1, <1>2, <1>3, PTL DEF Spec

\* An exit event in the channel means that the CLI is gone or that the host
\* has ended the stream: no reader's end of file passes for an exit.
THEOREM ExitsEarned == Spec => []ExitEventsAreEarned
  <1>1. Init => OrphanInv
    BY InitOrphanInv
  <1>2. OrphanInv /\ [Next]_vars => OrphanInv'
    BY NextOrphanInv
  <1>3. OrphanInv => ExitEventsAreEarned
    BY DEF OrphanInv
  <1> QED
    BY <1>1, <1>2, <1>3, PTL DEF Spec

-----------------------------------------------------------------------------
(* Silence after the exit.                                                 *)

LEMMA SilentStep ==
    [Next]_vars /\ cliExited => UNCHANGED <<delivered, callbacks, exitCode>>
  <1> SUFFICES ASSUME [Next]_vars, cliExited
               PROVE  UNCHANGED <<delivered, callbacks, exitCode>>
    OBVIOUS
  <1>1. CASE Host
    BY <1>1 DEF Host, Write, ReadMessage, CancelRead, Receive, Discard,
                DropBare, ReturnMessage, CallBack, SeeExit, Stop, Close,
                SendSignal, hostVars
  <1>2. CASE Cli
    BY <1>2 DEF Cli, CliPrint, CliLog, CliReads, CliClosesStdin, CliExit,
                hostVars
  <1>3. CASE StdoutReader \/ StderrReader \/ StdinWriter \/ WaitTask
    BY <1>3 DEF StdoutReader, ForwardStdout, EndStdout, StderrReader,
                ForwardStderr, EndStderr, StdinWriter, WriteStdin, FailStdin,
                WaitTask, Reap, SendExit, hostVars
  <1>4. CASE ReusePid \/ BackendKills \/ UNCHANGED vars
    BY <1>4 DEF ReusePid, BackendKills, vars, hostVars
  <1> QED
    BY <1>1, <1>2, <1>3, <1>4 DEF Next

\* After stop, or after read_message saw the exit, no message, no stderr
\* line and no other exit code reaches the host.
THEOREM Silent == Spec => SilentAfterExit
  BY SilentStep, PTL DEF Spec, SilentAfterExit

-----------------------------------------------------------------------------
(* No stray SIGTERM after the exit.                                        *)

LEMMA NoStrayStep ==
    [Next]_vars /\ cliExited => ("kill" \in strayed' <=> "kill" \in strayed)
  <1> SUFFICES ASSUME [Next]_vars, cliExited
               PROVE  "kill" \in strayed' <=> "kill" \in strayed
    OBVIOUS
  <1>1. CASE Host
    BY <1>1 DEF Host, Write, ReadMessage, CancelRead, Receive, Stop, Close,
                SendSignal, procVars
  <1>2. CASE Cli
    BY <1>2 DEF Cli, CliPrint, CliLog, CliReads, CliClosesStdin, CliExit,
                procVars
  <1>3. CASE StdoutReader \/ StderrReader \/ StdinWriter \/ WaitTask
    BY <1>3 DEF StdoutReader, ForwardStdout, EndStdout, StderrReader,
                ForwardStderr, EndStderr, StdinWriter, WriteStdin, FailStdin,
                WaitTask, Reap, SendExit, procVars
  <1>4. CASE ReusePid \/ BackendKills \/ UNCHANGED vars
    BY <1>4 DEF ReusePid, BackendKills, vars, procVars
  <1> QED
    BY <1>1, <1>2, <1>3, <1>4 DEF Next

\* Once the host has seen the exit, or called stop, neither stop nor close
\* sends a SIGTERM to whatever process the recorded pid names by then.
THEOREM NoStray == Spec => NoStrayAfterExit
  BY NoStrayStep, PTL DEF Spec, NoStrayAfterExit

-----------------------------------------------------------------------------
(* The order of stdin.                                                     *)

\* A prefix, element by element.
LEMMA PrefixPointwise ==
    ASSUME NEW S, NEW s \in Seq(S), NEW t \in Seq(S)
    PROVE  IsPrefix(s, t)
             <=> /\ Len(s) <= Len(t)
                 /\ \A i \in 1..Len(s) : s[i] = t[i]
  <1>1. ASSUME Len(s) <= Len(t), SubSeq(s, 1, Len(s)) = SubSeq(t, 1, Len(s))
        PROVE  \A i \in 1..Len(s) : s[i] = t[i]
    <2>1. \A i \in 1..Len(s) : SubSeq(s, 1, Len(s))[i] = s[i]
      OBVIOUS
    <2>2. \A i \in 1..Len(s) : SubSeq(t, 1, Len(s))[i] = t[i]
      BY <1>1
    <2> QED
      BY <1>1, <2>1, <2>2
  <1>2. ASSUME Len(s) <= Len(t), \A i \in 1..Len(s) : s[i] = t[i]
        PROVE  SubSeq(s, 1, Len(s)) = SubSeq(t, 1, Len(s))
    BY <1>2
  <1> QED
    BY <1>1, <1>2 DEF IsPrefix

\* What the front of a prefix is: a prefix, when the rest is forgotten.
LEMMA PrefixOfFront ==
    ASSUME NEW S, NEW s \in Seq(S), NEW u \in Seq(S), NEW t \in Seq(S),
           IsPrefix(s \o u, t)
    PROVE  IsPrefix(s, t)
  <1> DEFINE w == s \o u
  <1>1. /\ w \in Seq(S) /\ Len(w) = Len(s) + Len(u)
        /\ \A i \in 1..Len(s) : w[i] = s[i]
    OBVIOUS
  <1>2. IsPrefix(w, t)
    OBVIOUS
  <1> HIDE DEF w
  <1>3. Len(w) <= Len(t) /\ \A i \in 1..Len(w) : w[i] = t[i]
    BY <1>1, <1>2, PrefixPointwise, SMTT(60)
  <1>4. Len(s) <= Len(t) /\ \A i \in 1..Len(s) : s[i] = t[i]
    <2>1. Len(s) \in Nat /\ Len(u) \in Nat /\ Len(t) \in Nat
      OBVIOUS
    <2>2. \A i \in 1..Len(s) : i \in 1..Len(w)
      BY <1>1, <2>1
    <2> QED
      BY <1>1, <1>3, <2>1, <2>2
  <1> QED
    BY <1>4, PrefixPointwise

\* Moving the head of one sequence to the end of another leaves what the two
\* are together.
LEMMA HeadMoved ==
    ASSUME NEW S, NEW s \in Seq(S), NEW u \in Seq(S), u # <<>>
    PROVE  Append(s, Head(u)) \o Tail(u) = s \o u
  <1> DEFINE h == Head(u)
             r == Tail(u)
  <1>1. h \in S /\ r \in Seq(S) /\ <<h>> \in Seq(S)
    OBVIOUS
  <1>2. u = <<h>> \o r
    OBVIOUS
  <1> HIDE DEF h, r
  <1>3. Append(s, h) = s \o <<h>>
    BY <1>1, AppendIsConcat
  <1>4. (s \o <<h>>) \o r = s \o (<<h>> \o r)
    BY <1>1, ConcatAssociative
  <1>5. Append(s, h) \o r = s \o u
    BY <1>2, <1>3, <1>4
  <1> QED
    BY <1>5 DEF h, r

LEMMA AppendToBoth ==
    ASSUME NEW S, NEW s \in Seq(S), NEW u \in Seq(S), NEW e \in S
    PROVE  s \o Append(u, e) = Append(s \o u, e)
  OBVIOUS

StdinInv == TypeOK /\ StdinInOrder

LEMMA InitStdinInv == Init => StdinInv
  <1> SUFFICES ASSUME Init PROVE StdinInOrder
    BY InitTypeOK DEF StdinInv
  <1>1. cliIn \o stdinCh = <<>> /\ accepted = <<>>
    BY DEF Init
  <1> QED
    BY <1>1 DEF StdinInOrder, IsPrefix

LEMMA NextStdinInv == StdinInv /\ [Next]_vars => StdinInv'
  <1> SUFFICES ASSUME TypeOK, TypeOK', StdinInOrder, [Next]_vars
               PROVE  StdinInOrder'
    BY NextTypeOK DEF StdinInv
  <1>0. /\ cliIn \in Seq(HostMessage) /\ stdinCh \in Seq(HostMessage)
        /\ accepted \in Seq(HostMessage)
    BY DEF TypeOK
  <1>1. CASE UNCHANGED <<cliIn, stdinCh, inWriter, accepted>>
    BY <1>1 DEF StdinInOrder
  <1>2. CASE WriteStdin
    <2>1. cliIn' \o stdinCh' = cliIn \o stdinCh
      BY <1>0, <1>2, HeadMoved DEF WriteStdin
    <2>2. UNCHANGED <<inWriter, accepted>>
      BY <1>2 DEF WriteStdin
    <2> QED
      BY <2>1, <2>2 DEF StdinInOrder
  <1>3. CASE FailStdin
    <2>1. /\ cliIn' = cliIn /\ stdinCh' = <<>>
          /\ inWriter' = "done" /\ accepted' = accepted
      BY <1>3 DEF FailStdin
    <2>2. cliIn' \o stdinCh' = cliIn
      BY <1>0, <2>1
    <2>3. IsPrefix(cliIn, accepted)
      BY <1>0, PrefixOfFront DEF StdinInOrder
    <2> QED
      BY <2>1, <2>2, <2>3 DEF StdinInOrder
  <1>4. ASSUME NEW kind \in {"initialize", "other"}, Write(kind)
        PROVE  StdinInOrder'
    <2>1. CASE Intercept(kind)
      BY <1>1, <1>4, <2>1 DEF Intercept, Write
    <2>2. CASE SendStdin(kind)
      <3> DEFINE m == [id |-> Len(accepted) + 1, kind |-> kind]
      <3>1. /\ inWriter = "open"
            /\ stdinCh' = Append(stdinCh, m)
            /\ accepted' = Append(accepted, m)
        BY <2>2 DEF SendStdin
      <3>2. cliIn' = cliIn
        BY <1>4 DEF Write
      <3>3. m \in HostMessage
        <4>1. Len(accepted) + fakes < MaxIn
          BY <1>4 DEF Write
        <4>2. Len(accepted) \in Nat /\ fakes \in Nat
          BY DEF TypeOK
        <4>3. Len(accepted) + 1 \in 1..MaxIn
          BY <4>1, <4>2, BoundsAssumption
        <4> QED
          BY <1>4, <4>3 DEF HostMessage
      <3> HIDE DEF m
      <3>4. accepted = cliIn \o stdinCh
        BY <3>1 DEF StdinInOrder
      <3>5. accepted' = cliIn' \o stdinCh'
        <4>1. cliIn \o Append(stdinCh, m) = Append(cliIn \o stdinCh, m)
          BY <1>0, <3>3, AppendToBoth
        <4> QED
          BY <3>1, <3>2, <3>4, <4>1
      <3>6. IsPrefix(accepted', accepted')
        BY DEF IsPrefix, TypeOK
      <3> QED
        BY <3>5, <3>6 DEF StdinInOrder
    <2> QED
      BY <1>4, <2>1, <2>2 DEF Write
  <1>5. CASE Host
    <2>1. CASE ReadMessage \/ CancelRead \/ Receive \/ Stop \/ Close
                 \/ SendSignal
      BY <1>1, <2>1 DEF ReadMessage, CancelRead, Receive, Stop, Close,
                        SendSignal, inVars
    <2> QED
      BY <1>4, <1>5, <2>1 DEF Host
  <1>6. CASE Cli \/ ReusePid \/ BackendKills \/ StdoutReader
                 \/ StderrReader \/ WaitTask
    BY <1>1, <1>6 DEF Cli, CliPrint, CliLog, CliReads, CliClosesStdin,
                      CliExit, ReusePid, BackendKills, StdoutReader,
                      ForwardStdout, EndStdout, StderrReader, ForwardStderr,
                      EndStderr, WaitTask, Reap, SendExit, inVars
  <1>7. CASE UNCHANGED vars
    BY <1>1, <1>7 DEF vars, inVars
  <1> QED
    BY <1>2, <1>3, <1>5, <1>6, <1>7 DEF Next, StdinWriter

\* Every message that write accepted reaches the CLI in order and without a
\* gap: what a failed write loses is a tail, for any number of messages.
THEOREM StdinOrdered == Spec => []StdinInOrder
  <1>1. Init => StdinInv
    BY InitStdinInv
  <1>2. StdinInv /\ [Next]_vars => StdinInv'
    BY NextStdinInv
  <1>3. StdinInv => StdinInOrder
    BY DEF StdinInv
  <1> QED
    BY <1>1, <1>2, <1>3, PTL DEF Spec

-----------------------------------------------------------------------------
(* The interception.                                                       *)

\* The places of an element in a sequence that grows, or loses its head.
LEMMA PlacesAfterAppend ==
    ASSUME NEW S, NEW s \in Seq(S), NEW e \in S, NEW x
    PROVE  /\ e # x => Places(Append(s, e), x) = Places(s, x)
           /\ e = x /\ Places(s, x) = {} => One(Places(Append(s, e), x))
  <1>1. /\ DOMAIN Append(s, e) = DOMAIN s \union {Len(s) + 1}
        /\ Append(s, e)[Len(s) + 1] = e
        /\ \A i \in DOMAIN s : Append(s, e)[i] = s[i]
        /\ Len(s) + 1 \notin DOMAIN s
    OBVIOUS
  <1>2. ASSUME e # x PROVE Places(Append(s, e), x) = Places(s, x)
    BY <1>1, <1>2 DEF Places
  <1>3. ASSUME e = x, Places(s, x) = {}
        PROVE  Places(Append(s, e), x) = {Len(s) + 1}
    BY <1>1, <1>3 DEF Places
  <1> QED
    BY <1>2, <1>3 DEF One

LEMMA PlacesAfterTail ==
    ASSUME NEW S, NEW s \in Seq(S), s # <<>>, NEW x
    PROVE  /\ Places(s, x) = {} => Places(Tail(s), x) = {} /\ Head(s) # x
           /\ One(Places(s, x)) /\ Head(s) = x => Places(Tail(s), x) = {}
           /\ One(Places(s, x)) /\ Head(s) # x => One(Places(Tail(s), x))
  <1>1. /\ 1 \in DOMAIN s /\ s[1] = Head(s)
        /\ \A i \in DOMAIN Tail(s) :
              i \in Nat /\ i + 1 \in DOMAIN s /\ Tail(s)[i] = s[i + 1]
        /\ \A i \in DOMAIN s : i # 1 =>
              i - 1 \in DOMAIN Tail(s) /\ Tail(s)[i - 1] = s[i] /\ i \in Nat
    OBVIOUS
  <1>2. \A i : i \in Places(Tail(s), x) =>
                 i + 1 \in Places(s, x) /\ i \in Nat /\ i + 1 # 1
    BY <1>1 DEF Places
  <1>3. Head(s) = x <=> 1 \in Places(s, x)
    BY <1>1 DEF Places
  <1>4. \A i \in Places(s, x) : i # 1 =>
                 i \in Nat /\ i - 1 \in Places(Tail(s), x)
    BY <1>1 DEF Places
  <1>5. ASSUME One(Places(s, x)), Head(s) # x
        PROVE  One(Places(Tail(s), x))
    <2>1. PICK i : Places(s, x) = {i}
      BY <1>5 DEF One
    <2>2. i - 1 \in Places(Tail(s), x) /\ i \in Nat
      BY <1>3, <1>4, <1>5, <2>1
    <2>3. \A j \in Places(Tail(s), x) : j = i - 1
      <3> SUFFICES ASSUME NEW j \in Places(Tail(s), x) PROVE j = i - 1
        OBVIOUS
      <3>1. j + 1 = i /\ j \in Nat
        BY <1>2, <2>1
      <3> QED
        BY <2>2, <3>1
    <2> QED
      BY <2>2, <2>3 DEF One
  <1>6. ASSUME One(Places(s, x)), Head(s) = x
        PROVE  Places(Tail(s), x) = {}
    BY <1>2, <1>3, <1>6 DEF One
  <1> QED
    BY <1>2, <1>3, <1>5, <1>6

\* The session's own answer is no line of the CLI.
LEMMA OwnAnswer ==
    /\ Stdout(FakeResponse) \in Event
    /\ FakeResponse \notin Line /\ ~IsBare(FakeResponse)
    /\ \A l : Stdout(l) = Stdout(FakeResponse) => l = FakeResponse
    /\ \A l : Stderr(l) # Stdout(FakeResponse)
    /\ \A c : Exit(c) # Stdout(FakeResponse)
  <1>1. FakeResponse \notin Line
    BY BoundsAssumption DEF FakeResponse, Line
  <1>2. /\ \A l : Stdout(l).line = l /\ Stdout(l).type = "stdout"
        /\ \A l : Stderr(l).type = "stderr"
        /\ \A c : Exit(c).type = "exit"
    BY DEF Stdout, Stderr, Exit
  <1> QED
    BY <1>1, <1>2, EventsBuilt, FakeIsReturned DEF IsBare, FakeResponse

\* An event of stdout is its line.
LEMMA StdoutEvent ==
    ASSUME NEW e \in Event, e.type = "stdout"
    PROVE  e = Stdout(FakeResponse) <=> e.line = FakeResponse
  <1>1. PICK l \in Forwarded : e = Stdout(l)
    BY DEF Event, Stderr, Exit
  <1> QED
    BY <1>1 DEF Stdout

InterceptInv == TypeOK /\ InterceptedOnce

LEMMA InitInterceptInv == Init => InterceptInv
  <1> SUFFICES ASSUME Init PROVE InterceptedOnce
    BY InitTypeOK DEF InterceptInv
  <1>1. fakes = 0 /\ accepted = <<>> /\ chan = <<>> /\ delivered = <<>>
    BY DEF Init
  <1> QED
    BY <1>1 DEF InterceptedOnce, Places

\* An event of a task or of stop, put behind those in the channel, is not the
\* session's answer.
LEMMA OtherEventSent ==
    ASSUME TypeOK, InterceptedOnce, NEW e \in Event, e # Stdout(FakeResponse),
           chan' = Append(chan, e),
           UNCHANGED <<reconnecting, fakes, accepted, delivered>>,
           cliExited => cliExited'
    PROVE  InterceptedOnce'
  <1>1. Places(chan', Stdout(FakeResponse)) = Places(chan, Stdout(FakeResponse))
    BY PlacesAfterAppend DEF TypeOK
  <1> QED
    BY <1>1 DEF InterceptedOnce

LEMMA WriteIntercepts ==
    ASSUME TypeOK, InterceptedOnce,
           NEW kind \in {"initialize", "other"}, Write(kind)
    PROVE  InterceptedOnce'
  <1>1. UNCHANGED <<cliExited, delivered>>
    BY DEF Write
  <1>2. CASE Intercept(kind)
    <2>1. /\ fakes = 0 /\ fakes' = 1 /\ ~reconnecting'
          /\ chan' = Append(chan, Stdout(FakeResponse))
      BY <1>2 DEF Intercept, MustIntercept, InterceptedOnce
    <2>2. ~cliExited =>
             /\ Places(chan, Stdout(FakeResponse)) = {}
             /\ Places(delivered, FakeResponse) = {}
      BY <2>1 DEF InterceptedOnce
    <2>3. ~cliExited => One(Places(chan', Stdout(FakeResponse)))
      BY <2>1, <2>2, OwnAnswer, PlacesAfterAppend DEF TypeOK
    <2> QED
      BY <1>1, <2>1, <2>2, <2>3 DEF InterceptedOnce
  <1>3. CASE SendStdin(kind)
    <2> DEFINE m == [id |-> Len(accepted) + 1, kind |-> kind]
    <2>1. /\ accepted' = Append(accepted, m)
          /\ UNCHANGED <<chan, reconnecting, fakes>>
          /\ reconnecting => m.kind # "initialize"
      BY <1>3 DEF SendStdin, MustIntercept
    <2> HIDE DEF m
    <2>2. ASSUME reconnecting
          PROVE  \A i \in DOMAIN accepted' : accepted'[i].kind # "initialize"
      <3>1. \A i \in DOMAIN accepted : accepted[i].kind # "initialize"
        BY <2>2 DEF InterceptedOnce
      <3>2. accepted \in Seq(HostMessage)
        BY DEF TypeOK
      <3>3. \A i \in DOMAIN accepted' :
               \/ i \in DOMAIN accepted /\ accepted'[i] = accepted[i]
               \/ accepted'[i] = m
        BY <2>1, <3>2
      <3> QED
        BY <2>1, <2>2, <3>1, <3>3
    <2> QED
      BY <1>1, <2>1, <2>2 DEF InterceptedOnce
  <1> QED
    BY <1>2, <1>3 DEF Write

LEMMA ReceiveIntercepts ==
    ASSUME TypeOK, InterceptedOnce, Receive
    PROVE  InterceptedOnce'
  <1> DEFINE e == Head(chan)
  <1>1. /\ chan \in Seq(Event) /\ chan # <<>> /\ chan' = Tail(chan)
        /\ e \in Event /\ delivered \in Seq(Returned)
        /\ UNCHANGED <<reconnecting, fakes, accepted>>
    BY HeadTail DEF Receive, TypeOK, inVars
  <1>2. Discard(e) \/ DropBare(e) \/ ReturnMessage(e) \/ CallBack(e)
          \/ SeeExit(e)
    BY DEF Receive
  <1> HIDE DEF e
  <1>3. /\ Places(chan, Stdout(FakeResponse)) = {} =>
             Places(chan', Stdout(FakeResponse)) = {}
             /\ e # Stdout(FakeResponse)
        /\ One(Places(chan, Stdout(FakeResponse)))
             /\ e = Stdout(FakeResponse) =>
             Places(chan', Stdout(FakeResponse)) = {}
        /\ One(Places(chan, Stdout(FakeResponse)))
             /\ e # Stdout(FakeResponse) =>
             One(Places(chan', Stdout(FakeResponse)))
    BY <1>1, PlacesAfterTail DEF e
  <1>4. CASE ReturnMessage(e)
    <2>1. /\ delivered' = Append(delivered, e.line) /\ ~cliExited
          /\ e.line \in Returned
          /\ e = Stdout(FakeResponse) <=> e.line = FakeResponse
      BY <1>1, <1>4, EventCases, StdoutEvent DEF ReturnMessage
    <2>2. /\ e.line # FakeResponse =>
               Places(delivered', FakeResponse)
                 = Places(delivered, FakeResponse)
          /\ e.line = FakeResponse /\ Places(delivered, FakeResponse) = {} =>
               One(Places(delivered', FakeResponse))
      BY <1>1, <2>1, PlacesAfterAppend
    <2> QED
      BY <1>1, <1>3, <2>1, <2>2 DEF InterceptedOnce
  <1>5. CASE Discard(e) \/ SeeExit(e)
    <2>1. cliExited'
      BY <1>5 DEF Discard, SeeExit
    <2> QED
      BY <1>1, <2>1 DEF InterceptedOnce
  <1>6. CASE DropBare(e) \/ CallBack(e)
    <2>1. e # Stdout(FakeResponse)
      <3>1. CASE DropBare(e)
        BY <1>1, <3>1, OwnAnswer, StdoutEvent DEF DropBare
      <3>2. CASE CallBack(e)
        BY <3>2 DEF CallBack, Stdout
      <3> QED
        BY <1>6, <3>1, <3>2
    <2>2. UNCHANGED <<cliExited, delivered>>
      BY <1>6 DEF DropBare, CallBack
    <2> QED
      BY <1>1, <1>3, <2>1, <2>2 DEF InterceptedOnce
  <1> QED
    BY <1>2, <1>4, <1>5, <1>6

LEMMA NextInterceptInv == InterceptInv /\ [Next]_vars => InterceptInv'
  <1> SUFFICES ASSUME TypeOK, InterceptedOnce, [Next]_vars
               PROVE  InterceptedOnce'
    BY NextTypeOK DEF InterceptInv
  <1>1. ASSUME UNCHANGED <<chan, reconnecting, fakes, accepted, delivered>>,
               cliExited => cliExited'
        PROVE  InterceptedOnce'
    BY <1>1 DEF InterceptedOnce
  <1>2. CASE ForwardStdout
    <2>1. UNCHANGED <<reconnecting, fakes, accepted, delivered, cliExited>>
      BY <1>2 DEF ForwardStdout, inVars, hostVars
    <2>2. CASE Head(outPipe).kind = "junk"
      BY <1>1, <1>2, <2>1, <2>2 DEF ForwardStdout
    <2>3. CASE Head(outPipe).kind # "junk"
      <3>1. Head(outPipe) \in Line
        BY <1>2, HeadTail DEF ForwardStdout, TypeOK
      <3>2. Head(outPipe) \in Forwarded
        BY <1>2, <2>3, <3>1
           DEF ForwardStdout, Line, LineKinds, Forwarded, Returned
      <3>3. /\ Stdout(Head(outPipe)) \in Event
            /\ Stdout(Head(outPipe)) # Stdout(FakeResponse)
        BY <3>1, <3>2, EventsBuilt, OwnAnswer
      <3>4. chan' = Append(chan, Stdout(Head(outPipe)))
        BY <1>2, <2>3 DEF ForwardStdout
      <3> QED
        BY <2>1, <3>3, <3>4, OtherEventSent
    <2> QED
      BY <2>2, <2>3
  <1>3. CASE ForwardStderr
    <2>1. /\ Stderr(Head(errPipe)) \in Event
          /\ Stderr(Head(errPipe)) # Stdout(FakeResponse)
      BY <1>3, HeadTail, EventsBuilt, OwnAnswer DEF ForwardStderr, TypeOK
    <2>2. /\ chan' = Append(chan, Stderr(Head(errPipe)))
          /\ UNCHANGED <<reconnecting, fakes, accepted, delivered, cliExited>>
      BY <1>3 DEF ForwardStderr, inVars, hostVars
    <2> QED
      BY <2>1, <2>2, OtherEventSent
  <1>4. CASE SendExit
    <2>1. /\ Exit(exitStatus) \in Event
          /\ Exit(exitStatus) # Stdout(FakeResponse)
      BY EventsBuilt, OwnAnswer DEF TypeOK
    <2>2. /\ chan' = Append(chan, Exit(exitStatus))
          /\ UNCHANGED <<reconnecting, fakes, accepted, delivered, cliExited>>
      BY <1>4 DEF SendExit, inVars, hostVars
    <2> QED
      BY <2>1, <2>2, OtherEventSent
  <1>5. CASE Stop
    <2>1. Exit(NoCode) \in Event /\ Exit(NoCode) # Stdout(FakeResponse)
      BY EventsBuilt, OwnAnswer
    <2>2. /\ chan' = Append(chan, Exit(NoCode)) /\ cliExited'
          /\ UNCHANGED <<reconnecting, fakes, accepted, delivered>>
      BY <1>5 DEF Stop, inVars
    <2> QED
      BY <2>1, <2>2, OtherEventSent
  <1>6. CASE Host
    <2>1. CASE ReadMessage \/ CancelRead \/ Close \/ SendSignal
      BY <1>1, <2>1 DEF ReadMessage, CancelRead, Close, SendSignal, inVars,
                        hostVars
    <2> QED
      BY <1>5, <1>6, <2>1, WriteIntercepts, ReceiveIntercepts DEF Host
  <1>7. CASE Cli \/ ReusePid \/ BackendKills \/ EndStdout \/ EndStderr
                 \/ StdinWriter \/ Reap
    BY <1>1, <1>7 DEF Cli, CliPrint, CliLog, CliReads, CliClosesStdin,
                      CliExit, ReusePid, BackendKills, EndStdout, EndStderr,
                      StdinWriter, WriteStdin, FailStdin, Reap, inVars,
                      hostVars
  <1>8. CASE UNCHANGED vars
    BY <1>1, <1>8 DEF vars, inVars, hostVars
  <1> QED
    BY <1>2, <1>3, <1>4, <1>6, <1>7, <1>8
       DEF Next, StdoutReader, StderrReader, WaitTask

\* A reconnecting session answers initialize itself exactly once, before any
\* reaches the CLI, and its answer is neither lost nor doubled.
THEOREM Intercepted == Spec => []InterceptedOnce
  <1>1. Init => InterceptInv
    BY InitInterceptInv
  <1>2. InterceptInv /\ [Next]_vars => InterceptInv'
    BY NextInterceptInv
  <1>3. InterceptInv => InterceptedOnce
    BY DEF InterceptInv
  <1> QED
    BY <1>1, <1>2, <1>3, PTL DEF Spec

-----------------------------------------------------------------------------
(* The session implements the abstract stream.                             *)

\* What the channel and the pipe bring, as functions on events and lines.
OfEvents == [e \in Event |-> EventMessages(e)]
OfLines  == [l \in Line |-> LineMessages(l)]

LEMMA BroughtTypes ==
    /\ OfEvents \in [Event -> Seq(Returned)]
    /\ OfLines \in [Line -> Seq(Returned)]
  <1>1. ASSUME NEW e \in Event PROVE EventMessages(e) \in Seq(Returned)
    <2>1. CASE IsMessageEvent(e)
      <3>1. e.line \in Returned
        BY <2>1, EventCases DEF IsMessageEvent, IsMessage, IsBare
      <3> QED
        BY <2>1, <3>1 DEF EventMessages
    <2>2. CASE ~IsMessageEvent(e)
      BY <2>2 DEF EventMessages
    <2> QED
      BY <2>1, <2>2
  <1>2. ASSUME NEW l \in Line PROVE LineMessages(l) \in Seq(Returned)
    <2>1. CASE IsMessage(l)
      <3>1. l \in Returned
        BY <2>1 DEF IsMessage, Returned
      <3> QED
        BY <2>1, <3>1 DEF LineMessages
    <2>2. CASE ~IsMessage(l)
      BY <2>2 DEF LineMessages
    <2> QED
      BY <2>1, <2>2
  <1> QED
    BY <1>1, <1>2 DEF OfEvents, OfLines

LEMMA InChanIsEach == \A s \in Seq(Event) : InChan(s) = Each(OfEvents, s)
  <1> SUFFICES ASSUME NEW s \in Seq(Event) PROVE InChan(s) = Each(OfEvents, s)
    OBVIOUS
  <1>1. \A i \in DOMAIN s : s[i] \in Event
    OBVIOUS
  <1>2. [i \in DOMAIN s |-> EventMessages(s[i])] = [i \in DOMAIN s |-> OfEvents[s[i]]]
    BY <1>1 DEF OfEvents
  <1> QED
    BY <1>2 DEF InChan, Each, Of

LEMMA InPipeIsEach == \A s \in Seq(Line) : InPipe(s) = Each(OfLines, s)
  <1> SUFFICES ASSUME NEW s \in Seq(Line) PROVE InPipe(s) = Each(OfLines, s)
    OBVIOUS
  <1>1. \A i \in DOMAIN s : s[i] \in Line
    OBVIOUS
  <1>2. [i \in DOMAIN s |-> LineMessages(s[i])] = [i \in DOMAIN s |-> OfLines[s[i]]]
    BY <1>1 DEF OfLines
  <1> QED
    BY <1>2 DEF InPipe, Each, Of

\* The channel's messages, as events are sent and received.
LEMMA ChanBrings ==
    ASSUME NEW s \in Seq(Event)
    PROVE  /\ InChan(s) \in Seq(Returned)
           /\ \A e \in Event : InChan(Append(s, e)) = InChan(s) \o EventMessages(e)
           /\ s # <<>> => InChan(s) = EventMessages(Head(s)) \o InChan(Tail(s))
  <1>1. InChan(s) \in Seq(Returned)
    BY BroughtTypes, InChanIsEach, EachType, SMTT(60)
  <1>2. ASSUME NEW e \in Event
        PROVE  InChan(Append(s, e)) = InChan(s) \o EventMessages(e)
    <2>1. Each(OfEvents, Append(s, e)) = Each(OfEvents, s) \o OfEvents[e]
      BY BroughtTypes, EachAppend
    <2>2. Append(s, e) \in Seq(Event)
      BY AppendProperties
    <2> QED
      BY <2>1, <2>2, InChanIsEach DEF OfEvents
  <1>3. ASSUME s # <<>>
        PROVE  InChan(s) = EventMessages(Head(s)) \o InChan(Tail(s))
    <2>1. Each(OfEvents, s) = OfEvents[Head(s)] \o Each(OfEvents, Tail(s))
      BY <1>3, BroughtTypes, EachHead
    <2>2. Head(s) \in Event /\ Tail(s) \in Seq(Event)
      BY <1>3, HeadTail
    <2> QED
      BY <2>1, <2>2, InChanIsEach DEF OfEvents
  <1> QED
    BY <1>1, <1>2, <1>3

LEMMA PipeBrings ==
    ASSUME NEW s \in Seq(Line)
    PROVE  /\ InPipe(s) \in Seq(Returned)
           /\ \A l \in Line : InPipe(Append(s, l)) = InPipe(s) \o LineMessages(l)
           /\ s # <<>> => InPipe(s) = LineMessages(Head(s)) \o InPipe(Tail(s))
  <1>1. InPipe(s) \in Seq(Returned)
    BY BroughtTypes, InPipeIsEach, EachType
  <1>2. ASSUME NEW l \in Line
        PROVE  InPipe(Append(s, l)) = InPipe(s) \o LineMessages(l)
    <2>1. Each(OfLines, Append(s, l)) = Each(OfLines, s) \o OfLines[l]
      BY BroughtTypes, EachAppend
    <2>2. Append(s, l) \in Seq(Line)
      BY AppendProperties
    <2> QED
      BY <2>1, <2>2, InPipeIsEach DEF OfLines
  <1>3. ASSUME s # <<>>
        PROVE  InPipe(s) = LineMessages(Head(s)) \o InPipe(Tail(s))
    <2>1. Each(OfLines, s) = OfLines[Head(s)] \o Each(OfLines, Tail(s))
      BY <1>3, BroughtTypes, EachHead
    <2>2. Head(s) \in Line /\ Tail(s) \in Seq(Line)
      BY <1>3, HeadTail
    <2> QED
      BY <2>1, <2>2, InPipeIsEach DEF OfLines
  <1> QED
    BY <1>1, <1>2, <1>3

LEMMA NothingBrings == InChan(<<>>) = <<>> /\ InPipe(<<>>) = <<>>
  <1>1. <<>> \in Seq(Event) /\ <<>> \in Seq(Line)
    BY EmptySeq
  <1> QED
    BY <1>1, InChanIsEach, InPipeIsEach, EachEmpty

StreamStep == Stream!Next \/ UNCHANGED Stream!vars

LEMMA StreamStepIs == StreamStep => [Stream!Next]_Stream!vars
  BY DEF StreamStep

\* What the stream sees of the CLI and of the stdout reader.
Feed == outReader = "open"
Sent == InPipe(printed)

\* The ways in which a step of the session is one of the stream, or none.
LEMMA Stutters ==
    ASSUME Sent' = Sent, OnTheWay' = OnTheWay, delivered' = delivered,
           Feed' = Feed, cliExited' = cliExited
    PROVE  StreamStep
  BY DEF StreamStep, Stream!vars, Feed, Sent

LEMMA Produces ==
    ASSUME NEW m \in Line, IsMessage(m), cliExited' = cliExited,
           Feed, Feed' = Feed, Sent' = Append(Sent, m),
           delivered' = delivered,
           OnTheWay' = IF cliExited THEN OnTheWay ELSE Append(OnTheWay, m)
    PROVE  StreamStep
  BY DEF StreamStep, Stream!Next, Stream!Produce, Feed, Sent

LEMMA Fabricates ==
    ASSUME NEW a \in Seq(Returned), NEW b \in Seq(Returned),
           ~cliExited, cliExited' = cliExited, delivered' = delivered,
           Sent' = Sent, Feed' = Feed,
           OnTheWay = a \o b, OnTheWay' = (a \o <<FakeResponse>>) \o b
    PROVE  StreamStep
  <1> DEFINE i == Len(a) + 1
  <1>1. /\ i \in 1..Len(a \o b) + 1
        /\ InsertAt(a \o b, i, FakeResponse) = (a \o <<FakeResponse>>) \o b
    BY InsertBetween
  <1> HIDE DEF i
  <1>2. OnTheWay' = InsertAt(OnTheWay, i, FakeResponse) /\ i \in 1..Len(OnTheWay) + 1
    BY <1>1
  <1> QED
    BY <1>2 DEF StreamStep, Stream!Next, Stream!Fabricate, Stream!InsertAt,
                InsertAt, Feed, Sent

LEMMA Delivers ==
    ASSUME NEW m \in Returned, NEW rest \in Seq(Returned),
           ~cliExited, cliExited' = cliExited, Sent' = Sent, Feed' = Feed,
           OnTheWay = <<m>> \o rest, OnTheWay' = rest,
           delivered' = Append(delivered, m)
    PROVE  StreamStep
  <1>1. /\ <<m>> \o rest # <<>> /\ Head(<<m>> \o rest) = m
        /\ Tail(<<m>> \o rest) = rest
    OBVIOUS
  <1> QED
    BY <1>1 DEF StreamStep, Stream!Next, Stream!Deliver, Feed, Sent

LEMMA Cuts ==
    ASSUME NEW a \in Seq(Returned), NEW b \in Seq(Returned),
           Feed, ~Feed', Sent' = Sent,
           cliExited' = cliExited, delivered' = delivered,
           OnTheWay = a \o b, OnTheWay' = a
    PROVE  StreamStep
  <1>1. /\ Len(a) \in 0..Len(OnTheWay)
        /\ OnTheWay' = SubSeq(OnTheWay, 1, Len(a))
    BY FrontOfJoin
  <1>2. (outReader = "open")' = FALSE
    BY DEF Feed
  <1> QED
    BY <1>1, <1>2 DEF StreamStep, Stream!Next, Stream!Cut, Feed, Sent

LEMMA Ends ==
    ASSUME ~cliExited, cliExited' = TRUE, delivered' = delivered,
           Sent' = Sent, Feed' = Feed
    PROVE  StreamStep
  <1>1. OnTheWay' = <<>>
    BY DEF OnTheWay
  <1> QED
    BY <1>1 DEF StreamStep, Stream!Next, Stream!End, Feed, Sent

\* What the steps of the CLI, the tasks and the host are to the stream.
LEMMA PrintStreams ==
    ASSUME TypeOK, NEW kind \in LineKinds, CliPrint(kind)
    PROVE  StreamStep
  <1> DEFINE l == [id |-> Len(printed) + 1, kind |-> kind]
  <1>1. /\ outPipe' = Append(outPipe, l) /\ chan' = chan
        /\ printed' = Append(printed, l)
        /\ delivered' = delivered /\ cliExited' = cliExited
        /\ Feed /\ Feed' = Feed
    BY DEF CliPrint, hostVars, Feed
  <1>2. l \in Line
    BY BoundsAssumption DEF CliPrint, TypeOK, Line
  <1> HIDE DEF l
  <1>3. /\ InChan(chan) \in Seq(Returned) /\ InPipe(outPipe) \in Seq(Returned)
        /\ InPipe(outPipe') = InPipe(outPipe) \o LineMessages(l)
        /\ Sent \in Seq(Returned) /\ Sent' = Sent \o LineMessages(l)
    BY <1>1, <1>2, ChanBrings, PipeBrings DEF TypeOK, Sent
  <1>4. ~cliExited =>
          /\ OnTheWay = InChan(chan) \o InPipe(outPipe)
          /\ OnTheWay' = InChan(chan) \o (InPipe(outPipe) \o LineMessages(l))
    BY <1>1, <1>3 DEF OnTheWay
  <1>5. cliExited => OnTheWay' = OnTheWay
    BY <1>1 DEF OnTheWay
  <1>6. CASE IsMessage(l)
    <2>1. LineMessages(l) = <<l>> /\ l \in Returned /\ <<l>> \in Seq(Returned)
      BY <1>2, <1>6 DEF LineMessages, Returned, IsMessage
    <2>2. Sent' = Append(Sent, l)
      BY <1>3, <2>1, AppendIsConcat
    <2>3. ASSUME ~cliExited PROVE OnTheWay' = Append(OnTheWay, l)
      <3>1. /\ OnTheWay = InChan(chan) \o InPipe(outPipe)
            /\ OnTheWay' = InChan(chan) \o (InPipe(outPipe) \o <<l>>)
        BY <1>4, <2>1, <2>3
      <3>2. OnTheWay \in Seq(Returned) /\ OnTheWay' = OnTheWay \o <<l>>
        BY <1>3, <2>1, <3>1, Regroup
      <3> QED
        BY <2>1, <3>2, AppendIsConcat
    <2> QED
      BY <1>1, <1>2, <1>5, <1>6, <2>2, <2>3, Produces
  <1>7. CASE ~IsMessage(l)
    <2>1. LineMessages(l) = <<>>
      BY <1>7 DEF LineMessages
    <2>2. OnTheWay' = OnTheWay /\ Sent' = Sent
      BY <1>3, <1>4, <1>5, <2>1, Regroup
    <2> QED
      BY <1>1, <2>2, Stutters
  <1> QED
    BY <1>6, <1>7

\* An event that brings no message.
LEMMA OtherSent ==
    ASSUME TypeOK, NEW e \in Event, ~IsMessageEvent(e),
           chan' = Append(chan, e), outPipe' = outPipe,
           delivered' = delivered, cliExited' = cliExited,
           printed' = printed, outReader' = outReader
    PROVE  StreamStep
  <1>1. /\ InChan(chan) \in Seq(Returned)
        /\ InChan(chan') = InChan(chan) \o EventMessages(e)
    BY ChanBrings DEF TypeOK
  <1>2. EventMessages(e) = <<>>
    BY DEF EventMessages
  <1>3. InChan(chan') = InChan(chan)
    BY <1>1, <1>2, Regroup
  <1> QED
    BY <1>3, Stutters DEF OnTheWay, Feed, Sent

LEMMA ForwardStreams ==
    ASSUME TypeOK, ForwardStdout
    PROVE  StreamStep
  <1> DEFINE l == Head(outPipe)
             rest == Tail(outPipe)
             a == InChan(chan)
             b == InPipe(rest)
  <1>1. /\ outPipe # <<>> /\ outPipe' = rest
        /\ chan' = IF l.kind = "junk" THEN chan ELSE Append(chan, Stdout(l))
        /\ l.kind # "undecodable"
        /\ delivered' = delivered /\ cliExited' = cliExited
        /\ Sent' = Sent /\ Feed' = Feed
    BY DEF ForwardStdout, hostVars, Sent, Feed
  <1>2. /\ l \in Line /\ rest \in Seq(Line) /\ chan \in Seq(Event)
        /\ outPipe \in Seq(Line)
    BY <1>1, HeadTail DEF TypeOK
  <1>3. /\ a \in Seq(Returned) /\ b \in Seq(Returned)
        /\ InPipe(outPipe) = LineMessages(l) \o b
        /\ LineMessages(l) \in Seq(Returned)
    <2>1. LineMessages(l) \in Seq(Returned)
      BY <1>2, BroughtTypes DEF OfLines
    <2> QED
      BY <1>1, <1>2, <2>1, ChanBrings, PipeBrings
  <1>4. InChan(chan') = a \o LineMessages(l)
    <2>1. CASE l.kind = "junk"
      <3>1. LineMessages(l) = <<>> /\ chan' = chan
        BY <1>1, <2>1 DEF LineMessages, IsMessage
      <3> QED
        BY <1>3, <3>1, Regroup
    <2>2. CASE l.kind # "junk"
      <3>1. l \in Forwarded
        BY <1>1, <1>2, <2>2 DEF Line, LineKinds, Forwarded, Returned
      <3>2. Stdout(l) \in Event /\ chan' = Append(chan, Stdout(l))
        BY <1>1, <2>2, <3>1, EventsBuilt
      <3>3. EventMessages(Stdout(l)) = LineMessages(l)
        BY DEF EventMessages, LineMessages, IsMessageEvent, Stdout
      <3> QED
        BY <1>2, <3>2, <3>3, ChanBrings
    <2> QED
      BY <2>1, <2>2
  <1>5. CASE cliExited
    BY <1>1, <1>5, Stutters DEF OnTheWay
  <1>6. CASE ~cliExited
    <2>1. /\ OnTheWay = a \o (LineMessages(l) \o b)
          /\ OnTheWay' = (a \o LineMessages(l)) \o b
      BY <1>1, <1>3, <1>4, <1>6 DEF OnTheWay
    <2>2. OnTheWay' = OnTheWay
      <3> HIDE DEF a, b, l
      <3> QED
        BY <1>3, <2>1, Regroup
    <2> QED
      BY <1>1, <2>2, Stutters
  <1> QED
    BY <1>5, <1>6

LEMMA EndStdoutStreams ==
    ASSUME TypeOK, EndStdout
    PROVE  StreamStep
  <1>1. /\ outPipe' = <<>> /\ chan' = chan
        /\ delivered' = delivered /\ cliExited' = cliExited
        /\ Sent' = Sent /\ Feed /\ ~Feed'
    BY DEF EndStdout, hostVars, Sent, Feed
  <1>2. ASSUME cliExited PROVE StreamStep
    <2>1. OnTheWay = <<>> \o <<>> /\ OnTheWay' = <<>> /\ <<>> \in Seq(Returned)
      BY <1>1, <1>2, ConcatEmptySeq, EmptySeq DEF OnTheWay
    <2> QED
      BY <1>1, <2>1, Cuts
  <1>3. ASSUME ~cliExited PROVE StreamStep
    <2>1. InChan(chan) \in Seq(Returned) /\ InPipe(outPipe) \in Seq(Returned)
      BY ChanBrings, PipeBrings DEF TypeOK
    <2>2. /\ OnTheWay = InChan(chan) \o InPipe(outPipe)
          /\ OnTheWay' = InChan(chan) \o <<>>
      BY <1>1, <1>3, NothingBrings DEF OnTheWay
    <2>3. OnTheWay' = InChan(chan)
      BY <2>1, <2>2, Regroup
    <2> QED
      BY <1>1, <1>3, <2>1, <2>2, <2>3, Cuts
  <1> QED
    BY <1>2, <1>3

LEMMA WriteStreams ==
    ASSUME TypeOK, NEW kind, Write(kind)
    PROVE  StreamStep
  <1>1. /\ outPipe' = outPipe /\ delivered' = delivered /\ cliExited' = cliExited
        /\ chan' = chan \/ chan' = Append(chan, Stdout(FakeResponse))
        /\ Sent' = Sent /\ Feed' = Feed
    BY DEF Write, Intercept, SendStdin, outVars, Sent, Feed
  <1>2. CASE chan' = chan
    BY <1>1, <1>2, Stutters DEF OnTheWay
  <1>3. CASE cliExited
    BY <1>1, <1>3, Stutters DEF OnTheWay
  <1>4. ASSUME ~cliExited, chan' = Append(chan, Stdout(FakeResponse))
        PROVE  StreamStep
    <2>1. Stdout(FakeResponse) \in Event
      BY FakeIsReturned, EventsBuilt
    <2>2. EventMessages(Stdout(FakeResponse)) = <<FakeResponse>>
      BY DEF EventMessages, IsMessageEvent, IsMessage, Stdout, FakeResponse
    <2>3. /\ InChan(chan) \in Seq(Returned) /\ InPipe(outPipe) \in Seq(Returned)
          /\ InChan(chan') = InChan(chan) \o <<FakeResponse>>
      BY <1>4, <2>1, <2>2, ChanBrings, PipeBrings DEF TypeOK
    <2>4. /\ OnTheWay = InChan(chan) \o InPipe(outPipe)
          /\ OnTheWay' = (InChan(chan) \o <<FakeResponse>>) \o InPipe(outPipe)
      BY <1>1, <1>4, <2>3 DEF OnTheWay
    <2> QED
      BY <1>1, <1>4, <2>3, <2>4, Fabricates
  <1> QED
    BY <1>1, <1>2, <1>3, <1>4

LEMMA ReceiveStreams ==
    ASSUME TypeOK, Receive
    PROVE  StreamStep
  <1> DEFINE e == Head(chan)
             rest == Tail(chan)
             b == InPipe(outPipe)
  <1>1. /\ chan # <<>> /\ chan' = rest /\ outPipe' = outPipe
        /\ Discard(e) \/ DropBare(e) \/ ReturnMessage(e) \/ CallBack(e) \/ SeeExit(e)
        /\ Sent' = Sent /\ Feed' = Feed
    BY DEF Receive, outVars, Sent, Feed
  <1>2. e \in Event /\ rest \in Seq(Event)
    BY <1>1, HeadTail DEF TypeOK
  <1>3. /\ InChan(rest) \in Seq(Returned) /\ b \in Seq(Returned)
        /\ InChan(chan) = EventMessages(e) \o InChan(rest)
        /\ EventMessages(e) \in Seq(Returned)
    <2>1. EventMessages(e) \in Seq(Returned)
      BY <1>2, BroughtTypes DEF OfEvents
    <2> QED
      BY <1>1, <1>2, <2>1, ChanBrings, PipeBrings DEF TypeOK
  <1>4. CASE Discard(e)
    BY <1>1, <1>4, Stutters DEF Discard, OnTheWay
  <1>5. CASE SeeExit(e)
    BY <1>1, <1>5, Ends DEF SeeExit
  <1>6. ASSUME ~cliExited, cliExited' = cliExited, delivered' = delivered,
               ~IsMessageEvent(e)
        PROVE  StreamStep
    <2>1. EventMessages(e) = <<>>
      BY <1>6 DEF EventMessages
    <2>2. InChan(chan) = InChan(rest)
      BY <1>3, <2>1, Regroup
    <2>3. OnTheWay' = OnTheWay
      BY <1>1, <1>6, <2>2 DEF OnTheWay
    <2> QED
      BY <1>1, <1>6, <2>3, Stutters
  <1>7. CASE DropBare(e)
    <2>1. ~IsMessageEvent(e)
      BY <1>7 DEF DropBare, IsBare, IsMessageEvent, IsMessage
    <2> QED
      BY <1>6, <1>7, <2>1 DEF DropBare
  <1>8. CASE CallBack(e)
    <2>1. ~IsMessageEvent(e)
      BY <1>8 DEF CallBack, IsMessageEvent
    <2> QED
      BY <1>6, <1>8, <2>1 DEF CallBack
  <1>9. CASE ReturnMessage(e)
    <2>1. /\ ~cliExited /\ cliExited' = cliExited
          /\ delivered' = Append(delivered, e.line)
          /\ e.type = "stdout" /\ ~IsBare(e.line)
      BY <1>9 DEF ReturnMessage
    <2>2. e.line \in Returned
      BY <1>2, <2>1, EventCases
    <2>3. EventMessages(e) = <<e.line>>
      <3>1. IsMessage(e.line)
        BY <2>2 DEF Returned, IsMessage, FakeResponse
      <3> QED
        BY <2>1, <3>1 DEF EventMessages, IsMessageEvent
    <2>4. /\ OnTheWay = (<<e.line>> \o InChan(rest)) \o b
          /\ OnTheWay' = InChan(rest) \o b
      BY <1>1, <1>3, <2>1, <2>3 DEF OnTheWay
    <2>5. /\ OnTheWay = <<e.line>> \o (InChan(rest) \o b)
          /\ InChan(rest) \o b \in Seq(Returned)
      <3>1. <<e.line>> \in Seq(Returned)
        BY <2>2
      <3> HIDE DEF b, e, rest
      <3> QED
        BY <1>3, <2>4, <3>1, Regroup
    <2> QED
      BY <1>1, <2>1, <2>2, <2>4, <2>5, Delivers
  <1> QED
    BY <1>1, <1>4, <1>5, <1>7, <1>8, <1>9

LEMMA StreamSimulates == TypeOK /\ [Next]_vars => StreamStep
  <1> SUFFICES ASSUME TypeOK, [Next]_vars PROVE StreamStep
    OBVIOUS
  <1>1. ASSUME UNCHANGED <<chan, outVars, delivered, cliExited>> PROVE StreamStep
    BY <1>1, Stutters DEF OnTheWay, outVars, Feed, Sent
  <1>2. ASSUME Cli PROVE StreamStep
    BY <1>1, <1>2, PrintStreams
       DEF Cli, CliLog, CliReads, CliClosesStdin, CliExit, outVars, hostVars
  <1>3. ASSUME StdoutReader PROVE StreamStep
    BY <1>3, ForwardStreams, EndStdoutStreams DEF StdoutReader
  <1>4. ASSUME StderrReader PROVE StreamStep
    <2>1. ASSUME ForwardStderr PROVE StreamStep
      <3>1. Head(errPipe) \in ErrLine
        BY <2>1, HeadTail DEF ForwardStderr, TypeOK
      <3>2. Stderr(Head(errPipe)) \in Event /\ ~IsMessageEvent(Stderr(Head(errPipe)))
        BY <3>1, EventsBuilt DEF IsMessageEvent, Stderr
      <3> QED
        BY <2>1, <3>2, OtherSent DEF ForwardStderr, outVars, hostVars
    <2>2. ASSUME EndStderr PROVE StreamStep
      BY <1>1, <2>2 DEF EndStderr, outVars, hostVars
    <2> QED
      BY <1>4, <2>1, <2>2 DEF StderrReader
  <1>5. ASSUME StdinWriter \/ ReusePid \/ BackendKills PROVE StreamStep
    BY <1>1, <1>5 DEF StdinWriter, WriteStdin, FailStdin, ReusePid,
                      BackendKills, outVars, hostVars
  <1>6. ASSUME WaitTask PROVE StreamStep
    <2>1. ASSUME SendExit PROVE StreamStep
      <3>1. Exit(exitStatus) \in Event /\ ~IsMessageEvent(Exit(exitStatus))
        BY EventsBuilt DEF TypeOK, IsMessageEvent, Exit
      <3> QED
        BY <2>1, <3>1, OtherSent DEF SendExit, outVars, hostVars
    <2>2. ASSUME Reap PROVE StreamStep
      BY <1>1, <2>2 DEF Reap, outVars, hostVars
    <2> QED
      BY <1>6, <2>1, <2>2 DEF WaitTask
  <1>7. ASSUME Host PROVE StreamStep
    <2>1. ASSUME ReadMessage \/ CancelRead \/ Close \/ SendSignal PROVE StreamStep
      BY <1>1, <2>1 DEF ReadMessage, CancelRead, Close, SendSignal, outVars, hostVars
    <2>2. ASSUME Stop PROVE StreamStep
      BY <2>2, Ends DEF Stop, outVars, Feed, Sent
    <2> QED
      BY <1>7, <2>1, <2>2, WriteStreams, ReceiveStreams DEF Host
  <1>8. CASE UNCHANGED vars
    BY <1>1, <1>8 DEF vars, outVars, hostVars
  <1> QED
    BY <1>2, <1>3, <1>4, <1>5, <1>6, <1>7, <1>8 DEF Next

LEMMA StreamInit == Init => Stream!Init
  <1> SUFFICES ASSUME Init PROVE Stream!Init
    OBVIOUS
  <1>1. /\ chan = <<>> /\ outPipe = <<>> /\ delivered = <<>> /\ cliExited = FALSE
        /\ printed = <<>> /\ outReader = "open"
    BY DEF Init
  <1>2. <<>> \o <<>> = <<>>
    BY ConcatEmptySeq, EmptySeq
  <1>3. OnTheWay = <<>>
    BY <1>1, <1>2, NothingBrings DEF OnTheWay
  <1> QED
    BY <1>1, <1>3, NothingBrings DEF Stream!Init

\* session.rs: what a session returns is what the abstract stream allows, for
\* any number of lines and messages: what the CLI prints comes out in order,
\* each message once, none skipped until the stdout reader or the session ends,
\* nothing after the end, and a read that is cancelled loses nothing.
THEOREM RefinesStream == Spec => ImplementsStream
  <1>1. Init => Stream!Init
    BY StreamInit
  <1>2. TypeOK /\ [Next]_vars => [Stream!Next]_Stream!vars
    BY StreamSimulates, StreamStepIs
  <1> QED
    BY <1>1, <1>2, TypeCorrect, PTL DEF Spec, ImplementsStream, Stream!Spec
=============================================================================
