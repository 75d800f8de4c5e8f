------------------------- MODULE BridgeTransport_proofs -------------------------
(***************************************************************************)
(* Proofs about BridgeTransport for every set of transports, names,        *)
(* processes, queues and tasks: type correctness, at most one message      *)
(* after the end of the stream, the one initialize request a reconnecting  *)
(* transport keeps, what stop and close do to the processes of others, and *)
(* the one answer a permission request gets.                               *)
(***************************************************************************)
EXTENDS BridgeTransport, DirectConnection_proofs

-----------------------------------------------------------------------------
(* Types.                                                                  *)

\* What a queue holds: what processes sent, the exit stop injects and the
\* answer a reconnecting transport makes up.
Handled == Sent \union {StopEvent, Stdout(FakeResponse)}

\* What a CLI reads.
Input == [from : Transports, kind : {"initialize", "user"}]
         \union [from : Deciding, kind : {"response"},
                 to : {l \in Line : IsRequest(l)}]

Yielded == {l \in Line : l.kind \in {"message", "invalid", "request",
                                     "invalid request"}} \union {FakeResponse}
Yielding(t) == {l \in Yielded : ~Decides(t, l)}

BridgeTypeOK ==
    /\ content \in [Queues -> Seq(Handled)]
    /\ tp \in [Transports -> Transport]
    /\ rd \in [Transports -> Reader]
    /\ op \in [Tasks -> Op]
    /\ delivered \in [Transports -> Seq(Yielded)]
    /\ late \in [Transports -> Nat]
    /\ received \in [Procs -> Seq(Input)]
    /\ writes \in 0..MaxWrites
    /\ fakes \in [Transports -> Nat]

\* A generator that reads has a queue; what it shows to a callback or to the
\* policy is a line a CLI printed.
ReaderShape ==
    \A t \in Transports :
      /\ rd[t].at # "idle" => tp[t].queue # None
      /\ rd[t].at = "get" => rd[t].queue \in Queues
      /\ rd[t].at = "validate" => rd[t].line \in Line /\ Flawed(rd[t].line)
      /\ rd[t].at = "policy" => rd[t].line \in Line /\ Decides(t, rd[t].line)
      /\ delivered[t] \in Seq(Yielding(t))

\* A task is in a call of a transport, a kill is at work on a process that
\* was there when the call began, and a write that waits for the callback has
\* a message to send.
OpShape ==
    \A k \in Tasks :
      /\ op[k].op # "none" => op[k].t \in Transports
      /\ op[k].op \in {"none", "write"} => call[k] = Idle
      /\ op[k].op = "write" =>
           /\ op[k].item \in {"initialize", "user"}
           /\ ~MustIntercept(op[k].t, op[k].item)
      /\ call[k].at \in {"wait", "readers"} => call[k].proc \in op[k].saw

Safe == ObjectsTypeOK /\ ConnShape /\ BridgeTypeOK /\ ReaderShape /\ OpShape

LEMMA FakeApart == FakeResponse \notin Line
  BY NoneAssumption DEF FakeResponse, Line

LEMMA InitSafe == Init => Safe
  <1> SUFFICES ASSUME Init PROVE Safe
    OBVIOUS
  <1>1. ConnTypeOK /\ ConnShape /\ ConnInit
    BY ConnInitTypeOK, ConnInitShape DEF Init
  <1>2. ObjectsTypeOK
    BY <1>1, TypeParts
  <1>3. BridgeTypeOK
    <2>1. content \in [Queues -> Seq(Handled)]
      BY <1>1 DEF ConnInit
    <2>2. tp \in [Transports -> Transport]
      BY DEF Init, Transport
    <2>3. NotReading \in Reader
      BY DEF NotReading, Reader
    <2>4. NoOp \in Op
      BY DEF NoOp, Op
    <2>5. 0 \in 0..MaxWrites
      BY MaxWritesAssumption
    <2> QED
      BY <2>1, <2>2, <2>3, <2>4, <2>5 DEF Init, BridgeTypeOK
  <1>4. ReaderShape
    <2>1. \A t \in Transports : delivered[t] \in Seq(Yielding(t))
      BY DEF Init
    <2> QED
      BY <2>1 DEF Init, ReaderShape, NotReading
  <1>5. OpShape
    BY <1>1 DEF Init, OpShape, NoOp, ConnInit, Idle
  <1> QED
    BY <1>1, <1>2, <1>3, <1>4, <1>5 DEF Safe

-----------------------------------------------------------------------------
(* The connection's part of the state.                                     *)

LEMMA NamesOf == ASSUME NEW t \in Transports PROVE NameOf[t] \in Names
  BY NameOfAssumption

\* A step that leaves the objects alone.
LEMMA ObjectsKept ==
    ASSUME ObjectsTypeOK, ConnShape,
           UNCHANGED <<processes, queues, made, lp, call, printed>>
    PROVE  ObjectsTypeOK' /\ ConnShape'
  BY DEF ObjectsTypeOK, ConnShape, CallShape, ProcessShape, EnteredShape, Alive

LEMMA ConnectSafe ==
    ASSUME ObjectsTypeOK, ConnShape, NEW t \in Transports, Connect(t)
    PROVE  ObjectsTypeOK' /\ ConnShape'
  <1>1. ClientRegister(NameOf[t])
    BY DEF Connect, ClientRegister
  <1> QED
    BY <1>1, NamesOf, ClientsTypeOK

LEMMA StopCloseSafe ==
    ASSUME ObjectsTypeOK, ConnShape, NEW t \in Transports, NEW k \in Tasks,
           Stop(k, t) \/ \E name \in Calls : Close(k, name, t)
    PROVE  ObjectsTypeOK' /\ ConnShape'
  <1>1. CASE KillBegin(k, NameOf[t]) /\ UNCHANGED <<processes, queues, made, printed>>
    BY <1>1, NamesOf, KillBeginSafe
  <1>2. CASE UNCHANGED <<processes, queues, made, lp, call, printed>>
    BY <1>2, ObjectsKept
  <1>3. CASE EndClose(t) /\ UNCHANGED <<content, made, lp, call, printed>>
    <2>1. ClientUnregister(NameOf[t])
      BY <1>3 DEF EndClose, ClientUnregister
    <2> QED
      BY <2>1, NamesOf, ClientsTypeOK
  <1> QED
    BY <1>1, <1>2, <1>3 DEF Stop, Close, Kill

LEMMA OpStepSafe ==
    ASSUME ObjectsTypeOK, ConnShape, OpShape, NEW k \in Tasks, OpStep(k)
    PROVE  ObjectsTypeOK' /\ ConnShape'
  <1>1. CASE SpawnStep(k)
    BY <1>1, SpawnStepsSafe DEF SpawnStep
  <1>2. CASE KillStep(k)
    BY <1>2, LeaveWaitSafe DEF KillStep
  <1>3. CASE DisconnectTimesOut(k)
    BY <1>3, KillCancelledSafe DEF DisconnectTimesOut
  <1>4. CASE StopEnds(k)
    BY <1>4, CallEndsSafe DEF StopEnds, KillEnds
  <1>5. CASE CloseEnds(k)
    <2>1. op[k].t \in Transports
      BY <1>5 DEF CloseEnds, OpShape
    <2>2. Unregister(NameOf[op[k].t])
      BY <1>5 DEF CloseEnds, EndClose
    <2> QED
      BY <1>5, <2>1, <2>2, NamesOf, CallEndsSafe DEF CloseEnds, KillEnds
  <1>6. CASE WriteChecked(k)
    BY <1>6, ObjectsKept DEF WriteChecked, connVars
  <1> QED
    BY <1>1, <1>2, <1>3, <1>4, <1>5, <1>6 DEF OpStep

LEMMA ObjectsStep ==
    ASSUME ObjectsTypeOK, ConnShape, OpShape, [Next]_vars
    PROVE  ObjectsTypeOK' /\ ConnShape'
  <1>1. CASE World
    <2>1. PICK p \in Procs :
            Cli(p) \/ ChildReaped(p) \/ StdoutReader(p) \/ StderrReader(p)
      BY <1>1 DEF World
    <2>2. ProcessShape
      BY DEF ConnShape
    <2> QED
      BY <2>1, <2>2, CliTypeOK, ReadersTypeOK, TasksShape
  <1>2. ASSUME NEW t \in Transports, Connect(t)
        PROVE  ObjectsTypeOK' /\ ConnShape'
    BY <1>2, ConnectSafe
  <1>3. ASSUME NEW t \in Transports,
               \/ NextMessage(t) \/ CancelRead(t) \/ ReaderStep(t)
               \/ \E kind \in {"initialize", "user"} :
                    Write(t, kind) \/ \E k \in Tasks : WriteFlawed(k, t, kind)
        PROVE  ObjectsTypeOK' /\ ConnShape'
    <2>1. UNCHANGED <<processes, queues, made, lp, call, printed>>
      BY <1>3 DEF NextMessage, CancelRead, ReaderStep, Receive, Validated,
                  CallbackRaises, PolicyDecides, Write, WriteFlawed, connVars
    <2> QED
      BY <2>1, ObjectsKept
  <1>4. ASSUME NEW t \in Transports, NEW k \in Tasks, Spawn(k, t)
        PROVE  ObjectsTypeOK' /\ ConnShape'
    BY <1>4, NamesOf, SpawnBeginSafe DEF Spawn
  <1>5. ASSUME NEW t \in Transports, NEW k \in Tasks,
               Stop(k, t) \/ \E name \in Calls : Close(k, name, t)
        PROVE  ObjectsTypeOK' /\ ConnShape'
    BY <1>5, StopCloseSafe
  <1>6. ASSUME NEW k \in Tasks, OpStep(k)
        PROVE  ObjectsTypeOK' /\ ConnShape'
    BY <1>6, OpStepSafe
  <1>7. CASE UNCHANGED vars
    BY <1>7, ObjectsKept DEF vars, connVars
  <1> QED
    BY <1>1, <1>2, <1>3, <1>4, <1>5, <1>6, <1>7 DEF Next

-----------------------------------------------------------------------------
(* What the steps leave of the queues, the transports and the calls.       *)

LEMMA PutHandled ==
    ASSUME content \in [Queues -> Seq(Handled)], NEW q \in Queues,
           NEW es \in Seq(Handled)
    PROVE  Put(q, es) \in [Queues -> Seq(Handled)]
  BY DEF Put

LEMMA ContentStep ==
    ASSUME Safe, [Next]_vars
    PROVE  content' \in [Queues -> Seq(Handled)]
  <1>0. content \in [Queues -> Seq(Handled)] /\ tp \in [Transports -> Transport]
    BY DEF Safe, BridgeTypeOK
  <1>1. CASE World
    <2>1. PICK p \in Procs :
            Cli(p) \/ ChildReaped(p) \/ StdoutReader(p) \/ StderrReader(p)
      BY <1>1 DEF World
    <2>2. \/ content' = content
          \/ /\ lp[p].queue \in Queues
             /\ \E es \in Seq(Sent) : content' = Put(lp[p].queue, es)
      BY <2>1, TasksPut DEF Safe, ConnShape
    <2>3. Seq(Sent) \subseteq Seq(Handled)
      BY DEF Handled
    <2> QED
      BY <1>0, <2>2, <2>3, PutHandled
  <1>2. ASSUME NEW t \in Transports, NEW e \in {StopEvent, Stdout(FakeResponse)},
               content' = IF tp[t].queue = None THEN content
                          ELSE Put(tp[t].queue, <<e>>)
        PROVE  content' \in [Queues -> Seq(Handled)]
    <2>1. tp[t].queue # None => tp[t].queue \in Queues
      BY <1>0 DEF Transport
    <2>2. <<e>> \in Seq(Handled)
      BY DEF Handled
    <2> QED
      BY <1>0, <1>2, <2>1, <2>2, PutHandled
  <1>3. ASSUME NEW t \in Transports, NEW kind \in {"initialize", "user"},
               Write(t, kind)
        PROVE  content' \in [Queues -> Seq(Handled)]
    <2>1. CASE Intercept(t, kind)
      BY <1>2, <2>1 DEF Intercept
    <2>2. CASE Forward(t, kind)
      BY <1>0, <2>2 DEF Forward
    <2> QED
      BY <1>3, <2>1, <2>2 DEF Write
  <1>4. ASSUME NEW t \in Transports, Receive(t)
        PROVE  content' \in [Queues -> Seq(Handled)]
    <2>1. /\ rd[t].queue \in Queues /\ content[rd[t].queue] # <<>>
          /\ content' = [content EXCEPT ![rd[t].queue] = Tail(@)]
      BY <1>4 DEF Receive, Safe, ReaderShape
    <2>2. Tail(content[rd[t].queue]) \in Seq(Handled)
      BY <1>0, <2>1
    <2> QED
      BY <1>0, <2>1, <2>2
  <1>5. ASSUME NEW t \in Transports, NEW k \in Tasks, Stop(k, t)
        PROVE  content' \in [Queues -> Seq(Handled)]
    BY <1>2, <1>5 DEF Stop, StopInjects
  <1>6. ASSUME NEW t \in Transports,
               Connect(t) \/ NextMessage(t) \/ CancelRead(t) \/ Validated(t)
               \/ CallbackRaises(t) \/ PolicyDecides(t)
        PROVE  content' = content
    BY <1>6 DEF Connect, NextMessage, CancelRead, Validated, CallbackRaises,
                PolicyDecides, connVars
  <1>7. ASSUME NEW t \in Transports, NEW k \in Tasks,
               \/ Spawn(k, t) \/ \E name \in Calls : Close(k, name, t)
               \/ \E kind \in {"initialize", "user"} : WriteFlawed(k, t, kind)
        PROVE  content' = content
    BY <1>7 DEF Spawn, Close, WriteFlawed, connVars
  <1>8. ASSUME NEW k \in Tasks, OpStep(k) PROVE content' = content
    BY <1>8 DEF OpStep, SpawnStep, SpawnExec, SpawnDone, SpawnFails, KillStep,
                KillWaited, KillTimesOut, LeaveWait, DisconnectTimesOut,
                StopEnds, CloseEnds, WriteChecked, connVars
  <1>9. CASE UNCHANGED vars
    BY <1>0, <1>9 DEF vars, connVars
  <1> QED
    BY <1>0, <1>1, <1>3, <1>4, <1>5, <1>6, <1>7, <1>8, <1>9
       DEF Next, ReaderStep

\* What a transport keeps: a stream that ended has ended, a queue once made
\* is there, and a reconnect that is over is over.
Keeps(t) ==
    /\ tp[t].cliExited => tp'[t].cliExited
    /\ tp[t].queue # None => tp'[t].queue # None
    /\ tp'[t].reconnecting => tp[t].reconnecting

LEMMA TransportStep ==
    ASSUME Safe, [Next]_vars
    PROVE  tp' \in [Transports -> Transport] /\ \A t \in Transports : Keeps(t)
  <1> DEFINE Good == tp' \in [Transports -> Transport]
                       /\ \A t \in Transports : Keeps(t)
             FieldNames == {"reconnecting", "ready", "cliExited", "queue"}
  <1>0. /\ tp \in [Transports -> Transport]
        /\ \A t \in Transports : tp[t] \in Transport /\ DOMAIN tp[t] = FieldNames
    BY DEF Safe, BridgeTypeOK, Transport
  <1>1. ASSUME NEW t \in Transports, NEW r \in Transport,
               tp' = [tp EXCEPT ![t] = r], tp[t].cliExited => r.cliExited,
               tp[t].queue # None => r.queue # None,
               r.reconnecting => tp[t].reconnecting
        PROVE  Good
    BY <1>0, <1>1 DEF Keeps
  <1>2. ASSUME NEW t \in Transports, tp' = [tp EXCEPT ![t].ready = FALSE]
        PROVE  Good
    <2> DEFINE r == [tp[t] EXCEPT !.ready = FALSE]
    <2>1. tp' = [tp EXCEPT ![t] = r]
      BY <1>0, <1>2
    <2>2. /\ r \in Transport /\ r.cliExited = tp[t].cliExited
          /\ r.queue = tp[t].queue /\ r.reconnecting = tp[t].reconnecting
      BY <1>0 DEF Transport
    <2> HIDE DEF r
    <2> QED
      BY <1>1, <2>1, <2>2
  <1>3. ASSUME NEW t \in Transports, tp' = [tp EXCEPT ![t].cliExited = TRUE]
        PROVE  Good
    <2> DEFINE r == [tp[t] EXCEPT !.cliExited = TRUE]
    <2>1. tp' = [tp EXCEPT ![t] = r]
      BY <1>0, <1>3
    <2>2. /\ r \in Transport /\ r.cliExited
          /\ r.queue = tp[t].queue /\ r.reconnecting = tp[t].reconnecting
      BY <1>0 DEF Transport
    <2> HIDE DEF r
    <2> QED
      BY <1>1, <2>1, <2>2
  <1>4. ASSUME NEW t \in Transports, tp' = [tp EXCEPT ![t].reconnecting = FALSE]
        PROVE  Good
    <2> DEFINE r == [tp[t] EXCEPT !.reconnecting = FALSE]
    <2>1. tp' = [tp EXCEPT ![t] = r]
      BY <1>0, <1>4
    <2>2. /\ r \in Transport /\ r.cliExited = tp[t].cliExited
          /\ r.queue = tp[t].queue /\ ~r.reconnecting
      BY <1>0 DEF Transport
    <2> HIDE DEF r
    <2> QED
      BY <1>1, <2>1, <2>2
  <1>5. ASSUME NEW t \in Transports, NEW q \in Queues,
               tp' = [tp EXCEPT ![t].ready = TRUE, ![t].queue = q]
        PROVE  Good
    <2> DEFINE r == [tp[t] EXCEPT !.ready = TRUE, !.queue = q]
    <2>1. tp' = [tp EXCEPT ![t] = r]
      BY <1>0, <1>5
    <2>2. /\ r \in Transport /\ r.cliExited = tp[t].cliExited
          /\ r.queue = q /\ r.reconnecting = tp[t].reconnecting
      BY <1>0 DEF Transport
    <2>3. q # None
      BY NoneAssumption
    <2> HIDE DEF r
    <2> QED
      BY <1>1, <2>1, <2>2, <2>3
  <1>6. ASSUME tp' = tp PROVE Good
    BY <1>0, <1>6 DEF Keeps
  <1> HIDE DEF Good
  <1>7. ASSUME NEW t \in Transports, Connect(t) PROVE Good
    BY <1>5, <1>7 DEF Connect
  <1>8. ASSUME NEW t \in Transports, NEW kind \in {"initialize", "user"},
               Write(t, kind)
        PROVE  Good
    BY <1>4, <1>6, <1>8 DEF Write, Intercept, Forward
  <1>9. ASSUME NEW t \in Transports, Receive(t) PROVE Good
    BY <1>3, <1>6, <1>9 DEF Receive, Discard, TakeStdout, TakeStderr, TakeExit
  <1>10. ASSUME NEW t \in Transports, NEW k \in Tasks,
                Stop(k, t) \/ \E name \in Calls : Close(k, name, t)
         PROVE  Good
    BY <1>2, <1>3, <1>6, <1>10 DEF Stop, Close, EndClose
  <1>11. ASSUME NEW t \in Transports, NEW k \in Tasks,
                \/ Spawn(k, t)
                \/ \E kind \in {"initialize", "user"} : WriteFlawed(k, t, kind)
         PROVE  Good
    BY <1>6, <1>11 DEF Spawn, WriteFlawed
  <1>12. ASSUME NEW t \in Transports,
                NextMessage(t) \/ CancelRead(t) \/ Validated(t)
                \/ CallbackRaises(t) \/ PolicyDecides(t)
         PROVE  Good
    BY <1>6, <1>12 DEF NextMessage, CancelRead, Validated, CallbackRaises,
                       PolicyDecides
  <1>13. ASSUME NEW k \in Tasks, OpStep(k) PROVE Good
    <2>1. CASE CloseEnds(k)
      <3>1. op[k].t \in Transports
        BY <2>1 DEF CloseEnds, Safe, OpShape
      <3> QED
        BY <1>2, <2>1, <3>1 DEF CloseEnds, EndClose
    <2>2. CASE SpawnStep(k) \/ KillStep(k) \/ DisconnectTimesOut(k) \/ StopEnds(k)
               \/ WriteChecked(k)
      BY <1>6, <2>2 DEF SpawnStep, KillStep, bridgeVars, DisconnectTimesOut,
                        StopEnds, WriteChecked
    <2> QED
      BY <1>13, <2>1, <2>2 DEF OpStep
  <1>14. ASSUME World \/ UNCHANGED vars PROVE Good
    BY <1>6, <1>14 DEF World, vars, bridgeVars
  <1>15. Good
    BY <1>7, <1>8, <1>9, <1>10, <1>11, <1>12, <1>13, <1>14 DEF Next, ReaderStep
  <1> QED
    BY <1>15 DEF Good

\* What a step does to a task's entries: a call begins, goes on or ends.
CallBegins(k) ==
    \/ \E t \in Transports :
         /\ op[k] = NoOp /\ op'[k] = Calling("spawn", t)
         /\ call'[k].at = "exec"
    \/ \E t \in Transports, name \in {"stop", "close", "disconnect"} :
         /\ op[k] = NoOp /\ op'[k] = Calling(name, t)
         /\ KillBegin(k, NameOf[t])
    \/ \E t \in Transports, kind \in {"initialize", "user"} :
         /\ op[k] = NoOp /\ op'[k] = [Calling("write", t) EXCEPT !.item = kind]
         /\ call'[k] = call[k] /\ ~MustIntercept(t, kind)
CallGoesOn(k) ==
    /\ op'[k] = op[k]
    /\ \/ call'[k] = call[k]
       \/ op[k].op = "spawn" /\ call'[k].at = "pipe"
       \/ /\ call[k].at = "wait" /\ call'[k].at = "readers"
          /\ call'[k].proc = call[k].proc
CallEnds(k) == op'[k] = NoOp /\ call'[k] = Idle
CallMoves(k) == CallBegins(k) \/ CallGoesOn(k) \/ CallEnds(k)

LEMMA CallStep ==
    ASSUME Safe, NEW k \in Tasks, [Next]_vars
    PROVE  CallMoves(k)
  <1>0. /\ op \in [Tasks -> Op] /\ call \in [Tasks -> Call]
        /\ DOMAIN call[k] = {"at", "name", "proc"}
    BY DEF Safe, BridgeTypeOK, ObjectsTypeOK, Call
  <1>1. ASSUME op'[k] = op[k], call'[k] = call[k] PROVE CallMoves(k)
    BY <1>1 DEF CallMoves, CallGoesOn
  <1>2. CASE World \/ UNCHANGED vars
    <2>1. op' = op /\ call' = call
      BY <1>2, TasksLeave DEF World, bridgeVars, vars, connVars, Safe
    <2> QED
      BY <1>1, <2>1
  <1>3. ASSUME NEW t \in Transports,
               Connect(t) \/ NextMessage(t) \/ CancelRead(t) \/ ReaderStep(t)
               \/ \E kind \in {"initialize", "user"} : Write(t, kind)
        PROVE  CallMoves(k)
    <2>1. op' = op /\ call' = call
      BY <1>3 DEF Connect, NextMessage, CancelRead, ReaderStep, Receive, Validated,
                  CallbackRaises, PolicyDecides, Write, connVars
    <2> QED
      BY <1>1, <2>1
  <1>7. ASSUME NEW t \in Transports, NEW j \in Tasks,
               NEW kind \in {"initialize", "user"}, WriteFlawed(j, t, kind)
        PROVE  CallMoves(k)
    <2>1. /\ op[j] = NoOp /\ call' = call /\ ~MustIntercept(t, kind)
          /\ op' = [op EXCEPT ![j] = [Calling("write", t) EXCEPT !.item = kind]]
      BY <1>7 DEF WriteFlawed, connVars
    <2>2. CASE j = k
      BY <1>0, <2>1, <2>2 DEF CallMoves, CallBegins
    <2>3. CASE j # k
      BY <1>0, <1>1, <2>1, <2>3
    <2> QED
      BY <2>2, <2>3
  <1>4. ASSUME NEW t \in Transports, NEW j \in Tasks, Spawn(j, t)
        PROVE  CallMoves(k)
    <2>1. /\ op[j] = NoOp /\ op' = [op EXCEPT ![j] = Calling("spawn", t)]
          /\ \E p \in Fresh : call' = [call EXCEPT ![j] =
                [at |-> "exec", name |-> NameOf[t], proc |-> p]]
      BY <1>4 DEF Spawn, SpawnBegin
    <2>2. CASE j = k
      BY <1>0, <2>1, <2>2 DEF CallMoves, CallBegins
    <2>3. CASE j # k
      BY <1>0, <1>1, <2>1, <2>3
    <2> QED
      BY <2>2, <2>3
  <1>5. ASSUME NEW t \in Transports, NEW j \in Tasks,
               Stop(j, t)
               \/ \E name \in Calls \intersect {"close", "disconnect"} :
                    Close(j, name, t)
        PROVE  CallMoves(k)
    <2>1. CASE op' = op /\ call' = call
      BY <1>1, <2>1
    <2>2. ASSUME NEW name \in {"stop", "close", "disconnect"}, op[j] = NoOp,
                 KillBegin(j, NameOf[t]), op' = [op EXCEPT ![j] = Calling(name, t)]
          PROVE  CallMoves(k)
      <3>1. CASE j = k
        BY <1>0, <2>2, <3>1 DEF CallMoves, CallBegins
      <3>2. CASE j # k
        BY <1>0, <1>1, <2>2, <3>2 DEF KillBegin
      <3> QED
        BY <3>1, <3>2
    <2> QED
      BY <1>5, <2>1, <2>2 DEF Stop, Close, Kill
  <1>6. ASSUME NEW j \in Tasks, OpStep(j) PROVE CallMoves(k)
    <2>1. ASSUME op' = [op EXCEPT ![j] = NoOp], call' = [call EXCEPT ![j] = Idle]
          PROVE  CallMoves(k)
      BY <1>0, <2>1 DEF CallMoves, CallGoesOn, CallEnds
    <2>2. ASSUME op' = op, call' = [call EXCEPT ![j].at = "pipe"],
                 op[j].op = "spawn"
          PROVE  CallMoves(k)
      <3>1. j = k => call'[k].at = "pipe"
        BY <1>0, <2>2
      <3> QED
        BY <1>0, <2>2, <3>1 DEF CallMoves, CallGoesOn
    <2>3. ASSUME op' = op, call[j].at = "wait",
                 call' = [call EXCEPT ![j].at = "readers"]
          PROVE  CallMoves(k)
      <3>1. j = k => call'[k].at = "readers" /\ call'[k].proc = call[k].proc
        BY <1>0, <2>3
      <3> QED
        BY <1>0, <2>3, <3>1 DEF CallMoves, CallGoesOn
    <2>4. CASE WriteChecked(j)
      <3>1. /\ op' = [op EXCEPT ![j] = NoOp] /\ call' = call /\ call[j] = Idle
            /\ call' = [call EXCEPT ![j] = Idle]
        BY <1>0, <2>4 DEF WriteChecked, connVars, Safe, OpShape
      <3> QED
        BY <2>1, <3>1
    <2> QED
      BY <1>6, <2>1, <2>2, <2>3, <2>4
         DEF OpStep, SpawnStep, SpawnExec, SpawnDone, SpawnFails, KillStep,
             KillWaited, KillTimesOut, LeaveWait, bridgeVars, DisconnectTimesOut,
             KillCancelled, StopEnds, CloseEnds, KillEnds
  <1> QED
    BY <1>2, <1>3, <1>4, <1>5, <1>6, <1>7 DEF Next

\* A process a name reaches was there when the call began.
LEMMA EnteredIsKnown ==
    ASSUME Safe, NEW n \in Names, processes[n] # None
    PROVE  processes[n] \in Procs \ Fresh
  BY DEF Safe, ObjectsTypeOK, ConnShape, EnteredShape, ProcessShape, Fresh

LEMMA OpsStep ==
    ASSUME Safe, [Next]_vars
    PROVE  op' \in [Tasks -> Op] /\ OpShape'
  <1>1. op' \in [Tasks -> Op]
    <2>0. op \in [Tasks -> Op] /\ NoOp \in Op
      BY DEF Safe, BridgeTypeOK, NoOp, Op
    <2>1. ASSUME NEW t \in Transports,
                 NEW name \in {"spawn", "stop", "close", "disconnect"}
          PROVE  Calling(name, t) \in Op
      BY DEF Calling, NoOp, Op, Fresh
    <2>2. CASE World \/ UNCHANGED vars
      BY <2>0, <2>2 DEF World, bridgeVars, vars
    <2>3. ASSUME NEW t \in Transports,
                 Connect(t) \/ NextMessage(t) \/ CancelRead(t) \/ ReaderStep(t)
                 \/ \E kind \in {"initialize", "user"} : Write(t, kind)
          PROVE  op' = op
      BY <2>3 DEF Connect, NextMessage, CancelRead, ReaderStep, Receive, Validated,
                  CallbackRaises, PolicyDecides, Write
    <2>6. ASSUME NEW t \in Transports, NEW k \in Tasks,
                 NEW kind \in {"initialize", "user"}, WriteFlawed(k, t, kind)
          PROVE  op' \in [Tasks -> Op]
      <3>1. [Calling("write", t) EXCEPT !.item = kind] \in Op
        BY DEF Calling, NoOp, Op, Fresh
      <3> QED
        BY <2>0, <2>6, <3>1 DEF WriteFlawed
    <2>4. ASSUME NEW t \in Transports, NEW k \in Tasks,
                 Spawn(k, t) \/ Stop(k, t)
                 \/ \E name \in Calls \intersect {"close", "disconnect"} :
                      Close(k, name, t)
          PROVE  op' \in [Tasks -> Op]
      BY <2>0, <2>1, <2>4 DEF Spawn, Stop, Close, Kill
    <2>5. ASSUME NEW k \in Tasks, OpStep(k)
          PROVE  op' = op \/ op' = [op EXCEPT ![k] = NoOp]
      BY <2>5 DEF OpStep, SpawnStep, KillStep, bridgeVars, DisconnectTimesOut,
                  StopEnds, CloseEnds, WriteChecked
    <2> QED
      BY <2>0, <2>2, <2>3, <2>4, <2>5, <2>6 DEF Next
  <1>2. OpShape'
    <2> SUFFICES ASSUME NEW k \in Tasks
                 PROVE  /\ op'[k].op # "none" => op'[k].t \in Transports
                        /\ op'[k].op \in {"none", "write"} => call'[k] = Idle
                        /\ op'[k].op = "write" =>
                             /\ op'[k].item \in {"initialize", "user"}
                             /\ ~MustIntercept(op[k].t, op[k].item)'
                        /\ call'[k].at \in {"wait", "readers"} =>
                             call'[k].proc \in op'[k].saw
      BY DEF OpShape
    <2>0. /\ op[k].op # "none" => op[k].t \in Transports
          /\ op[k].op \in {"none", "write"} => call[k] = Idle
          /\ op[k].op = "write" => /\ op[k].item \in {"initialize", "user"}
                                  /\ ~MustIntercept(op[k].t, op[k].item)
          /\ call[k].at \in {"wait", "readers"} => call[k].proc \in op[k].saw
          /\ call \in [Tasks -> Call]
      BY DEF Safe, OpShape, ObjectsTypeOK
    <2>1. CallMoves(k)
      BY CallStep
    <2>5. ASSUME NEW t \in Transports, NEW kind, ~MustIntercept(t, kind)
          PROVE  ~MustIntercept(t, kind)'
      BY <2>5, TransportStep DEF MustIntercept, Keeps
    <2>2. CASE CallEnds(k)
      BY <2>2 DEF CallEnds, NoOp, Idle
    <2>3. CASE CallGoesOn(k)
      <3>1. op'[k].op = "write" => ~MustIntercept(op[k].t, op[k].item)'
        <4> SUFFICES ASSUME op'[k].op = "write"
                     PROVE  ~MustIntercept(op[k].t, op[k].item)'
          OBVIOUS
        <4>1. op'[k] = op[k] /\ op[k].op = "write" /\ op[k].t \in Transports
          BY <2>0, <2>3 DEF CallGoesOn
        <4> QED
          BY <2>0, <2>5, <4>1 DEF MustIntercept
      <3> QED
        BY <2>0, <2>3, <3>1 DEF CallGoesOn, Idle
    <2>6. ASSUME NEW t \in Transports, NEW kind \in {"initialize", "user"},
                 op[k] = NoOp, call'[k] = call[k], ~MustIntercept(t, kind),
                 op'[k] = [Calling("write", t) EXCEPT !.item = kind]
          PROVE  /\ op'[k].t \in Transports /\ call'[k] = Idle
                 /\ op'[k].item \in {"initialize", "user"}
                 /\ ~MustIntercept(op[k].t, op[k].item)'
      <3>1. op'[k].t = t /\ op'[k].item = kind
        BY <2>6 DEF Calling, NoOp
      <3>2. call[k] = Idle
        BY <2>0, <2>6 DEF NoOp
      <3>3. ~MustIntercept(t, kind)'
        BY <2>5, <2>6
      <3> QED
        BY <2>6, <3>1, <3>2, <3>3 DEF MustIntercept
    <2>4. CASE CallBegins(k)
      <3>1. ASSUME NEW t \in Transports, KillBegin(k, NameOf[t])
            PROVE  call'[k].proc \in Procs \ Fresh
        <4>1. /\ \E at \in {"wait", "readers"} : call' = [call EXCEPT ![k] =
                   [at |-> at, name |-> NameOf[t], proc |-> processes[NameOf[t]]]]
              /\ ~Killed(NameOf[t])
          BY <3>1 DEF KillBegin
        <4>2. call'[k].proc = processes[NameOf[t]]
          BY <2>0, <4>1
        <4>3. processes[NameOf[t]] # None
          BY <4>1 DEF Killed
        <4> QED
          BY <4>2, <4>3, NamesOf, EnteredIsKnown
      <3>2. ASSUME NEW t \in Transports,
                   NEW name \in {"spawn", "stop", "close", "disconnect"},
                   op'[k] = Calling(name, t),
                   call'[k].at = "exec" \/ KillBegin(k, NameOf[t])
            PROVE  /\ op'[k].t \in Transports /\ op'[k].op \notin {"none", "write"}
                   /\ call'[k].at \in {"wait", "readers"} =>
                        call'[k].proc \in op'[k].saw
        <4>1. op'[k].t = t /\ op'[k].saw = Procs \ Fresh /\ op'[k].op = name
          BY <3>2 DEF Calling, NoOp
        <4> QED
          BY <3>1, <3>2, <4>1
      <3>3. CASE \E t \in Transports, kind \in {"initialize", "user"} :
                   /\ op[k] = NoOp
                   /\ op'[k] = [Calling("write", t) EXCEPT !.item = kind]
                   /\ call'[k] = call[k] /\ ~MustIntercept(t, kind)
        <4>1. PICK t \in Transports, kind \in {"initialize", "user"} :
                /\ op[k] = NoOp
                /\ op'[k] = [Calling("write", t) EXCEPT !.item = kind]
                /\ call'[k] = call[k] /\ ~MustIntercept(t, kind)
          BY <3>3
        <4>2. /\ op'[k].t \in Transports /\ call'[k] = Idle
              /\ op'[k].item \in {"initialize", "user"}
              /\ ~MustIntercept(op[k].t, op[k].item)'
          BY <2>6, <4>1
        <4> QED
          BY <4>2 DEF Idle
      <3>4. CASE \E t \in Transports :
                   op'[k] = Calling("spawn", t) /\ call'[k].at = "exec"
        BY <3>2, <3>4
      <3>5. CASE \E t \in Transports, name \in {"stop", "close", "disconnect"} :
                   op'[k] = Calling(name, t) /\ KillBegin(k, NameOf[t])
        BY <3>2, <3>5
      <3> QED
        BY <2>4, <3>3, <3>4, <3>5 DEF CallBegins
    <2> QED
      BY <2>1, <2>2, <2>3, <2>4 DEF CallMoves
  <1> QED
    BY <1>1, <1>2

-----------------------------------------------------------------------------
(* The generators.                                                         *)

LEMMA HandledLines ==
    ASSUME NEW e \in Handled, e.type = "stdout"
    PROVE  /\ e.line \in Line \union {FakeResponse} /\ e = Stdout(e.line)
           /\ e.line.kind \in {"message", "bare", "invalid", "rejected", "request",
                               "invalid request"}
           /\ e.line.kind # "message" => e.line \in Line
  <1>1. CASE e \in Sent
    <2>1. PICK l \in Line : e = Stdout(l)
      BY <1>1 DEF Sent, Event, Stderr, ExitFrom
    <2>2. l.kind \in AllKinds /\ e.line = l
      BY <2>1, KindsAssumption DEF Line, Stdout
    <2> QED
      BY <1>1, <2>1, <2>2 DEF Sent, AllKinds
  <1>2. CASE e = StopEvent
    BY <1>2 DEF StopEvent, ExitFrom
  <1>3. CASE e = Stdout(FakeResponse)
    BY <1>3 DEF Stdout, FakeResponse
  <1> QED
    BY <1>1, <1>2, <1>3 DEF Handled

\* What a step does to a generator: nothing, end it, have it wait, show a
\* line it received before the end of the stream, pass a line the callback has
\* seen on to the policy, or yield.
Quiet(t) == UNCHANGED <<delivered[t], late[t]>>
Ends(t) ==
    /\ Quiet(t)
    /\ rd'[t] = NotReading
Waits(t) ==
    /\ Quiet(t)
    /\ rd'[t] = Awaiting(t) /\ tp[t].queue # None
Shows(t) ==
    /\ Quiet(t)
    /\ rd[t].at = "get" /\ ~tp[t].cliExited
    /\ rd'[t].at \in {"validate", "policy"}
    /\ rd'[t].line \in Line
    /\ rd'[t].line.kind \notin {"bare", "rejected"}
    /\ IF rd'[t].at = "validate" THEN Flawed(rd'[t].line)
       ELSE Decides(t, rd'[t].line) /\ ~Flawed(rd'[t].line)
    /\ rd'[t] \in Reader
    /\ rd[t].queue \in Queues /\ content[rd[t].queue] # <<>>
    /\ Stdout(rd'[t].line) = Head(content[rd[t].queue])
    /\ content' = [content EXCEPT ![rd[t].queue] = Tail(@)]
Passes(t) ==
    /\ Quiet(t)
    /\ rd[t].at = "validate" /\ rd'[t].at = "policy"
    /\ rd'[t].line = rd[t].line /\ Decides(t, rd[t].line)
    /\ rd'[t] \in Reader
    /\ content' = content
Yields(t) ==
    /\ \E l \in Yielding(t) : delivered'[t] = Append(delivered[t], l)
    /\ late'[t] = IF tp[t].cliExited THEN late[t] + 1 ELSE late[t]
    /\ rd'[t] = [NotReading EXCEPT !.at = "paused"]
    /\ tp[t].queue # None
    /\ rd[t].at = "validate" \/ ~tp[t].cliExited
ReaderMoves(t) ==
    \/ Quiet(t) /\ rd'[t] = rd[t]
    \/ Ends(t) \/ Waits(t) \/ Shows(t) \/ Passes(t) \/ Yields(t)

LEMMA ReceiveMoves ==
    ASSUME Safe, NEW t \in Transports, Receive(t)
    PROVE  /\ ReaderMoves(t)
           /\ \E r : rd' = [rd EXCEPT ![t] = r]
           /\ late' = late \/ \E n : late' = [late EXCEPT ![t] = n]
           /\ delivered' = delivered
              \/ \E l \in Yielded : delivered' = [delivered EXCEPT ![t] = Append(@, l)]
  <1> DEFINE q == rd[t].queue
             e == Head(content[q])
             l == e.line
  <1>0. /\ content \in [Queues -> Seq(Handled)] /\ rd \in [Transports -> Reader]
        /\ delivered \in [Transports -> Seq(Yielded)]
        /\ late \in [Transports -> Nat]
        /\ rd[t].at = "get" /\ q \in Queues /\ content[q] # <<>>
        /\ content' = [content EXCEPT ![q] = Tail(@)] /\ tp[t].queue # None
    BY DEF Safe, BridgeTypeOK, ReaderShape, Receive
  <1>1. e \in Handled
    <2>1. content[q] \in Seq(Handled)
      BY <1>0
    <2> QED
      BY <1>0, <2>1
  <1>2. Discard(t, e) \/ TakeStdout(t, e) \/ TakeStderr(t, e) \/ TakeExit(t, e)
    BY DEF Receive
  <1>3. ASSUME Return(t)
        PROVE  Ends(t) /\ rd' = [rd EXCEPT ![t] = NotReading] /\ late' = late
               /\ delivered' = delivered
    BY <1>0, <1>3 DEF Return, Ends, Quiet
  <1>4. ASSUME rd' = [rd EXCEPT ![t] = Awaiting(t)], UNCHANGED <<delivered, late>>
        PROVE  Waits(t)
    BY <1>0, <1>4 DEF Waits, Quiet
  <1> HIDE DEF e
  <1>5. CASE TakeStdout(t, e)
    <2>1. /\ ~tp[t].cliExited /\ l \in Line \union {FakeResponse} /\ e = Stdout(l)
          /\ l.kind \in {"message", "bare", "invalid", "rejected", "request",
                         "invalid request"}
          /\ l.kind # "message" => l \in Line
      BY <1>1, <1>5, HandledLines DEF TakeStdout, Ended
    <2>2. CASE rd' = [rd EXCEPT ![t] = Awaiting(t)] /\ UNCHANGED <<delivered, late>>
      BY <1>4, <2>2 DEF ReaderMoves
    <2>3. CASE Return(t)
      BY <1>3, <2>3 DEF ReaderMoves
    <2>4. ASSUME NEW place \in {"validate", "policy"}, Holding(t, place, l),
                 l.kind \notin {"bare", "rejected"},
                 IF place = "validate" THEN Flawed(l) ELSE Decides(t, l) /\ ~Flawed(l)
          PROVE  ReaderMoves(t) /\ (\E r : rd' = [rd EXCEPT ![t] = r])
                 /\ late' = late /\ delivered' = delivered
      <3> DEFINE r == [at |-> place, queue |-> None, line |-> l, early |-> FALSE]
      <3>1. rd' = [rd EXCEPT ![t] = r] /\ UNCHANGED <<delivered, late>>
        BY <2>4 DEF Holding
      <3>2. r \in Reader /\ l \in Line
        BY <2>1, <2>4 DEF Reader, Flawed, Decides, IsRequest
      <3>3. rd'[t] = r
        BY <1>0, <3>1
      <3>4. Shows(t)
        BY <1>0, <2>1, <2>4, <3>1, <3>2, <3>3 DEF Shows, Quiet, e
      <3> QED
        BY <3>1, <3>4 DEF ReaderMoves
    <2>5. CASE Yield(t, l) /\ ~Decides(t, l) /\ ~Flawed(l)
               /\ l.kind \notin {"bare", "rejected"}
      <3>1. l \in Yielding(t) /\ l \in Yielded
        BY <2>1, <2>5 DEF Yielding, Yielded, Flawed
      <3>2. Yields(t)
        BY <1>0, <2>1, <2>5, <3>1 DEF Yield, Yields
      <3> QED
        BY <2>5, <3>1, <3>2 DEF ReaderMoves, Yield
    <2>6. \/ rd' = [rd EXCEPT ![t] = Awaiting(t)] /\ UNCHANGED <<delivered, late>>
          \/ Return(t)
          \/ /\ l.kind # "bare" /\ Flawed(l) /\ Holding(t, "validate", l)
          \/ /\ l.kind \notin {"bare", "rejected"} /\ ~Flawed(l) /\ Onward(t, l)
      BY <1>5 DEF TakeStdout, IsBare
    <2>7. CASE l.kind # "bare" /\ Flawed(l) /\ Holding(t, "validate", l)
      BY <2>4, <2>7 DEF Flawed
    <2>8. CASE l.kind \notin {"bare", "rejected"} /\ ~Flawed(l) /\ Onward(t, l)
      <3>1. CASE Decides(t, l) /\ Holding(t, "policy", l)
        BY <2>4, <2>8, <3>1
      <3>2. CASE ~Decides(t, l) /\ Yield(t, l)
        BY <2>5, <2>8, <3>2
      <3> QED
        BY <2>8, <3>1, <3>2 DEF Onward
    <2> QED
      BY <2>2, <2>3, <2>6, <2>7, <2>8
  <1>6. CASE TakeStderr(t, e)
    BY <1>4, <1>6 DEF TakeStderr, ReaderMoves
  <1>7. CASE Discard(t, e) \/ TakeExit(t, e)
    BY <1>3, <1>7 DEF Discard, TakeExit, ReaderMoves
  <1> QED
    BY <1>2, <1>5, <1>6, <1>7

\* The other steps of a generator.
LEMMA ReaderActs ==
    ASSUME Safe, NEW t \in Transports,
           NextMessage(t) \/ CancelRead(t) \/ ReaderStep(t)
    PROVE  /\ ReaderMoves(t)
           /\ \E r : rd' = [rd EXCEPT ![t] = r]
           /\ late' = late \/ \E n : late' = [late EXCEPT ![t] = n]
           /\ delivered' = delivered
              \/ \E l \in Yielded :
                    delivered' = [delivered EXCEPT ![t] = Append(@, l)]
  <1>0. /\ rd \in [Transports -> Reader]
        /\ delivered \in [Transports -> Seq(Yielded)]
        /\ late \in [Transports -> Nat]
        /\ rd[t].at # "idle" => tp[t].queue # None
        /\ rd[t].at = "validate" => rd[t].line \in Yielded /\ rd[t].line \in Line
    BY DEF Safe, BridgeTypeOK, ReaderShape, Yielded, Flawed
  <1>1. CASE Receive(t)
    BY <1>1, ReceiveMoves
  <1>2. CASE NextMessage(t)
    BY <1>0, <1>2 DEF NextMessage, ReaderMoves, Waits, Quiet
  <1>3. CASE CancelRead(t)
    BY <1>0, <1>3 DEF CancelRead, ReaderMoves, Ends, Quiet
  <1>6. CASE CallbackRaises(t)
    BY <1>0, <1>6 DEF CallbackRaises, Return, ReaderMoves, Ends, Quiet
  <1>4. CASE Validated(t)
    <2> DEFINE l == rd[t].line
    <2>1. /\ rd[t].at = "validate" /\ Onward(t, l) /\ l \in Yielded /\ l \in Line
          /\ tp[t].queue # None /\ content' = content
      BY <1>0, <1>4 DEF Validated, connVars
    <2>2. CASE Decides(t, l)
      <3> DEFINE r == [at |-> "policy", queue |-> None, line |-> l, early |-> FALSE]
      <3>1. rd' = [rd EXCEPT ![t] = r] /\ UNCHANGED <<delivered, late>>
        BY <2>1, <2>2 DEF Onward, Holding
      <3>2. r \in Reader
        BY <2>1 DEF Reader
      <3>3. rd'[t] = r
        BY <1>0, <3>1
      <3>4. Passes(t)
        BY <2>1, <2>2, <3>1, <3>2, <3>3 DEF Passes, Quiet
      <3> QED
        BY <3>1, <3>4 DEF ReaderMoves
    <2>3. CASE ~Decides(t, l)
      <3>1. Yield(t, l)
        BY <2>1, <2>3 DEF Onward
      <3>2. l \in Yielding(t)
        BY <2>1, <2>3 DEF Yielding
      <3>3. Yields(t)
        BY <1>0, <2>1, <3>1, <3>2 DEF Yield, Yields
      <3> QED
        BY <2>1, <3>1, <3>3 DEF Yield, ReaderMoves
    <2> QED
      BY <2>2, <2>3
  <1>5. CASE PolicyDecides(t)
    <2>1. rd[t].at = "policy" /\ UNCHANGED <<delivered, late>>
      BY <1>5 DEF PolicyDecides
    <2>2. CASE rd' = [rd EXCEPT ![t] = Awaiting(t)]
      BY <1>0, <2>1, <2>2 DEF ReaderMoves, Waits, Quiet
    <2>3. CASE rd' = [rd EXCEPT ![t] = NotReading]
      BY <1>0, <2>1, <2>3 DEF ReaderMoves, Ends, Quiet
    <2> QED
      BY <1>5, <2>1, <2>2, <2>3 DEF PolicyDecides
  <1> QED
    BY <1>1, <1>2, <1>3, <1>4, <1>5, <1>6 DEF ReaderStep

\* The rest leaves the generators alone.
LEMMA OthersLeaveReaders ==
    ASSUME [Next]_vars,
           \A t \in Transports : ~(NextMessage(t) \/ CancelRead(t) \/ ReaderStep(t))
    PROVE  UNCHANGED <<rd, delivered, late>>
  <1>1. CASE World \/ UNCHANGED vars
    BY <1>1 DEF World, vars, bridgeVars
  <1>2. ASSUME NEW t \in Transports, NEW kind, Connect(t) \/ Write(t, kind)
        PROVE  UNCHANGED <<rd, delivered, late>>
    BY <1>2 DEF Connect, Write
  <1>3. ASSUME NEW t \in Transports, NEW k \in Tasks, NEW name,
               \/ Spawn(k, t) \/ Stop(k, t)
               \/ Close(k, name, t) \/ WriteFlawed(k, t, name)
        PROVE  UNCHANGED <<rd, delivered, late>>
    BY <1>3 DEF Spawn, Stop, Close, WriteFlawed
  <1>4. ASSUME NEW k \in Tasks, OpStep(k) PROVE UNCHANGED <<rd, delivered, late>>
    BY <1>4 DEF OpStep, SpawnStep, KillStep, bridgeVars, DisconnectTimesOut,
                StopEnds, CloseEnds, WriteChecked
  <1> QED
    BY <1>1, <1>2, <1>3, <1>4 DEF Next

LEMMA ReadersMove ==
    ASSUME Safe, [Next]_vars
    PROVE  /\ \A t \in Transports : ReaderMoves(t)
           /\ rd' \in [Transports -> Reader]
           /\ delivered' \in [Transports -> Seq(Yielded)]
           /\ late' \in [Transports -> Nat]
  <1>0. /\ rd \in [Transports -> Reader]
        /\ delivered \in [Transports -> Seq(Yielded)]
        /\ late \in [Transports -> Nat] /\ tp \in [Transports -> Transport]
    BY DEF Safe, BridgeTypeOK
  <1>1. CASE \A t \in Transports : ~(NextMessage(t) \/ CancelRead(t) \/ ReaderStep(t))
    BY <1>0, <1>1, OthersLeaveReaders DEF ReaderMoves, Quiet
  <1>2. ASSUME NEW t \in Transports,
               NextMessage(t) \/ CancelRead(t) \/ ReaderStep(t)
        PROVE  /\ \A u \in Transports : ReaderMoves(u)
               /\ rd' \in [Transports -> Reader]
               /\ delivered' \in [Transports -> Seq(Yielded)]
               /\ late' \in [Transports -> Nat]
    <2>1. PICK r : rd' = [rd EXCEPT ![t] = r]
      BY <1>2, ReaderActs
    <2>2. ReaderMoves(t)
      BY <1>2, ReaderActs
    <2>3. late' = late \/ \E n : late' = [late EXCEPT ![t] = n]
      BY <1>2, ReaderActs
    <2>4. delivered' = delivered
          \/ \E l \in Yielded : delivered' = [delivered EXCEPT ![t] = Append(@, l)]
      BY <1>2, ReaderActs
    <2>5. \A u \in Transports \ {t} : ReaderMoves(u)
      BY <1>0, <2>1, <2>3, <2>4 DEF ReaderMoves, Quiet
    <2>6. rd'[t] \in Reader
      <3>1. NotReading \in Reader /\ [NotReading EXCEPT !.at = "paused"] \in Reader
        BY DEF NotReading, Reader
      <3>2. Awaiting(t) \in Reader
        BY <1>0 DEF Awaiting, Reader, Transport
      <3> QED
        BY <1>0, <2>2, <3>1, <3>2
           DEF ReaderMoves, Ends, Waits, Shows, Passes, Yields
    <2>7. late'[t] \in Nat
      BY <1>0, <2>2 DEF ReaderMoves, Ends, Waits, Shows, Passes, Yields, Quiet
    <2>8. \A l \in Yielded : Append(delivered[t], l) \in Seq(Yielded)
      BY <1>0
    <2> QED
      BY <1>0, <2>1, <2>2, <2>3, <2>4, <2>5, <2>6, <2>7, <2>8
  <1> QED
    BY <1>1, <1>2

LEMMA ReaderShapeStep ==
    ASSUME Safe, [Next]_vars
    PROVE  ReaderShape'
  <1> SUFFICES ASSUME NEW t \in Transports
               PROVE  /\ rd'[t].at # "idle" => tp'[t].queue # None
                      /\ rd'[t].at = "get" => rd'[t].queue \in Queues
                      /\ rd'[t].at = "validate" =>
                           rd'[t].line \in Line /\ Flawed(rd'[t].line)
                      /\ rd'[t].at = "policy" =>
                           rd'[t].line \in Line /\ Decides(t, rd'[t].line)
                      /\ delivered'[t] \in Seq(Yielding(t))
    BY DEF ReaderShape, Flawed, Decides, IsRequest, Yielding, Yielded, Line
  <1>0. /\ tp[t].queue \in Queues \union {None}
        /\ rd[t].at # "idle" => tp[t].queue # None
        /\ rd[t].at = "get" => rd[t].queue \in Queues
        /\ rd[t].at = "validate" => rd[t].line \in Line /\ Flawed(rd[t].line)
        /\ rd[t].at = "policy" => rd[t].line \in Line /\ Decides(t, rd[t].line)
        /\ delivered[t] \in Seq(Yielding(t))
        /\ \A l \in Yielding(t) : Append(delivered[t], l) \in Seq(Yielding(t))
    BY DEF Safe, BridgeTypeOK, Transport, ReaderShape
  <1>1. ReaderMoves(t)
    BY ReadersMove
  <1>2. tp[t].queue # None => tp'[t].queue # None
    BY TransportStep DEF Keeps
  <1>3. CASE Quiet(t) /\ rd'[t] = rd[t]
    BY <1>0, <1>2, <1>3 DEF Quiet
  <1>4. CASE Ends(t)
    BY <1>0, <1>4 DEF Ends, NotReading, Quiet
  <1>5. CASE Waits(t)
    BY <1>0, <1>2, <1>5 DEF Waits, Awaiting, Quiet
  <1>6. CASE Shows(t)
    BY <1>0, <1>2, <1>6 DEF Shows, Quiet
  <1>7. CASE Passes(t)
    BY <1>0, <1>2, <1>7 DEF Passes, Quiet
  <1>8. CASE Yields(t)
    BY <1>0, <1>2, <1>8 DEF Yields, NotReading
  <1> QED
    BY <1>1, <1>3, <1>4, <1>5, <1>6, <1>7, <1>8 DEF ReaderMoves

-----------------------------------------------------------------------------
(* What the CLIs read, and type correctness.                               *)

\* A CLI gets a host's message that is not kept back, or the answer to a
\* request whose policy has decided.
GotMessage(x) == \E t \in Transports, kind \in {"initialize", "user"} :
                    x = UserInput(t, kind) /\ ~MustIntercept(t, kind)
GotAnswer(x) == \E t \in Transports :
                   x = Response(t, rd[t].line) /\ PolicyDecides(t)
Gets(p, x) ==
    /\ received' = [received EXCEPT ![p] = Append(@, x)]
    /\ x \in Input
    /\ GotMessage(x) \/ GotAnswer(x)

LEMMA SendStdinGets ==
    ASSUME Safe, NEW n \in Names, NEW x \in Input, SendStdin(n, x),
           GotMessage(x) \/ GotAnswer(x)
    PROVE  received' = received \/ \E p \in Procs : Gets(p, x)
  <1>1. CASE StdinFate(n) = "sent"
    <2>1. processes[n] # None
      BY <1>1 DEF StdinFate
    <2>2. processes[n] \in Procs
      BY <2>1 DEF Safe, ObjectsTypeOK
    <2> QED
      BY <1>1, <2>2 DEF SendStdin, Gets
  <1>2. CASE StdinFate(n) # "sent"
    BY <1>2 DEF SendStdin
  <1> QED
    BY <1>1, <1>2

LEMMA ReceivedStep ==
    ASSUME Safe, [Next]_vars
    PROVE  received' = received \/ \E p \in Procs, x \in Input : Gets(p, x)
  <1>1. ASSUME NEW t \in Transports, NEW kind \in {"initialize", "user"},
               Write(t, kind)
        PROVE  received' = received \/ \E p \in Procs, x \in Input : Gets(p, x)
    <2>1. CASE Intercept(t, kind)
      BY <2>1 DEF Intercept
    <2>2. CASE Forward(t, kind)
      <3>1. UserInput(t, kind) \in Input
        BY DEF UserInput, Input
      <3>2. GotMessage(UserInput(t, kind)) /\ SendStdin(NameOf[t], UserInput(t, kind))
        BY <2>2 DEF Forward, GotMessage
      <3> QED
        BY <3>1, <3>2, NamesOf, SendStdinGets
    <2> QED
      BY <1>1, <2>1, <2>2 DEF Write
  <1>2. ASSUME NEW t \in Transports, PolicyDecides(t)
        PROVE  received' = received \/ \E p \in Procs, x \in Input : Gets(p, x)
    <2>1. /\ rd[t].line \in Line /\ Decides(t, rd[t].line)
          /\ SendStdin(NameOf[t], Response(t, rd[t].line))
      BY <1>2 DEF PolicyDecides, Safe, ReaderShape
    <2>2. Response(t, rd[t].line) \in Input
      BY <2>1 DEF Response, Input, Decides
    <2>3. GotAnswer(Response(t, rd[t].line))
      BY <1>2 DEF GotAnswer
    <2> QED
      BY <2>1, <2>2, <2>3, NamesOf, SendStdinGets
  <1>3. ASSUME NEW t \in Transports,
               Connect(t) \/ NextMessage(t) \/ CancelRead(t) \/ Receive(t)
               \/ Validated(t) \/ CallbackRaises(t)
        PROVE  received' = received
    BY <1>3 DEF Connect, NextMessage, CancelRead, Receive, Validated,
                CallbackRaises
  <1>4. ASSUME NEW t \in Transports, NEW k \in Tasks, NEW name,
               \/ Spawn(k, t) \/ Stop(k, t)
               \/ Close(k, name, t) \/ WriteFlawed(k, t, name)
        PROVE  received' = received
    BY <1>4 DEF Spawn, Stop, Close, WriteFlawed
  <1>5. ASSUME NEW k \in Tasks, OpStep(k)
        PROVE  received' = received \/ \E p \in Procs, x \in Input : Gets(p, x)
    <2>1. CASE WriteChecked(k)
      <3> DEFINE x == UserInput(op[k].t, op[k].item)
      <3>1. /\ op[k].t \in Transports /\ op[k].item \in {"initialize", "user"}
            /\ ~MustIntercept(op[k].t, op[k].item)
            /\ received' = received \/ SendStdin(NameOf[op[k].t], x)
        BY <2>1 DEF WriteChecked, Safe, OpShape
      <3>2. x \in Input /\ GotMessage(x)
        BY <3>1 DEF UserInput, Input, GotMessage
      <3> HIDE DEF x
      <3> QED
        BY <3>1, <3>2, NamesOf, SendStdinGets
    <2>2. CASE ~WriteChecked(k)
      BY <1>5, <2>2 DEF OpStep, SpawnStep, KillStep, bridgeVars,
                        DisconnectTimesOut, StopEnds, CloseEnds
    <2> QED
      BY <2>1, <2>2
  <1>6. CASE World \/ UNCHANGED vars
    BY <1>6 DEF World, vars, bridgeVars
  <1> QED
    BY <1>1, <1>2, <1>3, <1>4, <1>5, <1>6 DEF Next, ReaderStep

\* A transport makes up one answer as its reconnect ends, one write each.
Fakes(t) ==
    /\ fakes' = [fakes EXCEPT ![t] = @ + 1]
    /\ tp[t].reconnecting /\ ~tp'[t].reconnecting

LEMMA WritesStep ==
    ASSUME Safe, [Next]_vars
    PROVE  \/ UNCHANGED <<writes, fakes>>
           \/ /\ writes' = writes + 1 /\ writes < MaxWrites
              /\ fakes' = fakes \/ \E t \in Transports : Fakes(t)
  <1>1. ASSUME NEW t \in Transports, NEW kind \in {"initialize", "user"},
               Write(t, kind)
        PROVE  /\ writes' = writes + 1 /\ writes < MaxWrites
               /\ fakes' = fakes \/ Fakes(t)
    <2>1. writes' = writes + 1 /\ writes < MaxWrites
      BY <1>1 DEF Write
    <2>2. CASE Intercept(t, kind)
      <3>1. /\ tp' = [tp EXCEPT ![t].reconnecting = FALSE]
            /\ fakes' = [fakes EXCEPT ![t] = @ + 1] /\ tp[t].reconnecting
        BY <2>2 DEF Intercept, MustIntercept
      <3>2. tp[t] \in Transport /\ tp \in [Transports -> Transport]
        BY DEF Safe, BridgeTypeOK
      <3>3. ~tp'[t].reconnecting
        BY <3>1, <3>2 DEF Transport
      <3> QED
        BY <2>1, <3>1, <3>3 DEF Fakes
    <2>3. CASE Forward(t, kind)
      BY <2>1, <2>3 DEF Forward
    <2> QED
      BY <1>1, <2>2, <2>3 DEF Write
  <1>2. ASSUME NEW t \in Transports,
               Connect(t) \/ NextMessage(t) \/ CancelRead(t) \/ ReaderStep(t)
        PROVE  UNCHANGED <<writes, fakes>>
    BY <1>2 DEF Connect, NextMessage, CancelRead, ReaderStep, Receive, Validated,
                CallbackRaises, PolicyDecides
  <1>6. ASSUME NEW t \in Transports, NEW k \in Tasks,
               NEW kind \in {"initialize", "user"}, WriteFlawed(k, t, kind)
        PROVE  writes' = writes + 1 /\ writes < MaxWrites /\ fakes' = fakes
    BY <1>6 DEF WriteFlawed
  <1>3. ASSUME NEW t \in Transports, NEW k \in Tasks,
               Spawn(k, t) \/ Stop(k, t)
               \/ \E name \in Calls \intersect {"close", "disconnect"} :
                    Close(k, name, t)
        PROVE  UNCHANGED <<writes, fakes>>
    BY <1>3 DEF Spawn, Stop, Close
  <1>4. ASSUME NEW k \in Tasks, OpStep(k) PROVE UNCHANGED <<writes, fakes>>
    BY <1>4 DEF OpStep, SpawnStep, KillStep, bridgeVars, DisconnectTimesOut,
                StopEnds, CloseEnds, WriteChecked
  <1>5. CASE World \/ UNCHANGED vars
    BY <1>5 DEF World, vars, bridgeVars
  <1> QED
    BY <1>1, <1>2, <1>3, <1>4, <1>5, <1>6 DEF Next

LEMMA SafeStep ==
    ASSUME Safe, [Next]_vars
    PROVE  Safe'
  <1>1. ObjectsTypeOK' /\ ConnShape'
    BY ObjectsStep DEF Safe
  <1>2. OpShape' /\ ReaderShape'
    BY OpsStep, ReaderShapeStep
  <1>3. received' \in [Procs -> Seq(Input)]
    <2>1. received \in [Procs -> Seq(Input)]
      BY DEF Safe, BridgeTypeOK
    <2>2. ASSUME NEW p \in Procs, NEW x \in Input, Gets(p, x)
          PROVE  received' \in [Procs -> Seq(Input)]
      <3>1. Append(received[p], x) \in Seq(Input)
        BY <2>1
      <3> QED
        BY <2>1, <2>2, <3>1 DEF Gets
    <2> QED
      BY <2>1, <2>2, ReceivedStep
  <1>4. writes' \in 0..MaxWrites /\ fakes' \in [Transports -> Nat]
    <2>1. writes \in 0..MaxWrites /\ fakes \in [Transports -> Nat] /\ MaxWrites \in Nat
      BY MaxWritesAssumption DEF Safe, BridgeTypeOK
    <2>2. \/ UNCHANGED <<writes, fakes>>
          \/ /\ writes' = writes + 1 /\ writes < MaxWrites
             /\ fakes' = fakes
                \/ \E t \in Transports : fakes' = [fakes EXCEPT ![t] = @ + 1]
      BY WritesStep DEF Fakes
    <2>3. writes' \in 0..MaxWrites
      BY <2>1, <2>2
    <2>4. fakes' \in [Transports -> Nat]
      BY <2>1, <2>2
    <2> QED
      BY <2>3, <2>4
  <1>5. BridgeTypeOK'
    BY <1>3, <1>4, ContentStep, TransportStep, OpsStep, ReadersMove DEF BridgeTypeOK
  <1> QED
    BY <1>1, <1>2, <1>5 DEF Safe

\* Types and shapes are invariants.
THEOREM BridgeSafe == Spec => []Safe
  <1>1. Safe /\ [Next]_vars => Safe'
    BY SafeStep
  <1> QED
    BY <1>1, InitSafe, PTL DEF Spec

-----------------------------------------------------------------------------
(* Reconnecting.                                                           *)

\* While a transport waits for the initialize request it made no answer up
\* and no CLI got that request from it; each answer made up was a write.
Reconnects(t) ==
    /\ fakes[t] <= IF t \in Reconnecting THEN 1 ELSE 0
    /\ fakes[t] <= writes
    /\ tp[t].reconnecting =>
         /\ t \in Reconnecting /\ fakes[t] = 0
         /\ \A p \in Procs : \A i \in DOMAIN received[p] :
              received[p][i] # UserInput(t, "initialize")

LEMMA ReconnectsStep ==
    ASSUME Safe, [Next]_vars, NEW t \in Transports, Reconnects(t)
    PROVE  Reconnects(t)'
  <1>0. /\ writes \in Nat /\ fakes \in [Transports -> Nat] /\ fakes[t] \in Nat
        /\ received \in [Procs -> Seq(Input)]
    BY MaxWritesAssumption DEF Safe, BridgeTypeOK
  <1>1. tp'[t].reconnecting => tp[t].reconnecting
    BY TransportStep DEF Keeps
  <1>2. \/ writes' = writes /\ fakes'[t] = fakes[t]
        \/ writes' = writes + 1 /\ fakes'[t] = fakes[t]
        \/ /\ writes' = writes + 1 /\ fakes'[t] = fakes[t] + 1
           /\ tp[t].reconnecting /\ ~tp'[t].reconnecting
    BY <1>0, WritesStep DEF Fakes
  <1>3. /\ fakes'[t] <= IF t \in Reconnecting THEN 1 ELSE 0
        /\ fakes'[t] <= writes'
        /\ tp'[t].reconnecting => t \in Reconnecting /\ fakes'[t] = 0
    BY <1>0, <1>1, <1>2 DEF Reconnects
  <1>4. ASSUME tp'[t].reconnecting, NEW p \in Procs, NEW i \in DOMAIN received'[p]
        PROVE  received'[p][i] # UserInput(t, "initialize")
    <2>1. CASE i \in DOMAIN received[p] /\ received'[p][i] = received[p][i]
      BY <1>1, <1>4, <2>1 DEF Reconnects
    <2>2. CASE received'[p] = received[p]
      BY <2>1, <2>2
    <2>3. ASSUME NEW x \in Input, Gets(p, x)
          PROVE  received'[p][i] # UserInput(t, "initialize")
      <3>1. received'[p] = Append(received[p], x) /\ received[p] \in Seq(Input)
        BY <1>0, <2>3 DEF Gets
      <3>2. \/ i \in DOMAIN received[p] /\ received'[p][i] = received[p][i]
            \/ received'[p][i] = x
        BY <3>1
      <3>3. x # UserInput(t, "initialize")
        <4>1. CASE GotMessage(x)
          BY <1>1, <1>4, <4>1 DEF GotMessage, UserInput, MustIntercept
        <4>2. CASE GotAnswer(x)
          BY <4>2 DEF GotAnswer, UserInput, Response
        <4> QED
          BY <2>3, <4>1, <4>2 DEF Gets
      <3> QED
        BY <2>1, <3>2, <3>3
    <2>4. \/ received'[p] = received[p]
          \/ \E x \in Input : Gets(p, x)
      BY <1>0, ReceivedStep DEF Gets
    <2> QED
      BY <2>2, <2>3, <2>4
  <1>5. tp'[t].reconnecting =>
          \A p \in Procs : \A i \in DOMAIN received'[p] :
             received'[p][i] # UserInput(t, "initialize")
    BY <1>4
  <1>6. UserInput(t, "initialize")' = UserInput(t, "initialize")
    BY DEF UserInput
  <1> QED
    BY <1>3, <1>5, <1>6 DEF Reconnects

THEOREM ReconnectsSafe == Spec => [](\A t \in Transports : Reconnects(t))
  <1>1. Init => \A t \in Transports : Reconnects(t)
    <2> SUFFICES ASSUME Init, NEW t \in Transports PROVE Reconnects(t)
      OBVIOUS
    <2>1. fakes[t] = 0 /\ writes = 0
      BY DEF Init
    <2>2. tp[t].reconnecting => t \in Reconnecting
      BY DEF Init
    <2>3. \A p \in Procs : received[p] = <<>>
      BY DEF Init
    <2> QED
      BY <2>1, <2>2, <2>3 DEF Reconnects
  <1>2. Safe /\ [Next]_vars /\ (\A t \in Transports : Reconnects(t))
          => (\A t \in Transports : Reconnects(t))'
    BY ReconnectsStep
  <1> QED
    BY <1>1, <1>2, BridgeSafe, PTL DEF Spec

\* A reconnecting transport keeps one initialize request from the CLI, and
\* none reaches a CLI through it as long as it waits for that one.
THEOREM KeepsOneInitialize == Spec => []InterceptedOnce
  <1>1. (\A t \in Transports : Reconnects(t)) => InterceptedOnce
    BY DEF Reconnects, InterceptedOnce
  <1> QED
    BY <1>1, ReconnectsSafe, PTL

\* Every variable has the type the code's data have.
THEOREM BridgeTypeCorrect == Spec => []TypeOK
  <1>1. Safe /\ (\A t \in Transports : Reconnects(t)) => TypeOK
    <2> SUFFICES ASSUME Safe, \A t \in Transports : Reconnects(t) PROVE TypeOK
      OBVIOUS
    <2>1. content \in [Queues -> Seq(BridgeEvent)]
      <3>1. Handled \subseteq BridgeEvent
        BY DEF Handled, Sent, BridgeEvent
      <3>2. Seq(Handled) \subseteq Seq(BridgeEvent)
        BY <3>1
      <3> QED
        BY <3>2 DEF Safe, BridgeTypeOK
    <2>2. fakes \in [Transports -> 0..MaxWrites]
      <3>1. \A t \in Transports : fakes[t] \in 0..MaxWrites
        BY MaxWritesAssumption DEF Safe, BridgeTypeOK, Reconnects
      <3> QED
        BY <3>1 DEF Safe, BridgeTypeOK
    <2>3. delivered \in
            [Transports -> Seq({l \in Line : l.kind \notin
                                     {"bare", "rejected", "junk", "breaking"}}
                                 \union {FakeResponse})]
      <3> DEFINE D == {l \in Line : l.kind \notin
                                     {"bare", "rejected", "junk", "breaking"}}
                        \union {FakeResponse}
      <3>1. Yielded \subseteq D
        BY DEF Yielded
      <3>2. Seq(Yielded) \subseteq Seq(D)
        BY <3>1
      <3> QED
        BY <3>2 DEF Safe, BridgeTypeOK
    <2> QED
      BY <2>1, <2>2, <2>3 DEF Safe, BridgeTypeOK, ObjectsTypeOK, TypeOK
  <1> QED
    BY <1>1, BridgeSafe, ReconnectsSafe, PTL

-----------------------------------------------------------------------------
(* After the end of the stream.                                            *)

\* Nothing is late before the end, nor as long as a message whose callback
\* began before it is in flight.
LateOnce(t) ==
    /\ late[t] <= 1
    /\ ~tp[t].cliExited \/ rd[t].at = "validate" => late[t] = 0

LEMMA LateOnceStep ==
    ASSUME Safe, [Next]_vars, NEW t \in Transports, LateOnce(t)
    PROVE  LateOnce(t)'
  <1>0. late[t] \in Nat
    BY DEF Safe, BridgeTypeOK
  <1>1. ReaderMoves(t)
    BY ReadersMove
  <1>2. tp[t].cliExited => tp'[t].cliExited
    BY TransportStep DEF Keeps
  <1>3. CASE Quiet(t) /\ rd'[t] = rd[t]
    BY <1>2, <1>3 DEF Quiet, LateOnce
  <1>4. CASE Ends(t)
    BY <1>2, <1>4 DEF Ends, Quiet, NotReading, LateOnce
  <1>5. CASE Waits(t)
    BY <1>2, <1>5 DEF Waits, Quiet, Awaiting, LateOnce
  <1>6. CASE Shows(t)
    BY <1>2, <1>6 DEF Shows, Quiet, LateOnce
  <1>8. CASE Passes(t)
    BY <1>2, <1>8 DEF Passes, Quiet, LateOnce
  <1>7. CASE Yields(t)
    <2>1. rd'[t].at = "paused"
      BY <1>7 DEF Yields, NotReading
    <2> QED
      BY <1>0, <1>2, <1>7, <2>1 DEF Yields, LateOnce
  <1> QED
    BY <1>1, <1>3, <1>4, <1>5, <1>6, <1>7, <1>8 DEF ReaderMoves

\* After stop, or after the exit was read, at most the one message whose
\* validation was under way is still yielded.
THEOREM OneLateMessage == Spec => []AtMostOneLate
  <1>1. Init => \A t \in Transports : LateOnce(t)
    BY DEF Init, LateOnce
  <1>2. Safe /\ [Next]_vars /\ (\A t \in Transports : LateOnce(t))
          => (\A t \in Transports : LateOnce(t))'
    BY LateOnceStep
  <1>3. (\A t \in Transports : LateOnce(t)) => AtMostOneLate
    BY DEF LateOnce, AtMostOneLate
  <1> QED
    BY <1>1, <1>2, <1>3, BridgeSafe, PTL DEF Spec

-----------------------------------------------------------------------------
(* Whom the calls kill.                                                    *)

LEMMA BeginsSparing ==
    ASSUME Safe, NEW k \in Tasks, NEW t \in Transports,
           NEW name \in {"stop", "close", "disconnect"}, op[k] = NoOp,
           KillBegin(k, NameOf[t]), op' = [op EXCEPT ![k] = Calling(name, t)],
           NEW p \in Procs, lp'[p].signal # lp[p].signal
    PROVE  op[k] # op'[k] /\ p \in op'[k].saw
  <1> DEFINE r == processes[NameOf[t]]
  <1>0. /\ lp \in [Procs -> LocalProcess] /\ op \in [Tasks -> Op]
    BY DEF Safe, ObjectsTypeOK, BridgeTypeOK
  <1>1. r \in Procs \ Fresh
    BY NamesOf, EnteredIsKnown DEF KillBegin, Killed
  <1>2. \A s \in Procs \ {r} : lp'[s] = lp[s]
    BY <1>0, <1>1 DEF KillBegin
  <1>3. p = r
    BY <1>2
  <1>4. op'[k] = Calling(name, t)
    BY <1>0
  <1>5. op'[k].op = name /\ op'[k].saw = Procs \ Fresh
    BY <1>4 DEF Calling, NoOp
  <1>6. op[k].op = "none"
    BY DEF NoOp
  <1> QED
    BY <1>1, <1>3, <1>5, <1>6

LEMMA SparesStep ==
    ASSUME Safe, [Next]_vars, NEW p \in Procs
    PROVE  Spares(p)
  <1>0. /\ lp \in [Procs -> LocalProcess] /\ call \in [Tasks -> Call]
        /\ \A r \in Procs : DOMAIN lp[r] = Fields
    BY FieldsOf DEF Safe, ObjectsTypeOK
  <1>1. ASSUME lp'[p].signal = lp[p].signal PROVE Spares(p)
    BY <1>1 DEF Spares
  <1>2. CASE World
    BY <1>1, <1>2, TasksLeave DEF World, Safe
  <1>3. ASSUME NEW t \in Transports,
               \/ Connect(t) \/ NextMessage(t) \/ CancelRead(t) \/ ReaderStep(t)
               \/ \E kind \in {"initialize", "user"} :
                    Write(t, kind) \/ \E k \in Tasks : WriteFlawed(k, t, kind)
        PROVE  Spares(p)
    <2>1. lp' = lp
      BY <1>3 DEF Connect, NextMessage, CancelRead, ReaderStep, Receive, Validated,
                  CallbackRaises, PolicyDecides, Write, WriteFlawed, connVars
    <2> QED
      BY <1>1, <2>1
  <1>4. ASSUME NEW t \in Transports, NEW k \in Tasks, Spawn(k, t) PROVE Spares(p)
    <2>1. PICK r \in Procs : lp' = [lp EXCEPT ![r].queue = queues[NameOf[t]]]
      BY <1>4 DEF Spawn, SpawnBegin, Fresh
    <2> QED
      BY <1>0, <1>1, <2>1 DEF Fields
  <1>5. ASSUME NEW t \in Transports, NEW k \in Tasks,
               Stop(k, t)
               \/ \E name \in Calls \intersect {"close", "disconnect"} :
                    Close(k, name, t)
        PROVE  Spares(p)
    <2>1. CASE lp' = lp
      BY <1>1, <2>1
    <2>2. ASSUME NEW name \in {"stop", "close", "disconnect"}, op[k] = NoOp,
                 KillBegin(k, NameOf[t]), op' = [op EXCEPT ![k] = Calling(name, t)]
          PROVE  Spares(p)
      BY <2>2, BeginsSparing DEF Spares
    <2> QED
      BY <1>5, <2>1, <2>2 DEF Stop, Close, Kill
  <1>6. ASSUME NEW k \in Tasks, OpStep(k) PROVE Spares(p)
    <2> DEFINE r == call[k].proc
    <2>1. CASE SpawnStep(k) \/ DisconnectTimesOut(k)
      <3>1. r \in Procs
        BY <2>1 DEF SpawnStep, SpawnExec, SpawnDone, SpawnFails, DisconnectTimesOut,
                    KillCancelled, Safe, ConnShape, CallShape
      <3>2. \/ lp' = lp
            \/ lp' = [lp EXCEPT ![r].os = "running", ![r].handle = TRUE]
            \/ lp' = [lp EXCEPT ![r].pty = "open", ![r].out = "created",
                                ![r].err = "reading"]
            \/ lp' = [lp EXCEPT ![r].handle = FALSE]
        BY <2>1 DEF SpawnStep, SpawnExec, SpawnDone, SpawnFails, DisconnectTimesOut,
                    KillCancelled
      <3>3. lp'[p].signal = lp[p].signal
        BY <1>0, <3>1, <3>2 DEF Fields
      <3> QED
        BY <1>1, <3>3
    <2>2. CASE StopEnds(k) \/ CloseEnds(k) \/ WriteChecked(k)
      BY <1>1, <2>2 DEF StopEnds, CloseEnds, WriteChecked, connVars
    <2>3. CASE KillStep(k)
      <3>1. call[k].at = "wait" /\ \E signal : LeaveWait(k, signal)
        BY <2>3 DEF KillStep, KillWaited, KillTimesOut
      <3>2. r \in Procs /\ r \in op[k].saw
        BY <3>1 DEF Safe, OpShape, ConnShape, CallShape
      <3>3. \A s \in Procs \ {r} : lp'[s] = lp[s]
        BY <1>0, <3>1, <3>2 DEF LeaveWait
      <3>4. CASE p = r
        BY <3>2, <3>4 DEF Spares
      <3>5. CASE p # r
        BY <1>1, <3>3, <3>5
      <3> QED
        BY <3>4, <3>5
    <2> QED
      BY <1>6, <2>1, <2>2, <2>3 DEF OpStep
  <1>7. CASE UNCHANGED vars
    BY <1>1, <1>7 DEF vars, connVars
  <1> QED
    BY <1>2, <1>3, <1>4, <1>5, <1>6, <1>7 DEF Next

\* No call signals a process spawned after it began, whichever transports
\* share its name and however long the call waits.
THEOREM SuccessorsSpared == Spec => SparesSuccessor
  <1>1. Safe /\ [Next]_vars => \A p \in Procs : Spares(p)
    BY SparesStep
  <1> QED
    BY <1>1, BridgeSafe, PTL DEF Spec, SparesSuccessor

LEMMA DropsStep ==
    ASSUME Safe, [Next]_vars, NEW t \in Transports
    PROVE  KillsWhatItDrops(t)
  <1> DEFINE p == processes[NameOf[t]]
  <1> SUFFICES ASSUME tp[t].ready, ~tp'[t].ready, ~tp[t].cliExited,
                      p # None, Alive(p),
                      \A k \in Tasks : call'[k] # call[k] => call[k].proc = p
               PROVE  lp[p].signal # "none"
    BY DEF KillsWhatItDrops
  <1>0. /\ tp \in [Transports -> Transport] /\ call \in [Tasks -> Call]
        /\ \A u \in Transports :
             DOMAIN tp[u] = {"reconnecting", "ready", "cliExited", "queue"}
        /\ p \in Procs
    BY NamesOf DEF Safe, BridgeTypeOK, ObjectsTypeOK, Transport
  <1>1. lp[p].pty = "closed" \/ ~lp[p].handle => lp[p].signal # "none"
    BY <1>0 DEF Safe, ConnShape, ProcessShape
  <1>2. ASSUME tp' = tp PROVE FALSE
    BY <1>2
  <1>3. CASE World \/ UNCHANGED vars
    BY <1>2, <1>3 DEF World, bridgeVars, vars
  <1>4. ASSUME NEW u \in Transports, Connect(u) PROVE FALSE
    <2>1. PICK q \in Queues : tp' = [tp EXCEPT ![u].ready = TRUE, ![u].queue = q]
      BY <1>4 DEF Connect
    <2> QED
      BY <1>0, <2>1
  <1>5. ASSUME NEW u \in Transports,
               \/ NextMessage(u) \/ CancelRead(u) \/ ReaderStep(u)
               \/ \E kind \in {"initialize", "user"} :
                    Write(u, kind) \/ \E k \in Tasks : WriteFlawed(k, u, kind)
        PROVE  FALSE
    <2>1. \/ tp' = tp
          \/ tp' = [tp EXCEPT ![u].cliExited = TRUE]
          \/ tp' = [tp EXCEPT ![u].reconnecting = FALSE]
      BY <1>5 DEF NextMessage, CancelRead, ReaderStep, Receive, Discard, TakeStdout,
                  TakeStderr, TakeExit, Validated, CallbackRaises, PolicyDecides,
                  Write, WriteFlawed, Intercept, Forward
    <2> QED
      BY <1>0, <2>1
  <1>6. ASSUME NEW u \in Transports, NEW k \in Tasks, Spawn(k, u) \/ Stop(k, u)
        PROVE  FALSE
    <2>1. tp' = tp \/ tp' = [tp EXCEPT ![u].cliExited = TRUE]
      BY <1>6 DEF Spawn, Stop
    <2> QED
      BY <1>0, <2>1
  <1>7. ASSUME NEW u \in Transports, NEW k \in Tasks,
               \E name \in Calls : Close(k, name, u)
        PROVE  ~lp[p].handle
    <2>1. ClosesAtOnce(u) /\ tp' = [tp EXCEPT ![u].ready = FALSE]
      BY <1>2, <1>7 DEF Close, EndClose
    <2>2. u = t
      BY <1>0, <2>1
    <2> QED
      BY <2>1, <2>2 DEF ClosesAtOnce, Killed
  <1>8. ASSUME NEW k \in Tasks, OpStep(k) PROVE lp[p].pty = "closed"
    <2>1. CloseEnds(k)
      BY <1>2, <1>8 DEF OpStep, SpawnStep, KillStep, bridgeVars, DisconnectTimesOut,
                        StopEnds, WriteChecked
    <2>2. call[k].at \in {"wait", "readers"} /\ call' = [call EXCEPT ![k] = Idle]
      BY <2>1 DEF CloseEnds, KillEnds, KillReturns, KillRaises
    <2>3. call'[k] # call[k]
      BY <1>0, <2>2 DEF Idle
    <2>4. call[k].proc = p
      BY <2>3
    <2> QED
      BY <2>2, <2>4 DEF Safe, ConnShape, CallShape
  <1> QED
    BY <1>1, <1>3, <1>4, <1>5, <1>6, <1>7, <1>8 DEF Next

\* A close takes no running process out of the dictionary unsignalled, but
\* one that took the name while it waited.
THEOREM DropsTheKilled == Spec => CloseKillsWhatItDrops
  <1>1. Safe /\ [Next]_vars => \A t \in Transports : KillsWhatItDrops(t)
    BY DropsStep
  <1> QED
    BY <1>1, BridgeSafe, PTL DEF Spec, CloseKillsWhatItDrops

-----------------------------------------------------------------------------
(* What is left in the ptys.                                               *)

\* A process none of whose lines are printed or read.
Still(p) ==
    /\ printed'[p] = printed[p] /\ lp'[p].pipe = lp[p].pipe
    /\ lp[p].out = "done" => lp'[p].out = "done"

LEMMA CancelledDone ==
    ASSUME NEW out PROVE out = "done" => Cancelled(out) = "done"
  BY DEF Cancelled

\* The calls.
LEMMA CallsStill ==
    ASSUME Safe, NEW k \in Tasks, printed' = printed, NEW p \in Procs,
           \/ \E n \in Names : SpawnBegin(k, n) \/ KillBegin(k, n)
           \/ SpawnExec(k) \/ SpawnDone(k) \/ SpawnFails(k)
           \/ KillWaited(k) \/ KillTimesOut(k) \/ KillCancelled(k)
    PROVE  Still(p)
  <1>0. /\ lp \in [Procs -> LocalProcess] /\ \A r \in Procs : DOMAIN lp[r] = Fields
    BY FieldsOf DEF Safe, ObjectsTypeOK
  <1>1. ASSUME NEW n \in Names, SpawnBegin(k, n) PROVE Still(p)
    <2>1. PICK r \in Procs : lp' = [lp EXCEPT ![r].queue = queues[n]]
      BY <1>1 DEF SpawnBegin, Fresh
    <2> QED
      BY <1>0, <2>1 DEF Still, Fields
  <1>2. ASSUME NEW n \in Names, KillBegin(k, n) PROVE Still(p)
    <2> DEFINE r == processes[n]
    <2>1. CASE p # r
      BY <1>0, <1>2, <2>1 DEF KillBegin, Still
    <2>2. CASE p = r
      <3>1. /\ lp'[p].pipe = lp[p].pipe
            /\ lp'[p].out \in {lp[p].out, Cancelled(lp[p].out)}
        BY <1>0, <1>2, <2>2, ZenonT(60) DEF KillBegin, Fields
      <3> QED
        BY <3>1, CancelledDone DEF Still
    <2> QED
      BY <2>1, <2>2
  <1> DEFINE r == call[k].proc
  <1>3. CASE SpawnExec(k) \/ SpawnFails(k) \/ KillCancelled(k)
    BY <1>0, <1>3 DEF SpawnExec, SpawnFails, KillCancelled, Still, Fields
  <1>4. CASE SpawnDone(k)
    <2>1. lp[r].out = "none"
      BY <1>4 DEF SpawnDone, Safe, ConnShape, CallShape
    <2>2. lp' = [lp EXCEPT ![r].pty = "open", ![r].out = "created",
                           ![r].err = "reading"]
      BY <1>4 DEF SpawnDone
    <2> QED
      BY <1>0, <2>1, <2>2 DEF Still, Fields
  <1>5. CASE KillWaited(k) \/ KillTimesOut(k)
    <2>1. PICK signal : LeaveWait(k, signal)
      BY <1>5 DEF KillWaited, KillTimesOut
    <2>2. CASE p # r
      BY <1>0, <2>1, <2>2 DEF LeaveWait, Still
    <2>3. CASE p = r
      <3>1. lp'[p].pipe = lp[p].pipe /\ lp'[p].out = Cancelled(lp[p].out)
        BY <1>0, <2>1, <2>3 DEF LeaveWait, Fields
      <3> QED
        BY <3>1, CancelledDone DEF Still
    <2> QED
      BY <2>2, <2>3
  <1> QED
    BY <1>1, <1>2, <1>3, <1>4, <1>5

\* The CLIs and the readers.
LEMMA TasksStill ==
    ASSUME Safe, NEW r \in Procs,
           Cli(r) \/ ChildReaped(r) \/ StdoutReader(r) \/ StderrReader(r),
           NEW p \in Procs
    PROVE  \/ Still(p)
           \/ p = r /\ \E kind \in Kinds : CliPrint(p, kind)
           \/ p = r /\ ReadLine(p)
  <1>0. /\ lp \in [Procs -> LocalProcess] /\ printed \in [Procs -> Seq(Line)]
        /\ DOMAIN lp[p] = Fields
    BY FieldsOf DEF Safe, ObjectsTypeOK
  <1>1. CASE p # r
    <2>1. CASE Cli(r) \/ ChildReaped(r)
      BY <1>0, <1>1, <2>1 DEF Cli, CliPrint, CliLog, CliExit, ChildReaped, Still
    <2>2. CASE StdoutReader(r)
      BY <1>0, <1>1, <2>2 DEF StdoutReader, StdoutStarts, ReadLine, ReadEof,
         ReadBreaks, ReadClosed, ReadCancelled, EndStdout, Still
    <2>3. CASE StderrReader(r)
      BY <1>0, <1>1, <2>3 DEF StderrReader, ReadStderr, EndStderr, Still
    <2> QED
      BY <2>1, <2>2, <2>3
  <1>2. CASE p = r
    <2>1. CASE CliLog(p) \/ CliExit(p) \/ ChildReaped(p)
      BY <1>0, <2>1 DEF CliLog, CliExit, ChildReaped, Still, Fields
    <2>2. CASE StdoutStarts(p)
      BY <1>0, <2>2 DEF StdoutStarts, Still, Fields
    <2>3. CASE ReadEof(p) \/ ReadBreaks(p) \/ ReadClosed(p) \/ ReadCancelled(p)
      <3>1. lp' = [lp EXCEPT ![p].out = "done"] /\ printed' = printed
        BY <2>3, EndsWith DEF EndStdout
      <3> QED
        BY <1>0, <3>1 DEF Still, Fields
    <2>4. CASE StderrReader(p)
      BY <1>0, <2>4 DEF StderrReader, ReadStderr, EndStderr, Still, Fields
    <2> QED
      BY <1>2, <2>1, <2>2, <2>3, <2>4 DEF Cli, StdoutReader
  <1> QED
    BY <1>1, <1>2

LEMMA PipesMove ==
    ASSUME Safe, [Next]_vars, NEW p \in Procs
    PROVE  Still(p) \/ ReadLine(p) \/ \E kind \in Kinds : CliPrint(p, kind)
  <1>1. ASSUME UNCHANGED <<lp, printed>> PROVE Still(p)
    BY <1>1 DEF Still
  <1>2. CASE World
    BY <1>2, TasksStill DEF World
  <1>3. CASE UNCHANGED vars
    BY <1>1, <1>3 DEF vars, connVars
  <1>4. ASSUME NEW t \in Transports,
               \/ Connect(t) \/ NextMessage(t) \/ CancelRead(t) \/ ReaderStep(t)
               \/ \E kind \in {"initialize", "user"} :
                    Write(t, kind) \/ \E k \in Tasks : WriteFlawed(k, t, kind)
        PROVE  Still(p)
    <2>1. UNCHANGED <<lp, printed>>
      BY <1>4 DEF Connect, NextMessage, CancelRead, ReaderStep, Receive, Validated,
                  CallbackRaises, PolicyDecides, Write, WriteFlawed, connVars
    <2> QED
      BY <1>1, <2>1
  <1>5. ASSUME NEW t \in Transports, NEW k \in Tasks,
               Spawn(k, t) \/ Stop(k, t)
               \/ \E name \in Calls \intersect {"close", "disconnect"} :
                    Close(k, name, t)
        PROVE  Still(p)
    <2>1. /\ printed' = printed
          /\ \/ lp' = lp
             \/ SpawnBegin(k, NameOf[t]) \/ KillBegin(k, NameOf[t])
      BY <1>5 DEF Spawn, Stop, Close, Kill
    <2> QED
      BY <1>1, <2>1, CallsStill, NamesOf
  <1>6. ASSUME NEW k \in Tasks, OpStep(k) PROVE Still(p)
    <2>1. /\ printed' = printed
          /\ \/ lp' = lp
             \/ SpawnExec(k) \/ SpawnDone(k) \/ SpawnFails(k)
             \/ KillWaited(k) \/ KillTimesOut(k) \/ KillCancelled(k)
      BY <1>6 DEF OpStep, SpawnStep, SpawnExec, SpawnDone, SpawnFails, KillStep,
                  KillWaited, KillTimesOut, LeaveWait, DisconnectTimesOut,
                  StopEnds, CloseEnds, WriteChecked, connVars
    <2> QED
      BY <1>1, <2>1, CallsStill
  <1> QED
    BY <1>2, <1>3, <1>4, <1>5, <1>6 DEF Next

\* How far a process's lines were read: its reader may put the line it was
\* at last without taking it.
Reached(p) == Taken(p) + (IF lp[p].out = "done" THEN 1 ELSE 0)

LEMMA NumberedStep ==
    ASSUME Safe, [Next]_vars, NEW p \in Procs, Numbered(p)
    PROVE  Numbered(p)' /\ Reached(p) \in Nat /\ Reached(p)' >= Reached(p)
  <1>0. /\ printed[p] \in Seq(Line) /\ lp[p].pipe \in Seq(Line)
        /\ lp \in [Procs -> LocalProcess] /\ DOMAIN lp[p] = Fields /\ ObjectsTypeOK
    BY FieldsOf DEF Safe, ObjectsTypeOK, LocalProcess
  <1>1. Taken(p) \in Nat
    <2>1. Len(printed[p]) \in Nat /\ Len(lp[p].pipe) \in Nat
      BY <1>0
    <2>2. Len(lp[p].pipe) <= Len(printed[p])
      BY DEF Numbered
    <2> QED
      BY <2>1, <2>2 DEF Taken
  <1>2. Reached(p) \in Nat
    BY <1>1 DEF Reached
  <1>3. ASSUME Numbered(p)', Taken(p)' >= Taken(p), Taken(p)' \in Int,
               lp[p].out = "done" => lp'[p].out = "done"
        PROVE  Numbered(p)' /\ Reached(p)' >= Reached(p)
    BY <1>1, <1>3 DEF Reached
  <1>4. CASE Still(p)
    <2>1. Taken(p)' = Taken(p)
      BY <1>4 DEF Still, Taken
    <2>2. Numbered(p)'
      BY <1>4, <2>1 DEF Still, Numbered
    <2> QED
      BY <1>1, <1>2, <1>3, <1>4, <2>1, <2>2 DEF Still
  <1>5. ASSUME NEW kind \in Kinds, CliPrint(p, kind)
        PROVE  Numbered(p)' /\ Reached(p)' >= Reached(p)
    <2>1. Numbered(p)' /\ Taken(p)' = Taken(p)
      BY <1>0, <1>5, PrintNumbered
    <2>2. lp'[p].out = lp[p].out
      BY <1>0, <1>5 DEF CliPrint, Fields
    <2> QED
      BY <1>1, <1>3, <2>1, <2>2
  <1>6. CASE ReadLine(p)
    <2>1. Numbered(p)' /\ Taken(p)' = Taken(p) + 1
      BY <1>0, <1>6, ReadNumbered
    <2>2. lp[p].out = "reading"
      BY <1>6 DEF ReadLine
    <2>3. Taken(p)' >= Taken(p) /\ Taken(p)' \in Int
      BY <1>1, <2>1
    <2> QED
      BY <1>2, <1>3, <2>1, <2>2, <2>3
  <1> QED
    BY <1>2, <1>4, <1>5, <1>6, PipesMove

-----------------------------------------------------------------------------
(* Where a line is.                                                        *)

\* A line is in a queue, before a callback or the policy, or out: answered or
\* with the host.
InQueue(q, l) == {i \in DOMAIN content[q] : content[q][i] = Stdout(l)}
Held(t, l) == rd[t].at \in {"validate", "policy"} /\ rd[t].line = l
Answers(p, l) == {i \in DOMAIN received[p] :
                    received[p][i].kind = "response" /\ received[p][i].to = l}

WithHost(l) == \E t \in Transports : \E j \in DOMAIN delivered[t] : delivered[t][j] = l

NotQueued(l) == \A q \in Queues : InQueue(q, l) = {}
NotHeld(l) == \A t \in Transports : ~Held(t, l)
Unanswered(l) == \A p \in Procs : Answers(p, l) = {}
NotOut(l) == Unanswered(l) /\ ~WithHost(l)

QueuedOnce(l) ==
    \A q, r \in Queues : \A i \in InQueue(q, l), j \in InQueue(r, l) : q = r /\ i = j
HeldOnce(l) == \A t, u \in Transports : Held(t, l) /\ Held(u, l) => t = u
AnsweredOnce(l) ==
    \A p, r \in Procs : \A i \in Answers(p, l), j \in Answers(r, l) : p = r /\ i = j
OutOnce(l) == AnsweredOnce(l) /\ (Unanswered(l) \/ ~WithHost(l))

\* A line is in one of these places at most, at one position of it, and in
\* none before its reader reached it.
LineOnce(l) ==
    /\ QueuedOnce(l) /\ HeldOnce(l) /\ OutOnce(l)
    /\ NotQueued(l) \/ NotHeld(l)
    /\ NotQueued(l) \/ NotOut(l)
    /\ NotHeld(l) \/ NotOut(l)
    /\ l.id > Reached(l.proc) => NotQueued(l) /\ NotHeld(l) /\ NotOut(l)

\* A step after which the line is nowhere it was not before.
NoQueueMore(l) == \A q \in Queues : InQueue(q, l)' \subseteq InQueue(q, l)
NoReaderMore(l) == \A t \in Transports : Held(t, l)' => Held(t, l)
NoOutMore(l) ==
    /\ \A p \in Procs : Answers(p, l)' \subseteq Answers(p, l)
    /\ WithHost(l)' => WithHost(l)
ReachedMore(p) == Reached(p) \in Nat /\ Reached(p)' \in Nat /\ Reached(p)' >= Reached(p)

LEMMA KeptOnce ==
    ASSUME NEW l \in Line, LineOnce(l), NoQueueMore(l), NoReaderMore(l),
           NoOutMore(l), ReachedMore(l.proc)
    PROVE  LineOnce(l)'
  <1>1. QueuedOnce(l)' /\ HeldOnce(l)' /\ OutOnce(l)'
    BY DEF LineOnce, QueuedOnce, HeldOnce, OutOnce, AnsweredOnce, Unanswered,
           NoQueueMore, NoReaderMore,
           NoOutMore
  <1>2. /\ NotQueued(l) => NotQueued(l)'
        /\ NotHeld(l) => NotHeld(l)'
        /\ NotOut(l) => NotOut(l)'
    BY DEF NotQueued, NotHeld, NotOut, Unanswered, NoQueueMore, NoReaderMore, NoOutMore
  <1>3. l.id \in Nat
    BY BoundsAssumption DEF Line
  <1>4. l.id > Reached(l.proc)' => l.id > Reached(l.proc)
    BY <1>3 DEF ReachedMore
  <1> QED
    BY <1>1, <1>2, <1>4 DEF LineOnce

\* A step that puts the line its reader has just reached.
LEMMA PutOnce ==
    ASSUME NEW l \in Line, LineOnce(l), l.id > Reached(l.proc),
           l.id <= Reached(l.proc)', Reached(l.proc)' \in Nat,
           NoReaderMore(l), NoOutMore(l), QueuedOnce(l)'
    PROVE  LineOnce(l)'
  <1>1. NotQueued(l) /\ NotHeld(l) /\ NotOut(l)
    BY DEF LineOnce
  <1>2. NotHeld(l)' /\ NotOut(l)'
    BY <1>1 DEF NotHeld, NotOut, Unanswered, NoReaderMore, NoOutMore
  <1>3. HeldOnce(l)' /\ OutOnce(l)'
    BY <1>2 DEF HeldOnce, OutOnce, AnsweredOnce, NotHeld, NotOut, Unanswered
  <1>4. ~(l.id > Reached(l.proc)')
    <2>1. l.id \in Nat
      BY BoundsAssumption DEF Line
    <2> QED
      BY <2>1
  <1> QED
    BY <1>2, <1>3, <1>4 DEF LineOnce

\* A step in which a generator takes the line from the head of a queue.
LEMMA TakeOnce ==
    ASSUME NEW l \in Line, LineOnce(l), ReachedMore(l.proc),
           NEW t \in Transports, NEW q \in Queues, 1 \in InQueue(q, l),
           \A r \in Queues : InQueue(r, l)' = {},
           \A u \in Transports : Held(u, l)' => Held(u, l) \/ u = t,
           NoOutMore(l)
    PROVE  LineOnce(l)'
  <1>1. NotHeld(l) /\ NotOut(l) /\ ~(l.id > Reached(l.proc))
    BY DEF LineOnce, NotQueued
  <1>2. NotOut(l)' /\ NotQueued(l)'
    BY <1>1 DEF NotOut, Unanswered, NotQueued, NoOutMore
  <1>3. HeldOnce(l)'
    BY <1>1 DEF HeldOnce, NotHeld
  <1>4. QueuedOnce(l)' /\ OutOnce(l)'
    BY <1>2 DEF QueuedOnce, OutOnce, AnsweredOnce, NotQueued, NotOut, Unanswered
  <1>5. ~(l.id > Reached(l.proc)')
    <2>1. l.id \in Nat
      BY BoundsAssumption DEF Line
    <2> QED
      BY <1>1, <2>1 DEF ReachedMore
  <1> QED
    BY <1>2, <1>3, <1>4, <1>5 DEF LineOnce

\* A step in which the host gets the line from the head of a queue.
LEMMA HandOnce ==
    ASSUME NEW l \in Line, LineOnce(l), ReachedMore(l.proc),
           NEW q \in Queues, 1 \in InQueue(q, l),
           \A r \in Queues : InQueue(r, l)' = {},
           NoReaderMore(l), OutOnce(l)'
    PROVE  LineOnce(l)'
  <1>1. NotHeld(l) /\ ~(l.id > Reached(l.proc))
    BY DEF LineOnce, NotQueued
  <1>2. NotHeld(l)' /\ NotQueued(l)'
    BY <1>1 DEF NotHeld, NotQueued, NoReaderMore
  <1>3. QueuedOnce(l)' /\ HeldOnce(l)'
    BY <1>2 DEF QueuedOnce, HeldOnce, NotQueued, NotHeld
  <1>4. ~(l.id > Reached(l.proc)')
    <2>1. l.id \in Nat
      BY BoundsAssumption DEF Line
    <2> QED
      BY <1>1, <2>1 DEF ReachedMore
  <1> QED
    BY <1>2, <1>3, <1>4 DEF LineOnce

\* A step after which the line a generator held is out.
LEMMA AnswerOnce ==
    ASSUME NEW l \in Line, LineOnce(l), ReachedMore(l.proc),
           NEW t \in Transports, Held(t, l), ~Held(t, l)', NoReaderMore(l),
           NoQueueMore(l), OutOnce(l)'
    PROVE  LineOnce(l)'
  <1>1. NotQueued(l) /\ NotOut(l) /\ ~(l.id > Reached(l.proc))
    BY DEF LineOnce, NotHeld
  <1>2. NotQueued(l)'
    BY <1>1 DEF NotQueued, NoQueueMore
  <1>3. NotHeld(l)'
    BY DEF LineOnce, HeldOnce, NotHeld, NoReaderMore
  <1>4. QueuedOnce(l)' /\ HeldOnce(l)'
    BY <1>2, <1>3 DEF QueuedOnce, HeldOnce, NotQueued, NotHeld
  <1>5. ~(l.id > Reached(l.proc)')
    <2>1. l.id \in Nat
      BY BoundsAssumption DEF Line
    <2> QED
      BY <1>1, <2>1 DEF ReachedMore
  <1> QED
    BY <1>2, <1>3, <1>4, <1>5 DEF LineOnce

\* Where a line is after events were put into a queue.
LEMMA PutPlaces ==
    ASSUME content \in [Queues -> Seq(Handled)], NEW q \in Queues,
           NEW es \in Seq(Handled), content' = Put(q, es), NEW l,
           NEW r \in Queues, NEW i \in InQueue(r, l)'
    PROVE  \/ i \in InQueue(r, l)
           \/ /\ r = q /\ i - Len(content[q]) \in 1..Len(es)
              /\ es[i - Len(content[q])] = Stdout(l)
  <1>1. CASE r # q
    BY <1>1 DEF Put, InQueue
  <1>2. CASE r = q
    <2>1. content'[q] = content[q] \o es /\ content[q] \in Seq(Handled)
      BY DEF Put
    <2>2. /\ DOMAIN (content[q] \o es) = 1..Len(content[q]) + Len(es)
          /\ DOMAIN content[q] = 1..Len(content[q])
          /\ Len(content[q]) \in Nat /\ Len(es) \in Nat
          /\ \A j \in 1..Len(content[q]) : (content[q] \o es)[j] = content[q][j]
          /\ \A j \in Len(content[q]) + 1..Len(content[q]) + Len(es) :
               (content[q] \o es)[j] = es[j - Len(content[q])]
      BY <2>1
    <2>3. i \in 1..Len(content[q]) + Len(es) /\ (content[q] \o es)[i] = Stdout(l)
      BY <1>2, <2>1, <2>2 DEF InQueue
    <2>4. CASE i \in 1..Len(content[q])
      BY <1>2, <2>2, <2>3, <2>4 DEF InQueue
    <2>5. CASE i \in Len(content[q]) + 1..Len(content[q]) + Len(es)
      <3>1. i - Len(content[q]) \in 1..Len(es)
        BY <2>2, <2>5
      <3> QED
        BY <1>2, <2>2, <2>3, <2>5, <3>1
    <2> QED
      BY <2>2, <2>3, <2>4, <2>5
  <1> QED
    BY <1>1, <1>2

\* Where a line is after the first event of a queue was taken.
LEMMA TailPlaces ==
    ASSUME content \in [Queues -> Seq(Handled)], NEW q \in Queues,
           content[q] # <<>>, content' = [content EXCEPT ![q] = Tail(@)], NEW l,
           NEW r \in Queues, NEW i \in InQueue(r, l)'
    PROVE  IF r = q THEN i + 1 \in InQueue(r, l) /\ i + 1 # 1 ELSE i \in InQueue(r, l)
  <1>1. CASE r # q
    BY <1>1 DEF InQueue
  <1>2. CASE r = q
    <2>1. content'[q] = Tail(content[q]) /\ content[q] \in Seq(Handled)
      OBVIOUS
    <2>2. i \in DOMAIN Tail(content[q]) /\ Tail(content[q])[i] = Stdout(l)
      BY <1>2, <2>1 DEF InQueue
    <2>3. i + 1 \in DOMAIN content[q] /\ content[q][i + 1] = Stdout(l)
      BY <2>1, <2>2, TailPoints
    <2>4. DOMAIN Tail(content[q]) = 1..Len(content[q]) - 1 /\ Len(content[q]) \in Nat
      BY <2>1
    <2>5. i + 1 # 1
      BY <2>2, <2>4
    <2> QED
      BY <1>2, <2>3, <2>5 DEF InQueue
  <1> QED
    BY <1>1, <1>2

\* A step that takes another event from a queue moves the line there.
LEMMA ShiftedOnce ==
    ASSUME NEW l \in Line, LineOnce(l), NoReaderMore(l), NoOutMore(l),
           ReachedMore(l.proc), NEW q \in Queues,
           \A r \in Queues : \A i \in InQueue(r, l)' :
             i \in Int /\ IF r = q THEN i + 1 \in InQueue(r, l) ELSE i \in InQueue(r, l)
    PROVE  LineOnce(l)'
  <1>1. ASSUME NEW r \in Queues, NEW s \in Queues, NEW i \in InQueue(r, l)',
               NEW j \in InQueue(s, l)'
        PROVE  r = s /\ i = j
    <2>1. i \in Int /\ j \in Int
      OBVIOUS
    <2>2. r = s
      BY DEF LineOnce, QueuedOnce
    <2>3. CASE r = q
      <3>1. i + 1 = j + 1
        BY <2>2, <2>3 DEF LineOnce, QueuedOnce
      <3> QED
        BY <2>1, <2>2, <3>1
    <2>4. CASE r # q
      BY <2>2, <2>4 DEF LineOnce, QueuedOnce
    <2> QED
      BY <2>3, <2>4
  <1>2. QueuedOnce(l)'
    BY <1>1 DEF QueuedOnce
  <1>3. /\ NotQueued(l) => NotQueued(l)'
        /\ NotHeld(l) => NotHeld(l)'
        /\ NotOut(l) => NotOut(l)'
    BY DEF NotQueued, NotHeld, NotOut, Unanswered, NoReaderMore, NoOutMore
  <1>4. HeldOnce(l)' /\ OutOnce(l)'
    BY DEF LineOnce, HeldOnce, OutOnce, AnsweredOnce, Unanswered,
           NoReaderMore, NoOutMore
  <1>5. l.id > Reached(l.proc)' => l.id > Reached(l.proc)
    <2>1. l.id \in Nat
      BY BoundsAssumption DEF Line
    <2> QED
      BY <2>1 DEF ReachedMore
  <1> QED
    BY <1>2, <1>3, <1>4, <1>5 DEF LineOnce

LEMMA ReachedStep ==
    ASSUME Safe, [Next]_vars, NEW p \in Procs, Numbered(p)
    PROVE  ReachedMore(p)
  <1>1. Numbered(p)' /\ Reached(p) \in Nat /\ Reached(p)' >= Reached(p)
    BY NumberedStep
  <1>2. printed'[p] \in Seq(Line) /\ lp'[p].pipe \in Seq(Line)
    BY SafeStep DEF Safe, ObjectsTypeOK, LocalProcess
  <1>3. Len(printed'[p]) \in Nat /\ Len(lp'[p].pipe) \in Nat
    BY <1>2
  <1>4. Len(lp'[p].pipe) <= Len(printed'[p])
    BY <1>1 DEF Numbered
  <1>5. Taken(p)' \in Nat
    BY <1>3, <1>4 DEF Taken
  <1> QED
    BY <1>1, <1>5 DEF ReachedMore, Reached

LEMMA LinesApart == ASSUME NEW l, NEW m PROVE Stdout(l) = Stdout(m) => l = m
  <1>1. Stdout(l).line = l /\ Stdout(m).line = m
    BY DEF Stdout
  <1> QED
    BY <1>1

\* A step that puts events into one queue, the line not among them.
LEMMA OthersPut ==
    ASSUME Safe, NEW l \in Line, LineOnce(l), NoReaderMore(l), NoOutMore(l),
           ReachedMore(l.proc), NEW q \in Queues, NEW es \in Seq(Handled),
           content' = Put(q, es), \A i \in 1..Len(es) : es[i] # Stdout(l)
    PROVE  LineOnce(l)'
  <1>1. content \in [Queues -> Seq(Handled)]
    BY DEF Safe, BridgeTypeOK
  <1>2. NoQueueMore(l)
    BY <1>1, PutPlaces DEF NoQueueMore
  <1> QED
    BY <1>2, KeptOnce

\* The reader puts the next line, and nothing else that is a line.
LEMMA NextPut ==
    ASSUME Safe, NEW p \in Procs, Numbered(p), lp[p].pipe # <<>>,
           lp[p].queue \in Queues, NEW es \in Seq(Handled), Len(es) \in 1..2,
           es[1] = Stdout(Head(lp[p].pipe)), Len(es) = 2 => es[2] = ExitFrom(p),
           content' = Put(lp[p].queue, es), Reached(p) = Taken(p),
           Reached(p)' = Taken(p) + 1, UNCHANGED <<rd, received, delivered>>,
           NEW l \in Line, LineOnce(l), ReachedMore(l.proc)
    PROVE  LineOnce(l)'
  <1> DEFINE q == lp[p].queue
  <1>0. q \in Queues
    OBVIOUS
  <1>1. NoReaderMore(l) /\ NoOutMore(l)
    BY DEF NoReaderMore, NoOutMore, Held, Answers, WithHost
  <1>2. content \in [Queues -> Seq(Handled)]
    BY DEF Safe, BridgeTypeOK
  <1>3. /\ Head(lp[p].pipe).proc = p /\ Head(lp[p].pipe).id = Taken(p) + 1
        /\ Taken(p) \in Nat
    BY HeadFrom DEF Safe
  <1>4. ExitFrom(p) # Stdout(l)
    BY DEF ExitFrom, Stdout
  <1>5. CASE l = Head(lp[p].pipe)
    <2>1. l.proc = p /\ l.id > Reached(p) /\ l.id <= Reached(p)' /\ Reached(p)' \in Nat
      BY <1>3, <1>5
    <2>2. NotQueued(l)
      BY <2>1 DEF LineOnce
    <2>3. ASSUME NEW r \in Queues, NEW i \in InQueue(r, l)'
          PROVE  r = q /\ i = Len(content[q]) + 1
      <3>1. i \notin InQueue(r, l)
        BY <2>2 DEF NotQueued
      <3>2. /\ r = q /\ i - Len(content[q]) \in 1..Len(es)
            /\ es[i - Len(content[q])] = Stdout(l)
        BY <1>2, <3>1, PutPlaces
      <3>3. i \in Int /\ Len(content[q]) \in Nat
        <4>1. content'[q] \in Seq(Handled)
          BY <1>2, PutHandled
        <4> QED
          BY <1>2, <3>2, <4>1 DEF InQueue
      <3>4. i - Len(content[q]) = 1
        BY <1>4, <3>2, <3>3, SMTT(60)
      <3> QED
        BY <3>2, <3>3, <3>4
    <2>4. QueuedOnce(l)'
      BY <2>3 DEF QueuedOnce
    <2>5. Reached(l.proc)' = Reached(p)'
      BY <2>1 DEF Reached, Taken
    <2>6. Reached(l.proc)' \in Nat /\ l.id > Reached(l.proc) /\ l.id <= Reached(l.proc)'
      BY <2>1, <2>5
    <2> QED
      BY <1>1, <2>4, <2>6, PutOnce
  <1>6. CASE l # Head(lp[p].pipe)
    <2>1. Stdout(Head(lp[p].pipe)) # Stdout(l)
      BY <1>6, LinesApart
    <2>2. \A i \in 1..Len(es) : i = 1 \/ (i = 2 /\ Len(es) = 2)
      <3>1. \A n \in 1..2 : \A i \in 1..n : i = 1 \/ (i = 2 /\ n = 2)
        OBVIOUS
      <3> QED
        BY <3>1
    <2>3. \A i \in 1..Len(es) : es[i] # Stdout(l)
      BY <1>4, <2>1, <2>2
    <2> QED
      BY <1>1, <2>3, OthersPut
  <1> QED
    BY <1>5, <1>6

\* What the CLIs and the readers do.
LEMMA WorldOnce ==
    ASSUME Safe, [Next]_vars, World, \A p \in Procs : Numbered(p),
           NEW l \in Line, LineOnce(l)
    PROVE  LineOnce(l)'
  <1>0. UNCHANGED <<rd, received, delivered>>
    BY DEF World, bridgeVars
  <1>1. NoReaderMore(l) /\ NoOutMore(l)
    BY <1>0 DEF NoReaderMore, NoOutMore, Held, Answers, WithHost
  <1>2. ReachedMore(l.proc)
    <2>1. l.proc \in Procs
      BY DEF Line
    <2> QED
      BY <2>1, ReachedStep
  <1>3. ASSUME content' = content PROVE LineOnce(l)'
    <2>1. NoQueueMore(l)
      BY <1>3 DEF NoQueueMore, InQueue
    <2> QED
      BY <1>1, <1>2, <2>1, KeptOnce
  <1>4. PICK p \in Procs :
          Cli(p) \/ ChildReaped(p) \/ StdoutReader(p) \/ StderrReader(p)
    BY DEF World
  <1>5. /\ ObjectsTypeOK /\ ProcessShape /\ Numbered(p)
        /\ lp \in [Procs -> LocalProcess] /\ DOMAIN lp[p] = Fields
    BY FieldsOf DEF Safe, ConnShape, ObjectsTypeOK
  <1>6. StdoutReader(p) \/ StderrReader(p) => lp[p].queue \in Queues
    BY <1>5, ReadersQueue
  <1>7. ASSUME lp[p].queue \in Queues, NEW e \in Sent, e.type # "stdout",
               content' = Put(lp[p].queue, <<e>>)
        PROVE  LineOnce(l)'
    <2>1. e # Stdout(l)
      BY <1>7 DEF Stdout
    <2>2. <<e>> \in Seq(Handled) /\ \A i \in 1..Len(<<e>>) : <<e>>[i] # Stdout(l)
      BY <2>1 DEF Handled
    <2> QED
      BY <1>1, <1>2, <1>7, <2>2, OthersPut
  <1>8. ExitFrom(p) \in Sent /\ ExitFrom(p).type # "stdout"
    <2>1. ExitFrom(p) \in Event
      BY EventsBuilt
    <2> QED
      BY <2>1 DEF Sent, ExitFrom
  <1>9. ASSUME lp[p].pipe # <<>>,
               Head(lp[p].pipe).kind \notin {"breaking", "junk"}
        PROVE  Stdout(Head(lp[p].pipe)) \in Handled
    <2>1. Head(lp[p].pipe) \in Line
      BY <1>5, <1>9 DEF LocalProcess
    <2>2. Stdout(Head(lp[p].pipe)) \in Event
      BY <2>1, EventsBuilt
    <2>3. Stdout(Head(lp[p].pipe)).line.kind \notin {"junk", "breaking"}
      BY <1>9 DEF Stdout
    <2> QED
      BY <2>2, <2>3 DEF Sent, Handled
  <1>10. CASE Cli(p) \/ ChildReaped(p) \/ StdoutStarts(p)
    BY <1>3, <1>10 DEF Cli, CliPrint, CliLog, CliExit, ChildReaped, StdoutStarts
  <1>11. CASE ReadLine(p)
    <2>1. CASE Head(lp[p].pipe).kind = "junk"
      BY <1>3, <1>11, <2>1 DEF ReadLine
    <2>2. CASE Head(lp[p].pipe).kind # "junk"
      <3> DEFINE es == <<Stdout(Head(lp[p].pipe))>>
      <3>1. /\ lp[p].pipe # <<>> /\ Head(lp[p].pipe).kind \notin {"breaking", "junk"}
            /\ content' = Put(lp[p].queue, es) /\ lp[p].out = "reading"
            /\ lp' = [lp EXCEPT ![p].pipe = Tail(@)]
        BY <1>11, <2>2 DEF ReadLine
      <3>2. /\ es \in Seq(Handled) /\ Len(es) \in 1..2
            /\ es[1] = Stdout(Head(lp[p].pipe)) /\ (Len(es) = 2 => es[2] = ExitFrom(p))
        BY <1>9, <3>1
      <3>3. Taken(p)' = Taken(p) + 1 /\ Taken(p) \in Nat
        BY <1>5, <1>11, <3>1, HeadFrom, ReadNumbered
      <3>4. lp'[p].out = "reading"
        BY <1>5, <3>1 DEF Fields
      <3>5. Reached(p) = Taken(p) /\ Reached(p)' = Taken(p) + 1
        BY <3>1, <3>3, <3>4 DEF Reached
      <3> HIDE DEF es
      <3> QED
        BY <1>0, <1>2, <1>5, <1>6, <1>11, <3>1, <3>2, <3>5, NextPut DEF StdoutReader
    <2> QED
      BY <2>1, <2>2
  <1>12. CASE ReadEof(p) \/ ReadBreaks(p) \/ ReadClosed(p) \/ ReadCancelled(p)
    <2>1. CASE EndStdout(p, <<>>)
      <3>1. content' = Put(lp[p].queue, <<ExitFrom(p)>>)
        BY <2>1 DEF EndStdout
      <3> QED
        BY <1>6, <1>7, <1>8, <1>12, <3>1 DEF StdoutReader
    <2>2. CASE /\ lp[p].out = "reading" /\ lp[p].pipe # <<>>
               /\ Head(lp[p].pipe).kind \notin {"breaking", "junk"}
               /\ EndStdout(p, <<Stdout(Head(lp[p].pipe))>>)
      <3> DEFINE es == <<Stdout(Head(lp[p].pipe))>> \o <<ExitFrom(p)>>
      <3>1. /\ content' = Put(lp[p].queue, es) /\ printed' = printed
            /\ lp' = [lp EXCEPT ![p].out = "done"]
        BY <2>2 DEF EndStdout
      <3>2. ASSUME NEW x \in Handled, NEW y \in Handled
            PROVE  /\ <<x>> \o <<y>> \in Seq(Handled) /\ Len(<<x>> \o <<y>>) = 2
                   /\ (<<x>> \o <<y>>)[1] = x /\ (<<x>> \o <<y>>)[2] = y
        OBVIOUS
      <3>3. Stdout(Head(lp[p].pipe)) \in Handled /\ ExitFrom(p) \in Handled
        BY <1>8, <1>9, <2>2 DEF Handled
      <3>4. /\ es \in Seq(Handled) /\ Len(es) \in 1..2
            /\ es[1] = Stdout(Head(lp[p].pipe)) /\ (Len(es) = 2 => es[2] = ExitFrom(p))
        BY <3>2, <3>3
      <3>5. lp'[p].out = "done" /\ lp'[p].pipe = lp[p].pipe
        BY <1>5, <3>1 DEF Fields
      <3>6. Taken(p)' = Taken(p) /\ Taken(p) \in Nat
        BY <1>5, <2>2, <3>1, <3>5, HeadFrom DEF Taken
      <3>7. Reached(p) = Taken(p) /\ Reached(p)' = Taken(p) + 1
        BY <2>2, <3>5, <3>6 DEF Reached
      <3> HIDE DEF es
      <3> QED
        BY <1>0, <1>2, <1>5, <1>6, <1>12, <2>2, <3>1, <3>4, <3>7, NextPut
           DEF StdoutReader
    <2> QED
      BY <1>12, <2>1, <2>2 DEF ReadEof, ReadBreaks, ReadClosed, ReadCancelled
  <1>13. CASE StderrReader(p)
    <2>1. \/ content' = content
          \/ lp[p].errs # <<>>
             /\ content' = Put(lp[p].queue, <<Stderr(Head(lp[p].errs))>>)
      BY <1>13 DEF StderrReader, ReadStderr, EndStderr
    <2>2. CASE lp[p].errs # <<>>
               /\ content' = Put(lp[p].queue, <<Stderr(Head(lp[p].errs))>>)
      <3>1. Head(lp[p].errs) \in ErrLine
        BY <1>5, <2>2 DEF LocalProcess
      <3>2. Stderr(Head(lp[p].errs)) \in Event /\ Stderr(Head(lp[p].errs)).type = "stderr"
        BY <3>1, EventsBuilt DEF Stderr
      <3>3. Stderr(Head(lp[p].errs)) \in Sent /\ Stderr(Head(lp[p].errs)).type # "stdout"
        BY <3>2 DEF Sent
      <3> QED
        BY <1>6, <1>7, <1>13, <2>2, <3>3
    <2> QED
      BY <1>3, <2>1, <2>2
  <1> QED
    BY <1>4, <1>10, <1>11, <1>12, <1>13 DEF StdoutReader

\* A line the host gets as a generator takes an event.
LEMMA ReceiveHands ==
    ASSUME Safe, NEW t \in Transports, Receive(t), NEW l \in Line,
           WithHost(l)', ~WithHost(l)
    PROVE  Head(content[rd[t].queue]) = Stdout(l) /\ delivered'[t] # delivered[t]
  <1> DEFINE e == Head(content[rd[t].queue])
  <1>0. /\ delivered \in [Transports -> Seq(Yielded)]
        /\ content[rd[t].queue] \in Seq(Handled) /\ content[rd[t].queue] # <<>>
    BY DEF Safe, BridgeTypeOK, ReaderShape, Receive
  <1>1. e \in Handled
    BY <1>0
  <1>2. delivered' = delivered
        \/ (e.type = "stdout" /\ delivered' = [delivered EXCEPT ![t] = Append(@, e.line)])
    <2>1. Discard(t, e) \/ TakeStdout(t, e) \/ TakeStderr(t, e) \/ TakeExit(t, e)
      BY DEF Receive
    <2> HIDE DEF e
    <2> QED
      BY <2>1 DEF Discard, TakeStdout, TakeStderr, TakeExit, Return, Holding,
                  Onward, Yield
  <1>31. PICK u \in Transports : \E j \in DOMAIN delivered'[u] : delivered'[u][j] = l
    BY DEF WithHost
  <1>3. PICK j \in DOMAIN delivered'[u] : delivered'[u][j] = l
    BY <1>31
  <1>4. delivered' # delivered
    BY DEF WithHost
  <1>5. e.type = "stdout" /\ delivered' = [delivered EXCEPT ![t] = Append(@, e.line)]
    BY <1>2, <1>4
  <1>6. e = Stdout(e.line)
    BY <1>1, <1>5, HandledLines
  <1> HIDE DEF e
  <1>7. /\ delivered[t] \in Seq(Yielded)
        /\ delivered'[t] = Append(delivered[t], e.line)
        /\ \A v \in Transports \ {t} : delivered'[v] = delivered[v]
    BY <1>0, <1>5
  <1>8. u = t /\ ~(j \in DOMAIN delivered[t] /\ delivered[t][j] = l)
    BY <1>3, <1>7 DEF WithHost
  <1>9. j = Len(delivered[t]) + 1 /\ delivered'[t][j] = e.line
    <2>1. /\ DOMAIN delivered'[t] = 1..Len(delivered[t]) + 1
          /\ \A i \in 1..Len(delivered[t]) : delivered'[t][i] = delivered[t][i]
          /\ delivered'[t][Len(delivered[t]) + 1] = e.line
          /\ DOMAIN delivered[t] = 1..Len(delivered[t]) /\ Len(delivered[t]) \in Nat
      BY <1>7
    <2> QED
      BY <1>3, <1>8, <2>1
  <1>10. Len(delivered'[t]) = Len(delivered[t]) + 1 /\ Len(delivered[t]) \in Nat
    BY <1>7
  <1> QED
    BY <1>3, <1>6, <1>8, <1>9, <1>10 DEF e

\* A generator that takes an event.
LEMMA ReceiveOnce ==
    ASSUME Safe, NEW t \in Transports, Receive(t), NEW l \in Line, LineOnce(l),
           ReachedMore(l.proc)
    PROVE  LineOnce(l)'
  <1> DEFINE q == rd[t].queue
  <1>0. /\ content \in [Queues -> Seq(Handled)] /\ rd \in [Transports -> Reader]
        /\ rd[t].at = "get" /\ q \in Queues /\ content[q] # <<>>
        /\ content' = [content EXCEPT ![q] = Tail(@)] /\ received' = received
    BY DEF Safe, BridgeTypeOK, ReaderShape, Receive
  <1>1. /\ \A p \in Procs : Answers(p, l)' = Answers(p, l)
        /\ Unanswered(l)' = Unanswered(l)
        /\ AnsweredOnce(l)' = AnsweredOnce(l)
    BY <1>0 DEF Answers, Unanswered, AnsweredOnce
  <1>2. ASSUME NEW u \in Transports, Held(u, l)'
        PROVE  Held(u, l) \/ (u = t /\ Shows(t) /\ Head(content[q]) = Stdout(l))
    <2>1. PICK r : rd' = [rd EXCEPT ![t] = r]
      BY ReceiveMoves
    <2>2. CASE u # t
      BY <1>0, <1>2, <2>1, <2>2 DEF Held
    <2>3. CASE u = t
      <3>1. rd'[t].at \in {"validate", "policy"} /\ rd'[t].line = l
        BY <1>2, <2>3 DEF Held
      <3>2. ReaderMoves(t)
        BY ReceiveMoves
      <3>3. Shows(t)
        BY <1>0, <3>1, <3>2 DEF ReaderMoves, Ends, Waits, Passes, Yields, NotReading,
                                Awaiting
      <3> QED
        BY <2>3, <3>1, <3>3 DEF Shows
    <2> QED
      BY <2>2, <2>3
  <1>6. ASSUME WithHost(l)', ~WithHost(l)
        PROVE  Head(content[q]) = Stdout(l) /\ ~Shows(t)
    BY <1>6, ReceiveHands DEF WithHost, Shows, Quiet
  <1>3. ASSUME NEW r \in Queues, NEW i \in InQueue(r, l)'
        PROVE  /\ i \in Int
               /\ IF r = q THEN i + 1 \in InQueue(r, l) /\ i + 1 # 1
                  ELSE i \in InQueue(r, l)
    <2>1. IF r = q THEN i + 1 \in InQueue(r, l) /\ i + 1 # 1 ELSE i \in InQueue(r, l)
      BY <1>0, <1>3, TailPlaces
    <2>2. content'[r] \in Seq(Handled)
      <3>1. Tail(content[q]) \in Seq(Handled)
        BY <1>0
      <3> QED
        BY <1>0, <3>1
    <2> QED
      BY <1>3, <2>1, <2>2 DEF InQueue
  <1>4. CASE Head(content[q]) = Stdout(l)
    <2>1. 1 \in InQueue(q, l)
      <3>1. content[q] \in Seq(Handled)
        BY <1>0
      <3> QED
        BY <1>0, <1>4, <3>1 DEF InQueue
    <2>2. \A r \in Queues : InQueue(r, l)' = {}
      BY <1>0, <1>3, <2>1 DEF LineOnce, QueuedOnce
    <2>3. CASE Shows(t)
      <3>1. NoOutMore(l)
        BY <1>1, <1>6, <2>3 DEF NoOutMore
      <3> QED
        BY <1>0, <1>2, <2>1, <2>2, <3>1, TakeOnce
    <2>4. CASE ~Shows(t)
      <3>1. NoReaderMore(l)
        BY <1>2, <2>4 DEF NoReaderMore
      <3>2. OutOnce(l)'
        <4>1. NotOut(l)
          BY <1>0, <2>1 DEF LineOnce, NotQueued
        <4>2. AnsweredOnce(l) /\ Unanswered(l)
          BY <4>1 DEF LineOnce, OutOnce, NotOut
        <4> QED
          BY <1>1, <4>2 DEF OutOnce
      <3> QED
        BY <1>0, <2>1, <2>2, <3>1, <3>2, HandOnce
    <2> QED
      BY <2>3, <2>4
  <1>5. CASE Head(content[q]) # Stdout(l)
    <2>1. NoReaderMore(l) /\ NoOutMore(l)
      BY <1>1, <1>2, <1>5, <1>6 DEF NoReaderMore, NoOutMore
    <2>2. \A r \in Queues : \A i \in InQueue(r, l)' :
            i \in Int /\ IF r = q THEN i + 1 \in InQueue(r, l) ELSE i \in InQueue(r, l)
      BY <1>3
    <2> HIDE DEF q
    <2> QED
      BY <1>0, <2>1, <2>2, ShiftedOnce
  <1> QED
    BY <1>4, <1>5

\* Where a line's answers are after a CLI got a message.
LEMMA AnswerPlaces ==
    ASSUME Safe, NEW p \in Procs, NEW x \in Input,
           received' = [received EXCEPT ![p] = Append(@, x)], NEW l,
           NEW r \in Procs, NEW i \in Answers(r, l)'
    PROVE  \/ i \in Answers(r, l)
           \/ /\ r = p /\ i = Len(received[p]) + 1
              /\ x.kind = "response" /\ x.to = l
  <1>0. received \in [Procs -> Seq(Input)]
    BY DEF Safe, BridgeTypeOK
  <1>1. CASE r # p
    BY <1>0, <1>1 DEF Answers
  <1>2. CASE r = p
    <2>1. received'[p] = Append(received[p], x) /\ received[p] \in Seq(Input)
      BY <1>0
    <2>2. /\ DOMAIN Append(received[p], x) = 1..Len(received[p]) + 1
          /\ DOMAIN received[p] = 1..Len(received[p]) /\ Len(received[p]) \in Nat
          /\ \A j \in 1..Len(received[p]) : Append(received[p], x)[j] = received[p][j]
          /\ Append(received[p], x)[Len(received[p]) + 1] = x
      BY <2>1
    <2>3. /\ i \in 1..Len(received[p]) + 1
          /\ Append(received[p], x)[i].kind = "response"
          /\ Append(received[p], x)[i].to = l
      BY <1>2, <2>1, <2>2 DEF Answers
    <2>4. CASE i \in 1..Len(received[p])
      BY <1>2, <2>2, <2>3, <2>4 DEF Answers
    <2>5. CASE i = Len(received[p]) + 1
      BY <1>2, <2>2, <2>3, <2>5
    <2> QED
      BY <2>2, <2>3, <2>4, <2>5
  <1> QED
    BY <1>1, <1>2

\* A policy that decides.
LEMMA DecideOnce ==
    ASSUME Safe, NEW t \in Transports, PolicyDecides(t), NEW l \in Line, LineOnce(l),
           ReachedMore(l.proc)
    PROVE  LineOnce(l)'
  <1> DEFINE x == Response(t, rd[t].line)
  <1>0. /\ rd \in [Transports -> Reader] /\ rd[t].at = "policy"
        /\ rd[t].line \in Line /\ Decides(t, rd[t].line) /\ content' = content
        /\ delivered' = delivered
        /\ rd' = [rd EXCEPT ![t] = Awaiting(t)] \/ rd' = [rd EXCEPT ![t] = NotReading]
    BY DEF Safe, BridgeTypeOK, ReaderShape, PolicyDecides, connVars
  <1>1. NoQueueMore(l)
    BY <1>0 DEF NoQueueMore, InQueue
  <1>2. NoReaderMore(l) /\ ~Held(t, l)'
    BY <1>0 DEF NoReaderMore, Held, Awaiting, NotReading
  <1>3. x \in Input /\ x.to = rd[t].line
    BY <1>0 DEF Response, Input, Decides
  <1>4. received' = received \/ \E p \in Procs : Gets(p, x)
    <2>1. SendStdin(NameOf[t], x) /\ GotAnswer(x)
      BY DEF PolicyDecides, GotAnswer
    <2> HIDE DEF x
    <2> QED
      BY <1>3, <2>1, NamesOf, SendStdinGets
  <1> HIDE DEF x
  <1>5. CASE received' = received
    <2>1. NoOutMore(l)
      BY <1>0, <1>5 DEF NoOutMore, Answers, WithHost
    <2> QED
      BY <1>1, <1>2, <2>1, KeptOnce
  <1>6. ASSUME NEW p \in Procs, Gets(p, x) PROVE LineOnce(l)'
    <2>1. received' = [received EXCEPT ![p] = Append(@, x)]
      BY <1>6 DEF Gets
    <2>2. CASE l = rd[t].line
      <3>1. Held(t, l)
        BY <1>0, <2>2 DEF Held
      <3>2. \A r \in Procs : \A i \in Answers(r, l)' :
              i \in Answers(r, l) \/ (r = p /\ i = Len(received[p]) + 1)
        BY <1>3, <2>1, AnswerPlaces
      <3>3. NotOut(l)
        BY <3>1 DEF LineOnce, NotHeld
      <3>4. OutOnce(l)'
        <4>1. ~WithHost(l)'
          BY <1>0, <3>3 DEF WithHost, NotOut
        <4>2. AnsweredOnce(l)'
          BY <3>2, <3>3 DEF AnsweredOnce, NotOut, Unanswered
        <4> QED
          BY <4>1, <4>2 DEF OutOnce
      <3> QED
        BY <1>1, <1>2, <3>1, <3>4, AnswerOnce
    <2>3. CASE l # rd[t].line
      <3>1. NoOutMore(l)
        BY <1>0, <1>3, <2>1, <2>3, AnswerPlaces DEF NoOutMore, WithHost
      <3> QED
        BY <1>1, <1>2, <3>1, KeptOnce
    <2> QED
      BY <2>2, <2>3
  <1> QED
    BY <1>4, <1>5, <1>6

\* A callback that returns: the line goes to the policy or to the host.
LEMMA ValidatedOnce ==
    ASSUME Safe, NEW t \in Transports, Validated(t), NEW l \in Line, LineOnce(l),
           ReachedMore(l.proc)
    PROVE  LineOnce(l)'
  <1> DEFINE m == rd[t].line
  <1>0. /\ rd \in [Transports -> Reader] /\ rd[t].at = "validate"
        /\ delivered \in [Transports -> Seq(Yielded)]
        /\ UNCHANGED <<content, received>> /\ Onward(t, m)
    BY DEF Safe, BridgeTypeOK, Validated, connVars
  <1>1. NoQueueMore(l)
    BY <1>0 DEF NoQueueMore, InQueue
  <1>2. NoReaderMore(l)
    <2>1. \E r : rd' = [rd EXCEPT ![t] = r]
                 /\ (r.at \in {"validate", "policy"} => r.line = m)
      BY <1>0 DEF Onward, Holding, Yield, NotReading
    <2> HIDE DEF m
    <2>2. rd[t].line = m
      BY DEF m
    <2> QED
      BY <1>0, <2>1, <2>2 DEF NoReaderMore, Held
  <1>3. /\ \A p \in Procs : Answers(p, l)' = Answers(p, l)
        /\ Unanswered(l)' = Unanswered(l)
        /\ AnsweredOnce(l)' = AnsweredOnce(l)
    BY <1>0 DEF Answers, Unanswered, AnsweredOnce
  <1>4. CASE ~WithHost(l)' \/ WithHost(l)
    <2>1. NoOutMore(l)
      BY <1>3, <1>4 DEF NoOutMore
    <2> QED
      BY <1>1, <1>2, <2>1, KeptOnce
  <1>5. CASE WithHost(l)' /\ ~WithHost(l)
    <2>1. delivered' # delivered
      BY <1>5 DEF WithHost
    <2>2. Yield(t, m)
      BY <1>0, <2>1 DEF Onward, Holding
    <2>3. /\ delivered[t] \in Seq(Yielded) /\ delivered'[t] = Append(delivered[t], m)
          /\ \A v \in Transports \ {t} : delivered'[v] = delivered[v]
          /\ rd'[t].at = "paused"
      BY <1>0, <2>2 DEF Yield, NotReading
    <2>41. PICK u \in Transports : \E j \in DOMAIN delivered'[u] : delivered'[u][j] = l
      BY <1>5 DEF WithHost
    <2>4. PICK j \in DOMAIN delivered'[u] : delivered'[u][j] = l
      BY <2>41
    <2>5. u = t /\ ~(j \in DOMAIN delivered[t] /\ delivered[t][j] = l)
      BY <1>5, <2>3, <2>4 DEF WithHost
    <2>6. /\ DOMAIN Append(delivered[t], m) = 1..Len(delivered[t]) + 1
          /\ \A i \in 1..Len(delivered[t]) : Append(delivered[t], m)[i] = delivered[t][i]
          /\ Append(delivered[t], m)[Len(delivered[t]) + 1] = m
          /\ DOMAIN delivered[t] = 1..Len(delivered[t]) /\ Len(delivered[t]) \in Nat
      BY <2>3
    <2>7. l = m
      BY <2>3, <2>4, <2>5, <2>6
    <2>8. Held(t, l) /\ ~Held(t, l)'
      BY <1>0, <2>3, <2>7 DEF Held
    <2>9. OutOnce(l)'
      <3>1. NotOut(l)
        BY <2>8 DEF LineOnce, NotHeld
      <3>2. AnsweredOnce(l) /\ Unanswered(l)
        BY <3>1 DEF LineOnce, OutOnce, NotOut
      <3> QED
        BY <1>3, <3>2 DEF OutOnce
    <2> QED
      BY <1>1, <1>2, <2>8, <2>9, AnswerOnce
  <1> QED
    BY <1>4, <1>5

\* A message whose callback has returned.
LEMMA CheckedOnce ==
    ASSUME Safe, NEW k \in Tasks, WriteChecked(k), NEW l \in Line, LineOnce(l),
           ReachedMore(l.proc)
    PROVE  LineOnce(l)'
  <1> DEFINE x == UserInput(op[k].t, op[k].item)
  <1>0. UNCHANGED <<content, rd, delivered>>
    BY DEF WriteChecked, connVars
  <1>1. NoQueueMore(l) /\ NoReaderMore(l)
    BY <1>0 DEF NoQueueMore, InQueue, NoReaderMore, Held
  <1>2. /\ op[k].t \in Transports /\ op[k].item \in {"initialize", "user"}
        /\ ~MustIntercept(op[k].t, op[k].item)
        /\ received' = received \/ SendStdin(NameOf[op[k].t], x)
    BY DEF WriteChecked, Safe, OpShape
  <1>3. x \in Input /\ GotMessage(x) /\ x.kind # "response"
    BY <1>2 DEF UserInput, Input, GotMessage
  <1> HIDE DEF x
  <1>4. received' = received \/ \E p \in Procs : Gets(p, x)
    BY <1>2, <1>3, NamesOf, SendStdinGets
  <1>5. NoOutMore(l)
    <2>1. CASE received' = received
      BY <1>0, <2>1 DEF NoOutMore, Answers, WithHost
    <2>2. ASSUME NEW p \in Procs, Gets(p, x) PROVE NoOutMore(l)
      BY <1>0, <1>3, <2>2, AnswerPlaces DEF Gets, NoOutMore, WithHost
    <2> QED
      BY <1>4, <2>1, <2>2
  <1> QED
    BY <1>1, <1>5, KeptOnce

\* The writes of the hosts, and stop.
LEMMA WriteOnce ==
    ASSUME Safe, NEW t \in Transports, NEW kind \in {"initialize", "user"},
           Write(t, kind), NEW l \in Line, LineOnce(l), ReachedMore(l.proc)
    PROVE  LineOnce(l)'
  <1>1. NoReaderMore(l) /\ delivered' = delivered
    BY DEF Write, NoReaderMore, Held
  <1>2. CASE Intercept(t, kind)
    <2>1. NoOutMore(l)
      BY <1>1, <1>2 DEF Intercept, NoOutMore, Answers, WithHost
    <2>2. \/ content' = content
          \/ /\ tp[t].queue # None
             /\ content' = Put(tp[t].queue, <<Stdout(FakeResponse)>>)
      BY <1>2 DEF Intercept
    <2>3. CASE content' = content
      <3>1. NoQueueMore(l)
        BY <2>3 DEF NoQueueMore, InQueue
      <3> QED
        BY <1>1, <2>1, <3>1, KeptOnce
    <2>4. CASE tp[t].queue # None
               /\ content' = Put(tp[t].queue, <<Stdout(FakeResponse)>>)
      <3>1. Stdout(FakeResponse) # Stdout(l)
        BY FakeApart, LinesApart
      <3>2. tp[t].queue \in Queues
        BY <2>4 DEF Safe, BridgeTypeOK, Transport
      <3> DEFINE es == <<Stdout(FakeResponse)>>
      <3>3. es \in Seq(Handled) /\ \A i \in 1..Len(es) : es[i] # Stdout(l)
        BY <3>1 DEF Handled
      <3> HIDE DEF es
      <3> QED
        BY <1>1, <2>1, <2>4, <3>2, <3>3, OthersPut DEF es
    <2> QED
      BY <2>2, <2>3, <2>4
  <1>3. CASE Forward(t, kind)
    <2> DEFINE x == UserInput(t, kind)
    <2>1. content' = content
      BY <1>3 DEF Forward
    <2>2. x \in Input /\ x.kind # "response"
      BY DEF UserInput, Input
    <2>3. received' = received \/ \E p \in Procs : Gets(p, x)
      <3>1. SendStdin(NameOf[t], x) /\ GotMessage(x)
        BY <1>3 DEF Forward, GotMessage
      <3> HIDE DEF x
      <3> QED
        BY <2>2, <3>1, NamesOf, SendStdinGets
    <2> HIDE DEF x
    <2>4. NoOutMore(l)
      <3>1. CASE received' = received
        BY <1>1, <3>1 DEF NoOutMore, Answers, WithHost
      <3>2. ASSUME NEW p \in Procs, Gets(p, x) PROVE NoOutMore(l)
        BY <1>1, <2>2, <3>2, AnswerPlaces DEF Gets, NoOutMore, WithHost
      <3> QED
        BY <2>3, <3>1, <3>2
    <2> QED
      BY <1>1, <2>1, <2>4, KeptOnce DEF NoQueueMore, InQueue
  <1> QED
    BY <1>2, <1>3 DEF Write

LEMMA StopOnce ==
    ASSUME Safe, NEW t \in Transports, NEW k \in Tasks, Stop(k, t),
           NEW l \in Line, LineOnce(l), ReachedMore(l.proc)
    PROVE  LineOnce(l)'
  <1>1. NoReaderMore(l) /\ NoOutMore(l)
    BY DEF Stop, NoReaderMore, Held, NoOutMore, Answers, WithHost
  <1>2. CASE content' = content
    BY <1>1, <1>2, KeptOnce DEF NoQueueMore, InQueue
  <1>3. CASE tp[t].queue # None /\ content' = Put(tp[t].queue, <<StopEvent>>)
    <2>1. StopEvent # Stdout(l)
      BY DEF StopEvent, ExitFrom, Stdout
    <2>2. tp[t].queue \in Queues
      BY <1>3 DEF Safe, BridgeTypeOK, Transport
    <2> DEFINE es == <<StopEvent>>
    <2>3. es \in Seq(Handled) /\ \A i \in 1..Len(es) : es[i] # Stdout(l)
      BY <2>1 DEF Handled
    <2> HIDE DEF es
    <2> QED
      BY <1>1, <1>3, <2>2, <2>3, OthersPut DEF es
  <1> QED
    BY <1>2, <1>3 DEF Stop, StopInjects

LEMMA OnceStep ==
    ASSUME Safe, [Next]_vars, \A p \in Procs : Numbered(p), NEW l \in Line,
           LineOnce(l)
    PROVE  LineOnce(l)'
  <1>1. ReachedMore(l.proc)
    <2>1. l.proc \in Procs
      BY DEF Line
    <2> QED
      BY <2>1, ReachedStep
  <1>2. ASSUME UNCHANGED <<content, received, delivered>>, NoReaderMore(l)
        PROVE  LineOnce(l)'
    BY <1>1, <1>2, KeptOnce DEF NoQueueMore, InQueue, NoOutMore, Answers, WithHost
  <1>3. ASSUME NEW t \in Transports,
               NextMessage(t) \/ CancelRead(t) \/ CallbackRaises(t)
        PROVE  LineOnce(l)'
    <2>1. UNCHANGED <<content, received, delivered>> /\ rd \in [Transports -> Reader]
      BY <1>3 DEF NextMessage, CancelRead, CallbackRaises, Return, connVars, Safe,
                  BridgeTypeOK
    <2>2. \E r : rd' = [rd EXCEPT ![t] = r] /\ r.at \notin {"validate", "policy"}
      <3>1. Awaiting(t).at = "get" /\ NotReading.at = "idle"
        BY DEF Awaiting, NotReading
      <3> QED
        BY <1>3, <3>1 DEF NextMessage, CancelRead, CallbackRaises, Return
    <2>3. NoReaderMore(l)
      BY <2>1, <2>2 DEF NoReaderMore, Held
    <2> QED
      BY <1>2, <2>1, <2>3
  <1>4. ASSUME NEW t \in Transports, NEW k \in Tasks,
               \/ Spawn(k, t)
               \/ \E name \in Calls \intersect {"close", "disconnect"} : Close(k, name, t)
               \/ \E kind \in {"initialize", "user"} : WriteFlawed(k, t, kind)
        PROVE  LineOnce(l)'
    <2>1. UNCHANGED <<content, received, rd, delivered>>
      BY <1>4 DEF Spawn, Close, WriteFlawed, connVars
    <2> QED
      BY <1>2, <2>1 DEF NoReaderMore, Held
  <1>5. ASSUME NEW t \in Transports, Connect(t) PROVE LineOnce(l)'
    <2>1. UNCHANGED <<content, received, rd, delivered>>
      BY <1>5 DEF Connect
    <2> QED
      BY <1>2, <2>1 DEF NoReaderMore, Held
  <1>6. ASSUME NEW k \in Tasks, OpStep(k), ~WriteChecked(k) PROVE LineOnce(l)'
    <2>1. UNCHANGED <<content, received, rd, delivered>>
      BY <1>6 DEF OpStep, SpawnStep, SpawnExec, SpawnDone, SpawnFails, KillStep,
                  KillWaited, KillTimesOut, LeaveWait, DisconnectTimesOut,
                  StopEnds, CloseEnds, bridgeVars
    <2> QED
      BY <1>2, <2>1 DEF NoReaderMore, Held
  <1>7. CASE UNCHANGED vars
    BY <1>2, <1>7 DEF vars, connVars, bridgeVars, NoReaderMore, Held
  <1>8. CASE World
    BY <1>8, WorldOnce
  <1>9. ASSUME NEW t \in Transports,
               Receive(t) \/ Validated(t) \/ PolicyDecides(t)
               \/ \E kind \in {"initialize", "user"} : Write(t, kind)
               \/ \E k \in Tasks : Stop(k, t)
        PROVE  LineOnce(l)'
    BY <1>1, <1>9, ReceiveOnce, ValidatedOnce, DecideOnce, WriteOnce, StopOnce
  <1>10. ASSUME NEW k \in Tasks, WriteChecked(k) PROVE LineOnce(l)'
    BY <1>1, <1>10, CheckedOnce
  <1> QED
    BY <1>3, <1>4, <1>5, <1>6, <1>7, <1>8, <1>9, <1>10 DEF Next, ReaderStep

OnceInv == (\A p \in Procs : Numbered(p)) /\ (\A l \in Line : LineOnce(l))

LEMMA OnceInit == Init => OnceInv
  <1> SUFFICES ASSUME Init PROVE OnceInv
    OBVIOUS
  <1>1. ConnInit
    BY DEF Init
  <1>2. \A p \in Procs : Numbered(p)
    BY <1>1, LinesInit DEF LinesInv
  <1>3. ASSUME NEW l \in Line PROVE LineOnce(l)
    <2>1. NotQueued(l)
      BY <1>1 DEF ConnInit, NotQueued, InQueue
    <2>2. NotHeld(l)
      BY DEF Init, NotReading, NotHeld, Held
    <2>3. NotOut(l)
      BY DEF Init, NotOut, Unanswered, Answers, WithHost
    <2> QED
      BY <2>1, <2>2, <2>3 DEF LineOnce, QueuedOnce, HeldOnce, OutOnce, AnsweredOnce,
                              NotQueued, NotHeld, NotOut, Unanswered
  <1> QED
    BY <1>2, <1>3 DEF OnceInv

LEMMA OnceInvStep == ASSUME Safe, [Next]_vars, OnceInv PROVE OnceInv'
  <1>1. \A p \in Procs : Numbered(p)'
    BY NumberedStep DEF OnceInv
  <1>2. \A l \in Line : LineOnce(l)'
    BY OnceStep DEF OnceInv
  <1>3. Line' = Line
    BY DEF Line
  <1> QED
    BY <1>1, <1>2, <1>3 DEF OnceInv

LEMMA OnceAnswers == ASSUME Safe, OnceInv PROVE AnsweredOrYielded
  <1>1. ASSUME NEW p \in Procs, NEW i \in DOMAIN received[p],
               received[p][i].kind = "response"
        PROVE  /\ received[p][i].from \in Deciding
               /\ \A r \in Procs : \A j \in DOMAIN received[r] :
                    (received[r][j].kind = "response"
                       /\ received[r][j].to = received[p][i].to)
                     => <<r, j>> = <<p, i>>
               /\ \A t \in Transports : \A j \in DOMAIN delivered[t] :
                    delivered[t][j] # received[p][i].to
    <2> DEFINE l == received[p][i].to
    <2>1. l \in Line /\ received[p][i].from \in Deciding
      <3>1. received[p][i] \in Input
        BY DEF Safe, BridgeTypeOK
      <3> QED
        BY <1>1, <3>1 DEF Input
    <2>2. i \in Answers(p, l)
      BY <1>1 DEF Answers
    <2> HIDE DEF l
    <2>3. OutOnce(l)
      BY <2>1 DEF OnceInv, LineOnce
    <2>4. AnsweredOnce(l) /\ ~WithHost(l)
      BY <2>2, <2>3 DEF OutOnce, Unanswered
    <2>5. ASSUME NEW r \in Procs, NEW j \in DOMAIN received[r],
                 received[r][j].kind = "response", received[r][j].to = l
          PROVE  r = p /\ j = i
      <3>1. j \in Answers(r, l)
        BY <2>5 DEF Answers
      <3> QED
        BY <2>2, <2>4, <3>1 DEF AnsweredOnce
    <2> QED
      BY <2>1, <2>4, <2>5 DEF WithHost, l
  <1>2. ASSUME NEW t \in Deciding, NEW j \in DOMAIN delivered[t]
        PROVE  ~IsRequest(delivered[t][j])
    <2>1. t \in Transports
      BY DecidingAssumption
    <2>2. delivered[t][j] \in Yielding(t)
      BY <2>1 DEF Safe, ReaderShape
    <2> QED
      BY <2>2 DEF Yielding, Decides
  <1> QED
    BY <1>1, <1>2 DEF AnsweredOrYielded

\* Of all the transports and processes there may be, with names reused and
\* reads given up, a permission request is answered once at most, and it is
\* answered or yielded (can_use_tool in read_messages).
THEOREM OneAnswer == Spec => []AnsweredOrYielded
  <1>1. Safe /\ OnceInv /\ [Next]_vars => OnceInv'
    BY OnceInvStep
  <1>2. Safe /\ OnceInv => AnsweredOrYielded
    BY OnceAnswers
  <1> QED
    BY <1>1, <1>2, OnceInit, BridgeSafe, PTL DEF Spec
=============================================================================
