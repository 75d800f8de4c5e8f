---------------------------- MODULE BridgeTransport ----------------------------
(***************************************************************************)
(* py/claudewire/transport.py: BridgeTransport objects over one            *)
(* DirectProcessConnection, and disconnect_client of session.py.           *)
(*                                                                         *)
(* A transport has at most one generator of read_messages at a time        *)
(* (rd[t]); its other calls come from tasks that interleave with the       *)
(* generator and with each other at every await.  connect does not wait,   *)
(* and write only for the host's callback about a message the schema has   *)
(* errors for.  Transports may share a name: that is how a host replaces a *)
(* session by a new one.                                                   *)
(***************************************************************************)
EXTENDS DirectConnection

CONSTANTS
    Transports,
    NameOf,          \* the name each transport was made with
    Reconnecting,    \* the transports made with reconnecting=True
    Deciding,        \* the transports made with a can_use_tool policy
    Readers,         \* bound: the transports that are read from
    Calls,           \* bound: what hosts do besides connecting and reading
    MaxWrites        \* bound: messages the hosts write

ASSUME NameOfAssumption == NameOf \in [Transports -> Names]
ASSUME ReconnectingAssumption == Reconnecting \subseteq Transports
ASSUME DecidingAssumption == Deciding \subseteq Transports
ASSUME ReadersAssumption == Readers \subseteq Transports
ASSUME CallsAssumption ==
    Calls \subseteq {"spawn", "stop", "close", "disconnect", "cancel", "write"}
ASSUME MaxWritesAssumption == MaxWrites \in Nat

VARIABLES
    tp,              \* the fields of each transport
    rd,              \* where its read_messages generator awaits
    op,              \* the transport call each task is in
    \* history
    delivered,       \* what each transport yielded
    late,            \* how much of it after the end of the stream
    received,        \* what each CLI got on stdin
    writes,          \* the number of writes made
    fakes            \* initialize requests each transport kept to itself

bridgeVars == <<tp, rd, op, delivered, late, received, writes, fakes>>
vars == <<connVars, bridgeVars>>

-----------------------------------------------------------------------------
FakeResponse == [proc |-> None, id |-> 0, kind |-> "message"]
StopEvent == ExitFrom(None)

\* get: in queue.get().  validate: in the callback for a schema error.
\* policy: in can_use_tool.  paused: at the yield.
Reader == [at : {"idle", "get", "validate", "policy", "paused"},
           queue : Queues \union {None},
           line : Line \union {None},
           early : BOOLEAN]    \* this get began before the stream's end
NotReading == [at |-> "idle", queue |-> None, line |-> None, early |-> FALSE]

Transport == [reconnecting : BOOLEAN, ready : BOOLEAN, cliExited : BOOLEAN,
              queue : Queues \union {None}]

\* saw: the processes that were there when the call began (history).  item:
\* what a write has yet to send.
Op == [op : {"none", "spawn", "stop", "close", "disconnect", "write"},
       t : Transports \union {None}, saw : SUBSET Procs,
       item : {"none", "initialize", "user"}]
NoOp == [op |-> "none", t |-> None, saw |-> {}, item |-> "none"]
Calling(name, t) == [NoOp EXCEPT !.op = name, !.t = t, !.saw = Procs \ Fresh]

UserInput(t, kind) == [from |-> t, kind |-> kind]
Response(t, l)     == [from |-> t, kind |-> "response", to |-> l]

Init ==
    /\ ConnInit
    /\ tp = [t \in Transports |->
                [reconnecting |-> t \in Reconnecting, ready |-> FALSE,
                 cliExited |-> FALSE, queue |-> None]]
    /\ rd = [t \in Transports |-> NotReading]
    /\ op = [k \in Tasks |-> NoOp]
    /\ delivered = [t \in Transports |-> <<>>]
    /\ late = [t \in Transports |-> 0]
    /\ received = [p \in Procs |-> <<>>]
    /\ writes = 0
    /\ fakes = [t \in Transports |-> 0]

-----------------------------------------------------------------------------
(* connect, spawn and write.                                               *)

Connect(t) ==
    /\ ~(tp[t].ready /\ tp[t].queue # None)
    /\ \E q \in Queues :
         /\ Register(NameOf[t], q)
         /\ tp' = [tp EXCEPT ![t].ready = TRUE, ![t].queue = q]
    /\ UNCHANGED <<processes, content, lp, call, printed, rd, op, delivered,
                   late, received, writes, fakes>>

Spawn(k, t) ==
    /\ op[k] = NoOp /\ "spawn" \in Calls
    /\ SpawnBegin(k, NameOf[t])
    /\ op' = [op EXCEPT ![k] = Calling("spawn", t)]
    /\ UNCHANGED <<processes, queues, content, made, printed, tp, rd,
                   delivered, late, received, writes, fakes>>

SpawnStep(k) ==
    /\ op[k].op = "spawn"
    /\ \/ SpawnExec(k) /\ UNCHANGED op
       \/ (SpawnDone(k) \/ SpawnFails(k)) /\ op' = [op EXCEPT ![k] = NoOp]
    /\ UNCHANGED <<tp, rd, delivered, late, received, writes, fakes>>

MustIntercept(t, kind) == tp[t].reconnecting /\ kind = "initialize"

\* send_stdin, when nothing is raised.
SendStdin(n, item) ==
    received' = IF StdinFate(n) = "sent"
                THEN [received EXCEPT ![processes[n]] = Append(@, item)]
                ELSE received

\* Mutant: _reconnecting stays set.
InterceptAlways(t, kind) ==
    /\ MustIntercept(t, kind)
    /\ content' = IF tp[t].queue = None THEN content
                  ELSE Put(tp[t].queue, <<Stdout(FakeResponse)>>)
    /\ fakes' = [fakes EXCEPT ![t] = @ + 1]
    /\ UNCHANGED <<tp, received>>

\* Without a queue the request is swallowed, with no answer.
Intercept(t, kind) ==
    /\ MustIntercept(t, kind)
    /\ tp' = [tp EXCEPT ![t].reconnecting = FALSE]
    /\ content' = IF tp[t].queue = None THEN content
                  ELSE Put(tp[t].queue, <<Stdout(FakeResponse)>>)
    /\ fakes' = [fakes EXCEPT ![t] = @ + 1]
    /\ UNCHANGED received

Forward(t, kind) ==
    /\ ~MustIntercept(t, kind)
    /\ SendStdin(NameOf[t], UserInput(t, kind))
    /\ UNCHANGED <<tp, content, fakes>>

\* A message the schema has no errors for, or has and no callback waits for.
Write(t, kind) ==
    /\ writes < MaxWrites
    /\ writes' = writes + 1
    /\ Intercept(t, kind) \/ Forward(t, kind)
    /\ UNCHANGED <<processes, queues, made, lp, call, printed, rd, op,
                   delivered, late>>

\* One it has errors for, down to the await of the callback; strict mode
\* raises there, with nothing sent.
WriteFlawed(k, t, kind) ==
    /\ op[k] = NoOp /\ "write" \in Calls /\ writes < MaxWrites
    /\ ~MustIntercept(t, kind)
    /\ writes' = writes + 1
    /\ op' = [op EXCEPT ![k] = [Calling("write", t) EXCEPT !.item = kind]]
    /\ UNCHANGED <<connVars, tp, rd, delivered, late, received, fakes>>

\* The callback returns, and the message goes to the process the name has
\* now; or it raises, or the task is cancelled.
WriteChecked(k) ==
    /\ op[k].op = "write"
    /\ op' = [op EXCEPT ![k] = NoOp]
    /\ \/ SendStdin(NameOf[op[k].t], UserInput(op[k].t, op[k].item))
       \/ UNCHANGED received
    /\ UNCHANGED <<connVars, tp, rd, delivered, late, writes, fakes>>

-----------------------------------------------------------------------------
(* read_messages.                                                          *)

Awaiting(t) == [at |-> "get", queue |-> tp[t].queue, line |-> None,
                early |-> ~tp[t].cliExited]

Yield(t, l) ==
    /\ delivered' = [delivered EXCEPT ![t] = Append(@, l)]
    /\ late' = [late EXCEPT ![t] = IF tp[t].cliExited THEN @ + 1 ELSE @]
    /\ rd' = [rd EXCEPT ![t] = [NotReading EXCEPT !.at = "paused"]]

\* The host asks for the next message; before connect there is no stream.
NextMessage(t) ==
    /\ t \in Readers
    /\ rd[t].at \in {"idle", "paused"} /\ tp[t].queue # None
    /\ rd' = [rd EXCEPT ![t] = Awaiting(t)]
    /\ UNCHANGED <<connVars, tp, op, delivered, late, received, writes,
                   fakes>>

\* A message the schema has errors for, which a callback sees first, and a
\* permission request, which the policy of a transport that has one takes.
Flawed(l)       == l.kind \in {"invalid", "invalid request"}
IsRequest(l)    == l.kind \in {"request", "invalid request"}
Decides(t, l)   == t \in Deciding /\ IsRequest(l)

Holding(t, place, l) ==
    /\ rd' = [rd EXCEPT ![t] = [at |-> place, queue |-> None, line |-> l,
                               early |-> FALSE]]
    /\ UNCHANGED <<delivered, late>>

\* Mutant: the policy comes before the schema, and what it leaves is yielded.
OnwardWithoutPolicy(t, l) == Yield(t, l)

\* What becomes of a message once it has passed the schema.
Onward(t, l) == IF Decides(t, l) THEN Holding(t, "policy", l) ELSE Yield(t, l)

\* Mutant: a get that is not cancel safe.
CancelReadLossy(t) ==
    /\ "cancel" \in Calls
    /\ rd[t].at = "get" /\ content[rd[t].queue] # <<>>
    /\ content' = [content EXCEPT ![rd[t].queue] = Tail(@)]
    /\ rd' = [rd EXCEPT ![t] = NotReading]
    /\ UNCHANGED <<processes, queues, made, lp, call, printed, tp, op,
                   delivered, late, received, writes, fakes>>

\* The host gives the generator up, and with it the message that a callback
\* or the policy had.
CancelRead(t) ==
    /\ "cancel" \in Calls
    /\ rd[t].at # "idle"
    /\ rd' = [rd EXCEPT ![t] = NotReading]
    /\ UNCHANGED <<connVars, tp, op, delivered, late, received, writes,
                   fakes>>

Return(t) ==
    /\ rd' = [rd EXCEPT ![t] = NotReading]
    /\ UNCHANGED <<delivered, late>>

\* Mutant: no check of _cli_exited after the get.
EndedNever(t) == FALSE

Ended(t) == tp[t].cliExited

\* Mutant: bare duplicates are yielded.
IsBareNever(l) == FALSE

IsBare(l) == l.kind = "bare"

\* One turn of the loop, by the event the queue gave.
Discard(t, e) ==
    /\ Ended(t)
    /\ Return(t) /\ UNCHANGED tp

TakeStdout(t, e) ==
    /\ ~Ended(t) /\ e.type = "stdout"
    /\ UNCHANGED tp
    /\ \/ /\ IsBare(e.line)
          /\ rd' = [rd EXCEPT ![t] = Awaiting(t)]
          /\ UNCHANGED <<delivered, late>>
       \/ e.line.kind = "rejected" /\ Return(t)
       \/ ~IsBare(e.line) /\ Flawed(e.line) /\ Holding(t, "validate", e.line)
       \/ /\ ~IsBare(e.line) /\ ~Flawed(e.line) /\ e.line.kind # "rejected"
          /\ Onward(t, e.line)

TakeStderr(t, e) ==
    /\ ~Ended(t) /\ e.type = "stderr"
    /\ rd' = [rd EXCEPT ![t] = Awaiting(t)]
    /\ UNCHANGED <<tp, delivered, late>>

TakeExit(t, e) ==
    /\ ~Ended(t) /\ e.type = "exit"
    /\ tp' = [tp EXCEPT ![t].cliExited = TRUE]
    /\ Return(t)

Receive(t) ==
    /\ rd[t].at = "get" /\ content[rd[t].queue] # <<>>
    /\ content' = [content EXCEPT ![rd[t].queue] = Tail(@)]
    /\ LET e == Head(content[rd[t].queue]) IN
         \/ Discard(t, e)
         \/ TakeStdout(t, e)
         \/ TakeStderr(t, e)
         \/ TakeExit(t, e)
    /\ UNCHANGED <<processes, queues, made, lp, call, printed, op, received,
                   writes, fakes>>

\* The callback returns: the message goes on, whatever happened since.
Validated(t) ==
    /\ rd[t].at = "validate"
    /\ Onward(t, rd[t].line)
    /\ UNCHANGED <<connVars, tp, op, received, writes, fakes>>

\* The callback or the policy raises: the generator ends, its message is lost.
CallbackRaises(t) ==
    /\ rd[t].at \in {"validate", "policy"}
    /\ Return(t)
    /\ UNCHANGED <<connVars, tp, op, received, writes, fakes>>

\* Mutant: no continue after the answer.
PolicyDecidesAndYields(t) ==
    /\ rd[t].at = "policy"
    /\ StdinFate(NameOf[t]) # "raised"
    /\ SendStdin(NameOf[t], Response(t, rd[t].line))
    /\ Yield(t, rd[t].line)
    /\ UNCHANGED <<connVars, tp, op, writes, fakes>>

\* The policy decides: the answer goes to the process the name has now.
PolicyDecides(t) ==
    /\ rd[t].at = "policy"
    /\ SendStdin(NameOf[t], Response(t, rd[t].line))
    /\ \/ /\ StdinFate(NameOf[t]) # "raised"
          /\ rd' = [rd EXCEPT ![t] = Awaiting(t)]
       \/ /\ StdinFate(NameOf[t]) \in {"raised", "lost"}
          /\ rd' = [rd EXCEPT ![t] = NotReading]
    /\ UNCHANGED <<connVars, tp, op, delivered, late, writes, fakes>>

-----------------------------------------------------------------------------
(* stop, close and disconnect_client.                                      *)

Kill(k, name, t) ==
    IF Killed(NameOf[t]) THEN UNCHANGED <<lp, call, op>>
    ELSE /\ KillBegin(k, NameOf[t])
         /\ op' = [op EXCEPT ![k] = Calling(name, t)]

\* Mutant: stop injects nothing.
StopInjectsNothing(t) == content

StopInjects(t) ==
    IF tp[t].queue = None THEN content ELSE Put(tp[t].queue, <<StopEvent>>)

Stop(k, t) ==
    /\ op[k] = NoOp /\ "stop" \in Calls
    /\ ~tp[t].cliExited
    /\ tp' = [tp EXCEPT ![t].cliExited = TRUE]
    /\ content' = StopInjects(t)
    /\ Kill(k, "stop", t)
    /\ UNCHANGED <<processes, queues, made, printed, rd, delivered, late,
                   received, writes, fakes>>

\* Mutant: close only unregisters.
ClosesWithoutKill(t) == TRUE

\* close needs no kill: not connected, the CLI known to have exited, or
\* nothing to kill.
ClosesAtOnce(t) ==
    ~tp[t].ready \/ tp[t].cliExited \/ Killed(NameOf[t])

EndClose(t) ==
    /\ Unregister(NameOf[t])
    /\ tp' = [tp EXCEPT ![t].ready = FALSE]

Close(k, name, t) ==
    /\ op[k] = NoOp
    /\ IF ClosesAtOnce(t)
       THEN EndClose(t) /\ UNCHANGED <<lp, call, op>>
       ELSE /\ Kill(k, name, t)
            /\ UNCHANGED <<processes, queues, tp>>
    /\ UNCHANGED <<content, made, printed, rd, delivered, late, received,
                   writes, fakes>>

\* disconnect_client's timeout of five seconds started no later than the one
\* inside kill, so of the two it is the one that fires: it cancels close.
KillStep(k) ==
    /\ \/ KillWaited(k)
       \/ op[k].op # "disconnect" /\ KillTimesOut(k)
    /\ UNCHANGED bridgeVars

DisconnectTimesOut(k) ==
    /\ op[k].op = "disconnect" /\ lp[call[k].proc].os # "reaped"
    /\ KillCancelled(k)
    /\ op' = [op EXCEPT ![k] = NoOp]
    /\ UNCHANGED <<processes, queues, content, made, printed, tp, rd,
                   delivered, late, received, writes, fakes>>

StopEnds(k) ==
    /\ op[k].op = "stop"
    /\ KillEnds(k)
    /\ op' = [op EXCEPT ![k] = NoOp]
    /\ UNCHANGED <<processes, queues, content, made, lp, printed, tp, rd,
                   delivered, late, received, writes, fakes>>

CloseEnds(k) ==
    /\ op[k].op \in {"close", "disconnect"}
    /\ KillEnds(k)
    /\ EndClose(op[k].t)
    /\ op' = [op EXCEPT ![k] = NoOp]
    /\ UNCHANGED <<content, made, lp, printed, rd, delivered, late, received,
                   writes, fakes>>

-----------------------------------------------------------------------------
World ==
    /\ \E p \in Procs :
         Cli(p) \/ ChildReaped(p) \/ StdoutReader(p) \/ StderrReader(p)
    /\ UNCHANGED bridgeVars

OpStep(k) ==
    SpawnStep(k) \/ KillStep(k) \/ DisconnectTimesOut(k) \/ StopEnds(k)
      \/ CloseEnds(k) \/ WriteChecked(k)

ReaderStep(t) ==
    Receive(t) \/ Validated(t) \/ CallbackRaises(t) \/ PolicyDecides(t)

Next ==
    \/ World
    \/ \E t \in Transports :
         \/ Connect(t) \/ NextMessage(t) \/ CancelRead(t) \/ ReaderStep(t)
         \/ \E kind \in {"initialize", "user"} : Write(t, kind)
         \/ \E k \in Tasks :
              \/ Spawn(k, t) \/ Stop(k, t)
              \/ \E kind \in {"initialize", "user"} : WriteFlawed(k, t, kind)
              \/ \E name \in Calls \intersect {"close", "disconnect"} :
                   Close(k, name, t)
    \/ \E k \in Tasks : OpStep(k)

Spec == Init /\ [][Next]_vars

\* As ConnFairness, and the loop resumes every call and every generator
\* whose await is over; policies and callbacks return.
Fairness ==
    /\ \A p \in Procs :
         /\ WF_vars(StdoutReader(p) /\ UNCHANGED bridgeVars)
         /\ WF_vars(StderrReader(p) /\ UNCHANGED bridgeVars)
         /\ WF_vars(ChildReaped(p) /\ UNCHANGED bridgeVars)
         /\ WF_vars(lp[p].signal = "kill" /\ CliExit(p)
                      /\ UNCHANGED bridgeVars)
    /\ \A k \in Tasks : WF_vars(OpStep(k))
    /\ \A t \in Transports : WF_vars(ReaderStep(t))

FairSpec == Spec /\ Fairness

-----------------------------------------------------------------------------
(* Properties.                                                             *)

BridgeEvent == Event \union {StopEvent, Stdout(FakeResponse)}

TypeOK ==
    /\ processes \in [Names -> Procs \union {None}]
    /\ queues \in [Names -> Queues \union {None}]
    /\ content \in [Queues -> Seq(BridgeEvent)]
    /\ made \subseteq Queues
    /\ lp \in [Procs -> LocalProcess]
    /\ call \in [Tasks -> Call]
    /\ tp \in [Transports -> Transport]
    /\ rd \in [Transports -> Reader]
    /\ op \in [Tasks -> Op]
    /\ delivered \in
         [Transports -> Seq({l \in Line : l.kind \notin
                                  {"bare", "rejected", "junk", "breaking"}}
                              \union {FakeResponse})]
    /\ late \in [Transports -> Nat]
    /\ writes \in 0..MaxWrites
    /\ fakes \in [Transports -> 0..MaxWrites]

\* A close that does not find the stream ended takes a process out of the
\* dictionary, out of every later kill's reach, only once it exited or was
\* signalled, however stops, kills and a disconnect run beside it; unless the
\* process took the name while the close waited for another (see
\* CloseDropsItsOwn).
KillsWhatItDrops(t) ==
    LET p == processes[NameOf[t]] IN
    (/\ tp[t].ready /\ ~tp'[t].ready /\ ~tp[t].cliExited
     /\ p # None /\ Alive(p)
     /\ \A k \in Tasks : call'[k] # call[k] => call[k].proc = p)
       => lp[p].signal # "none"
CloseKillsWhatItDrops == [][\A t \in Transports : KillsWhatItDrops(t)]_vars

\* After stop, or after the exit was read, at most the one message whose
\* validation was under way is still yielded.
AtMostOneLate == \A t \in Transports : late[t] <= 1

\* No call signals a process spawned after it began: the kill of a stop that
\* is still waiting does not reach a successor under the same name.
Spares(p) ==
    (lp'[p].signal # lp[p].signal) =>
        \E k \in Tasks :
           p \in op[k].saw \/ (op[k] # op'[k] /\ p \in op'[k].saw)
SparesSuccessor == [][\A p \in Procs : Spares(p)]_vars

\* A permission request is yielded by the transports that have no policy and
\* answered by those that have one: never both, whatever the schema says of it
\* and whichever transports share the name, and answered at most once.
AnsweredOrYielded ==
    /\ \A p \in Procs : \A i \in DOMAIN received[p] :
        received[p][i].kind = "response" =>
          /\ received[p][i].from \in Deciding
          /\ \A r \in Procs : \A j \in DOMAIN received[r] :
                (received[r][j].kind = "response"
                   /\ received[r][j].to = received[p][i].to)
                 => <<r, j>> = <<p, i>>
          /\ \A t \in Transports : \A j \in DOMAIN delivered[t] :
                delivered[t][j] # received[p][i].to
    /\ \A t \in Deciding : \A j \in DOMAIN delivered[t] :
        ~IsRequest(delivered[t][j])

\* A reconnecting transport keeps one initialize request from the CLI; as
\* long as it waits for it no CLI gets one from it.
InterceptedOnce ==
    \A t \in Transports :
        /\ fakes[t] <= IF t \in Reconnecting THEN 1 ELSE 0
        /\ tp[t].reconnecting =>
             /\ fakes[t] = 0
             /\ \A p \in Procs : \A i \in DOMAIN received[p] :
                  received[p][i] # UserInput(t, "initialize")

\* A read under way when stop is called ends, if it waits at the queue that
\* the transport has then.  After a close and a new connect it may still wait
\* at the old one, where stop injects nothing.
StopEndsReading ==
    \A t \in Transports :
        (rd[t].at = "get" /\ rd[t].early /\ tp[t].cliExited
           /\ rd[t].queue = tp[t].queue)
            ~> (rd[t].at # "get")

\* A read under way when the CLI exits ends, unless kill stopped the stdout
\* reader before its first step (it then puts no ExitEvent).
ExitEndsReading ==
    \A t \in Transports, p \in Procs :
        (/\ rd[t].at = "get" /\ rd[t].early
         /\ lp[p].queue = rd[t].queue /\ lp[p].os = "exited"
         /\ lp[p].out \in {"created", "reading"})
            ~> (rd[t].at # "get" \/ lp[p].out = "failed")

-----------------------------------------------------------------------------
(* What the documentation says, and the code does not do.                  *)

\* transport.py:269: close kills the CLI process and unregisters.  What it
\* drops from the dictionary has exited, then, or was signalled.
DroppedUnsignalled(p) ==
    /\ p # None /\ Alive(p) /\ lp[p].signal = "none"
    /\ \A n \in Names : processes'[n] # p

CloseKills ==
    [][\A n \in Names : ~DroppedUnsignalled(processes[n])]_vars

\* transport.py:251: stop takes care not to reach a process newly spawned
\* under the same name.  So, then, should the close of a transport: it does
\* not drop a running process of another transport.
CloseDropsItsOwn ==
    [][\A k \in Tasks :
         (op[k].op = "close" /\ op'[k] = NoOp)
            => LET p == processes[NameOf[op[k].t]] IN
               (p # None /\ DroppedUnsignalled(p))
                 => lp[p].queue = tp[op[k].t].queue]_vars

\* session.py:48: disconnect_client ensures that the subprocess terminates.
DisconnectTerminates ==
    \A p \in Procs :
        (\E k \in Tasks : op[k].op = "disconnect" /\ call[k].proc = p)
            ~> ~Alive(p)
=============================================================================
