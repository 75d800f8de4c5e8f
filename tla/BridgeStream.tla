----------------------------- MODULE BridgeStream -----------------------------
(***************************************************************************)
(* What the transport t1 yields of the output of the process p1 behind its *)
(* queue q1, as the abstract message stream.                               *)
(***************************************************************************)
EXTENDS BridgeTransport

CONSTANTS t1, p1, q1

ASSUME SessionAssumption == t1 \in Transports /\ p1 \in Procs /\ q1 \in Queues

\* The session is its transport's only one, and its queue has one process:
\* t1 does not connect anew, and nothing else is spawned for its queue.
OwnSession ==
    /\ \A t \in Transports : tp[t].queue # None => (tp[t].queue = q1 <=> t = t1)
    /\ \A p \in Procs : lp[p].queue # None => (lp[p].queue = q1 <=> p = p1)

\* As in a connection that has nothing else.
OneSession == Transports = {t1} /\ Procs = {p1} /\ Queues = {q1}

\* A generator waits at the queue its transport had when the wait began.
OwnReads ==
    \A t \in Transports : rd[t].at = "get" => (rd[t].queue = q1 <=> t = t1)

\* What an event or a line brings the host: a permission request is no message
\* to a transport that answers it.
IsMessageLine(l) ==
    /\ l.kind \in {"message", "invalid", "request", "invalid request"}
    /\ ~Decides(t1, l)
LineMessages(l)       == IF IsMessageLine(l) THEN <<l>> ELSE <<>>
EventMessages(e)      == IF e.type = "stdout" THEN LineMessages(e.line) ELSE <<>>
PipeMessages(lines)   == FlattenSeq([i \in DOMAIN lines |-> LineMessages(lines[i])])
QueueMessages(events) == FlattenSeq([i \in DOMAIN events |-> EventMessages(events[i])])

\* What the stdout reader of a process may still find in the pipe.
Reads(r)  == r.out \notin {"done", "failed"}
Unread(r) == IF Reads(r) THEN PipeMessages(r.pipe) ELSE <<>>

\* The message a callback has.
InFlight == IF rd[t1].at = "validate" THEN LineMessages(rd[t1].line) ELSE <<>>

\* The messages on their way are that one, those in the queue, and those in
\* the pipe.
OnTheWay == IF tp[t1].cliExited THEN InFlight
            ELSE InFlight \o (QueueMessages(content[q1]) \o Unread(lp[p1]))

Stream == INSTANCE MessageStream WITH
    Messages <- {l \in Line : IsMessageLine(l)},
    Held     <- {l \in Line : IsMessageLine(l) /\ Flawed(l)},
    Fake     <- FakeResponse,
    sent     <- PipeMessages(printed[p1]),
    pending  <- OnTheWay,
    got      <- delivered[t1],
    feed     <- Reads(lp[p1]),
    open     <- ~tp[t1].cliExited

\* What the transport yields comes in the order it was printed in, each line
\* once and none made up but the answer to an intercepted request.  A line is
\* lost to the end of the reader, to the end of the stream, or to a generator
\* that ends while a callback has it, and to nothing else.
ImplementsStream == Stream!Spec
=============================================================================
