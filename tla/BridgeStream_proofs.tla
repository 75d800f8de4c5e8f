-------------------------- MODULE BridgeStream_proofs --------------------------
(***************************************************************************)
(* Proof that a transport over a connection implements the abstract        *)
(* message stream, for any tasks, names, lines and writes.                 *)
(***************************************************************************)
EXTENDS BridgeStream, BridgeTransport_proofs, Flattening

-----------------------------------------------------------------------------
(* What events and lines bring, as functions on them.                      *)

OfEvents == [e \in Handled |-> EventMessages(e)]
OfLines  == [l \in Line |-> LineMessages(l)]

LEMMA LinesBring ==
    ASSUME NEW l \in Line \union {FakeResponse}
    PROVE  LineMessages(l) \in Seq(Yielded)
  <1>1. ASSUME IsMessageLine(l) PROVE l \in Yielded
    BY <1>1 DEF IsMessageLine, Yielded
  <1>2. CASE IsMessageLine(l)
    BY <1>1, <1>2 DEF LineMessages
  <1>3. CASE ~IsMessageLine(l)
    BY <1>3 DEF LineMessages
  <1> QED
    BY <1>2, <1>3

LEMMA EventsBring ==
    ASSUME NEW e \in Handled
    PROVE  EventMessages(e) \in Seq(Yielded)
  <1>1. CASE e.type = "stdout"
    BY <1>1, HandledLines, LinesBring DEF EventMessages
  <1>2. CASE e.type # "stdout"
    BY <1>2 DEF EventMessages
  <1> QED
    BY <1>1, <1>2

LEMMA BroughtTypes ==
    /\ OfEvents \in [Handled -> Seq(Yielded)]
    /\ OfLines \in [Line -> Seq(Yielded)]
  BY EventsBring, LinesBring DEF OfEvents, OfLines

LEMMA InQueueIsEach == \A s \in Seq(Handled) : QueueMessages(s) = Each(OfEvents, s)
  <1> SUFFICES ASSUME NEW s \in Seq(Handled) PROVE QueueMessages(s) = Each(OfEvents, s)
    OBVIOUS
  <1>1. \A i \in DOMAIN s : s[i] \in Handled
    OBVIOUS
  <1>2. [i \in DOMAIN s |-> EventMessages(s[i])] = [i \in DOMAIN s |-> OfEvents[s[i]]]
    BY <1>1 DEF OfEvents
  <1> QED
    BY <1>2 DEF QueueMessages, Each, Of

LEMMA InPipeIsEach == \A s \in Seq(Line) : PipeMessages(s) = Each(OfLines, s)
  <1> SUFFICES ASSUME NEW s \in Seq(Line) PROVE PipeMessages(s) = Each(OfLines, s)
    OBVIOUS
  <1>1. \A i \in DOMAIN s : s[i] \in Line
    OBVIOUS
  <1>2. [i \in DOMAIN s |-> LineMessages(s[i])] = [i \in DOMAIN s |-> OfLines[s[i]]]
    BY <1>1 DEF OfLines
  <1> QED
    BY <1>2 DEF PipeMessages, Each, Of

LEMMA QueueBrings ==
    ASSUME NEW s \in Seq(Handled)
    PROVE  /\ QueueMessages(s) \in Seq(Yielded)
           /\ \A e \in Handled : QueueMessages(Append(s, e)) = QueueMessages(s) \o EventMessages(e)
           /\ s # <<>> => QueueMessages(s) = EventMessages(Head(s)) \o QueueMessages(Tail(s))
  <1>1. QueueMessages(s) \in Seq(Yielded)
    BY BroughtTypes, InQueueIsEach, EachType, SMTT(60)
  <1>2. ASSUME NEW e \in Handled
        PROVE  QueueMessages(Append(s, e)) = QueueMessages(s) \o EventMessages(e)
    <2>1. Each(OfEvents, Append(s, e)) = Each(OfEvents, s) \o OfEvents[e]
      BY BroughtTypes, EachAppend
    <2>2. Append(s, e) \in Seq(Handled)
      BY AppendProperties
    <2> QED
      BY <2>1, <2>2, InQueueIsEach DEF OfEvents
  <1>3. ASSUME s # <<>>
        PROVE  QueueMessages(s) = EventMessages(Head(s)) \o QueueMessages(Tail(s))
    <2>1. Each(OfEvents, s) = OfEvents[Head(s)] \o Each(OfEvents, Tail(s))
      BY <1>3, BroughtTypes, EachHead
    <2>2. Head(s) \in Handled /\ Tail(s) \in Seq(Handled)
      BY <1>3
    <2> QED
      BY <2>1, <2>2, InQueueIsEach DEF OfEvents
  <1> QED
    BY <1>1, <1>2, <1>3

LEMMA PipeBrings ==
    ASSUME NEW s \in Seq(Line)
    PROVE  /\ PipeMessages(s) \in Seq(Yielded)
           /\ \A l \in Line : PipeMessages(Append(s, l)) = PipeMessages(s) \o LineMessages(l)
           /\ s # <<>> => PipeMessages(s) = LineMessages(Head(s)) \o PipeMessages(Tail(s))
  <1>1. PipeMessages(s) \in Seq(Yielded)
    BY BroughtTypes, InPipeIsEach, EachType
  <1>2. ASSUME NEW l \in Line
        PROVE  PipeMessages(Append(s, l)) = PipeMessages(s) \o LineMessages(l)
    <2>1. Each(OfLines, Append(s, l)) = Each(OfLines, s) \o OfLines[l]
      BY BroughtTypes, EachAppend
    <2>2. Append(s, l) \in Seq(Line)
      BY AppendProperties
    <2> QED
      BY <2>1, <2>2, InPipeIsEach DEF OfLines
  <1>3. ASSUME s # <<>>
        PROVE  PipeMessages(s) = LineMessages(Head(s)) \o PipeMessages(Tail(s))
    <2>1. Each(OfLines, s) = OfLines[Head(s)] \o Each(OfLines, Tail(s))
      BY <1>3, BroughtTypes, EachHead
    <2>2. Head(s) \in Line /\ Tail(s) \in Seq(Line)
      BY <1>3
    <2> QED
      BY <2>1, <2>2, InPipeIsEach DEF OfLines
  <1> QED
    BY <1>1, <1>2, <1>3

LEMMA NothingBrings == QueueMessages(<<>>) = <<>> /\ PipeMessages(<<>>) = <<>>
  <1>1. <<>> \in Seq(Handled) /\ <<>> \in Seq(Line)
    BY EmptySeq
  <1> QED
    BY <1>1, InQueueIsEach, InPipeIsEach, EachEmpty

-----------------------------------------------------------------------------
(* What the stream sees of the session.                                    *)

Closed  == tp[t1].cliExited
Queued  == QueueMessages(content[q1])
Piped   == Unread(lp[p1])
Feed    == Reads(lp[p1])
Printed == PipeMessages(printed[p1])

IsHeld(l) == l \in Line /\ IsMessageLine(l) /\ Flawed(l)

LEMMA SessionTypes ==
    ASSUME Safe
    PROVE  /\ t1 \in Transports /\ p1 \in Procs /\ q1 \in Queues
           /\ content \in [Queues -> Seq(Handled)] /\ content[q1] \in Seq(Handled)
           /\ lp \in [Procs -> LocalProcess] /\ lp[p1] \in LocalProcess
           /\ DOMAIN lp[p1] = Fields /\ lp[p1].pipe \in Seq(Line)
           /\ printed \in [Procs -> Seq(Line)] /\ printed[p1] \in Seq(Line)
           /\ Queued \in Seq(Yielded) /\ Piped \in Seq(Yielded)
           /\ Printed \in Seq(Yielded)
  <1>1. t1 \in Transports /\ p1 \in Procs /\ q1 \in Queues
    BY SessionAssumption
  <1>2. /\ content \in [Queues -> Seq(Handled)] /\ content[q1] \in Seq(Handled)
        /\ lp \in [Procs -> LocalProcess] /\ lp[p1] \in LocalProcess
        /\ printed \in [Procs -> Seq(Line)] /\ printed[p1] \in Seq(Line)
    BY <1>1 DEF Safe, BridgeTypeOK, ObjectsTypeOK
  <1>3. DOMAIN lp[p1] = Fields /\ lp[p1].pipe \in Seq(Line)
    BY <1>2, FieldsOf DEF LocalProcess
  <1>4. Queued \in Seq(Yielded)
    BY <1>2, QueueBrings DEF Queued
  <1>5. Piped \in Seq(Yielded)
    <2>1. PipeMessages(lp[p1].pipe) \in Seq(Yielded)
      BY <1>3, PipeBrings
    <2> QED
      BY <2>1 DEF Piped, Unread
  <1>6. Printed \in Seq(Yielded)
    BY <1>2, PipeBrings DEF Printed
  <1> QED
    BY <1>1, <1>2, <1>3, <1>4, <1>5, <1>6

\* A callback has no message or one the schema has errors for.
LEMMA FlightIs ==
    ASSUME Safe
    PROVE  /\ InFlight \in Seq(Yielded)
           /\ InFlight = <<>> \/ \E l \in Yielded : IsHeld(l) /\ InFlight = <<l>>
           /\ rd[t1].at # "validate" => InFlight = <<>>
  <1>1. CASE rd[t1].at = "validate" /\ IsMessageLine(rd[t1].line)
    <2> DEFINE l == rd[t1].line
    <2>1. l \in Line /\ Flawed(l)
      BY <1>1, SessionTypes DEF Safe, ReaderShape
    <2>2. l \in Yielded /\ IsHeld(l)
      BY <1>1, <2>1 DEF Yielded, IsMessageLine, IsHeld
    <2>3. InFlight = <<l>>
      BY <1>1 DEF InFlight, LineMessages
    <2> QED
      BY <1>1, <2>2, <2>3
  <1>2. CASE ~(rd[t1].at = "validate" /\ IsMessageLine(rd[t1].line))
    BY <1>2 DEF InFlight, LineMessages
  <1> QED
    BY <1>1, <1>2

LEMMA Way == OnTheWay = IF Closed THEN InFlight ELSE InFlight \o (Queued \o Piped)
  BY DEF OnTheWay, Closed, Queued, Piped

-----------------------------------------------------------------------------
(* The ways in which a step of the transport is one of the stream, or      *)
(* none.                                                                   *)

StreamStep == Stream!Next \/ UNCHANGED Stream!vars

\* The callback keeps the message it has, and the host gets none.
Retained == delivered'[t1] = delivered[t1] /\ InFlight' = InFlight

LEMMA StreamStepIs == StreamStep => [Stream!Next]_Stream!vars
  BY DEF StreamStep

LEMMA Stutters ==
    ASSUME OnTheWay' = OnTheWay, delivered'[t1] = delivered[t1],
           Printed' = Printed, Feed' <=> Feed, Closed' <=> Closed
    PROVE  StreamStep
  BY DEF StreamStep, Stream!vars, Closed, Feed, Reads, Printed

\* The reader has ended: of what was on the way a tail does not arrive.
LEMMA Cuts ==
    ASSUME NEW a \in Seq(Yielded), NEW b \in Seq(Yielded),
           Feed, ~Feed', Printed' = Printed, Closed' <=> Closed,
           delivered'[t1] = delivered[t1], OnTheWay = a \o b, OnTheWay' = a
    PROVE  StreamStep
  <1>1. /\ Len(a) \in 0..Len(OnTheWay)
        /\ OnTheWay' = SubSeq(OnTheWay, 1, Len(a))
    BY FrontOfJoin
  <1> QED
    BY <1>1 DEF StreamStep, Stream!Next, Stream!Cut, Closed, Feed, Reads, Printed

LEMMA Delivers ==
    ASSUME NEW m \in Yielded, NEW w \in Seq(Yielded),
           OnTheWay = <<m>> \o w, OnTheWay' = w, ~Closed \/ IsHeld(m),
           delivered'[t1] = Append(delivered[t1], m),
           Printed' = Printed, Feed' <=> Feed, Closed' <=> Closed
    PROVE  StreamStep
  <1>1. <<m>> \o w # <<>> /\ Head(<<m>> \o w) = m /\ Tail(<<m>> \o w) = w
    OBVIOUS
  <1> QED
    BY <1>1 DEF StreamStep, Stream!Next, Stream!Deliver, Closed, Feed, Reads,
                Printed, IsHeld

LEMMA GivesUp ==
    ASSUME NEW m \in Yielded, NEW w \in Seq(Yielded), IsHeld(m),
           OnTheWay = <<m>> \o w, OnTheWay' = w,
           delivered'[t1] = delivered[t1],
           Printed' = Printed, Feed' <=> Feed, Closed' <=> Closed
    PROVE  StreamStep
  <1>1. <<m>> \o w # <<>> /\ Head(<<m>> \o w) = m /\ Tail(<<m>> \o w) = w
    OBVIOUS
  <1> QED
    BY <1>1 DEF StreamStep, Stream!Next, Stream!GiveUp, Closed, Feed, Reads,
                Printed, IsHeld

LEMMA StaysClosed ==
    ASSUME Safe, Closed, Closed', Retained, Printed' = Printed, Feed' => Feed
    PROVE  StreamStep
  <1>1. OnTheWay = InFlight /\ OnTheWay' = InFlight
    BY DEF OnTheWay, Closed, Retained
  <1>2. CASE Feed' <=> Feed
    BY <1>1, <1>2, Stutters DEF Retained
  <1>3. CASE Feed /\ ~Feed'
    <2>1. InFlight = InFlight \o <<>> /\ InFlight \in Seq(Yielded)
      BY FlightIs, Regroup
    <2> QED
      BY <1>1, <1>3, <2>1, Cuts, EmptySeq DEF Retained
  <1> QED
    BY <1>2, <1>3

LEMMA StreamEnds ==
    ASSUME Safe, ~Closed, Closed', Retained, Printed' = Printed, Feed' => Feed
    PROVE  StreamStep
  <1>1. OnTheWay = InFlight \o (Queued \o Piped) /\ OnTheWay' = InFlight
    BY DEF OnTheWay, Closed, Queued, Piped, Retained
  <1>2. CASE InFlight = <<>>
    BY <1>1, <1>2 DEF StreamStep, Stream!Next, Stream!End, Closed, Feed, Reads,
                      Printed, Retained
  <1>3. CASE InFlight # <<>>
    <2>1. PICK l \in Yielded : IsHeld(l) /\ InFlight = <<l>>
      BY <1>3, FlightIs
    <2> DEFINE w == Queued \o Piped
    <2>2. w \in Seq(Yielded)
      BY SessionTypes, Regroup
    <2> HIDE DEF w
    <2>3. <<l>> \o w # <<>> /\ Head(<<l>> \o w) = l
      BY <2>2
    <2>4. OnTheWay # <<>> /\ Head(OnTheWay) = l /\ OnTheWay' = <<l>>
      BY <1>1, <2>1, <2>3 DEF w
    <2> QED
      BY <2>1, <2>4 DEF StreamStep, Stream!Next, Stream!End, Closed, Feed, Reads,
                        Printed, Retained, IsHeld
  <1> QED
    BY <1>2, <1>3

LEMMA Fabricates ==
    ASSUME Safe, ~Closed, ~Closed', Retained, Printed' = Printed, Feed' <=> Feed,
           Queued' = Queued \o <<FakeResponse>>, Piped' = Piped
    PROVE  StreamStep
  <1> DEFINE a == InFlight \o Queued
             i == Len(a) + 1
  <1>0. /\ InFlight \in Seq(Yielded) /\ Queued \in Seq(Yielded)
        /\ Piped \in Seq(Yielded) /\ <<FakeResponse>> \in Seq(Yielded)
        /\ a \in Seq(Yielded)
    <2>1. FakeResponse \in Yielded
      BY DEF Yielded
    <2>2. InFlight \in Seq(Yielded) /\ Queued \in Seq(Yielded) /\ Piped \in Seq(Yielded)
      BY FlightIs, SessionTypes
    <2> QED
      BY <2>1, <2>2, Regroup
  <1>1. /\ OnTheWay = a \o Piped
        /\ OnTheWay' = (a \o <<FakeResponse>>) \o Piped
    <2>1. /\ OnTheWay = InFlight \o (Queued \o Piped)
          /\ OnTheWay' = InFlight \o ((Queued \o <<FakeResponse>>) \o Piped)
      BY DEF OnTheWay, Closed, Queued, Piped, Retained
    <2>2. InFlight \o (Queued \o Piped) = (InFlight \o Queued) \o Piped
      BY <1>0, ConcatAssociative, SMTT(60)
    <2>3. Queued \o <<FakeResponse>> \in Seq(Yielded)
      BY <1>0, Regroup
    <2>4. InFlight \o ((Queued \o <<FakeResponse>>) \o Piped)
            = (InFlight \o (Queued \o <<FakeResponse>>)) \o Piped
      BY <1>0, <2>3, Regroup
    <2>5. InFlight \o (Queued \o <<FakeResponse>>)
            = (InFlight \o Queued) \o <<FakeResponse>>
      BY <1>0, Regroup
    <2> QED
      BY <2>1, <2>2, <2>4, <2>5
  <1> HIDE DEF a
  <1>2. /\ i \in 1..Len(a \o Piped) + 1
        /\ InsertAt(a \o Piped, i, FakeResponse) = (a \o <<FakeResponse>>) \o Piped
    BY <1>0, InsertBetween
  <1> HIDE DEF i
  <1>3. OnTheWay' = InsertAt(OnTheWay, i, FakeResponse) /\ i \in 1..Len(OnTheWay) + 1
    BY <1>1, <1>2
  <1> QED
    BY <1>3 DEF StreamStep, Stream!Next, Stream!Fabricate, Stream!InsertAt,
                InsertAt, Closed, Feed, Reads, Printed, Retained

\* The reader has ended: of the pipe at most the line it was at arrives.
LEMMA Truncates ==
    ASSUME Safe, NEW a \in Seq(Yielded), NEW b \in Seq(Yielded),
           ~Closed, ~Closed', Retained, Printed' = Printed, Feed, ~Feed',
           Piped = a \o b, Queued' = Queued \o a, Piped' = <<>>
    PROVE  StreamStep
  <1> DEFINE w == InFlight \o (Queued \o a)
  <1>0. /\ InFlight \in Seq(Yielded) /\ Queued \in Seq(Yielded)
        /\ Queued \o a \in Seq(Yielded)
    BY FlightIs, SessionTypes, Regroup
  <1>1. w \in Seq(Yielded) /\ OnTheWay = w \o b /\ OnTheWay' = w
    <2>1. /\ OnTheWay = InFlight \o (Queued \o (a \o b))
          /\ OnTheWay' = InFlight \o ((Queued \o a) \o <<>>)
      BY DEF OnTheWay, Closed, Queued, Piped, Retained
    <2>2. Queued \o (a \o b) = (Queued \o a) \o b
      BY <1>0, ConcatAssociative, SMTT(60)
    <2>3. InFlight \o ((Queued \o a) \o b) = (InFlight \o (Queued \o a)) \o b
      BY <1>0, ConcatAssociative, SMTT(60)
    <2>4. (Queued \o a) \o <<>> = Queued \o a
      BY <1>0, Regroup
    <2>5. w \in Seq(Yielded)
      BY <1>0, Regroup
    <2> QED
      BY <2>1, <2>2, <2>3, <2>4, <2>5
  <1> HIDE DEF w
  <1> QED
    BY <1>1, Cuts DEF Retained

\* A line is printed; once the reader has ended it reaches nobody.
LEMMA Produces ==
    ASSUME Safe, NEW l \in Line, Printed' = Printed \o LineMessages(l), Retained,
           Feed' <=> Feed, Closed' <=> Closed, Queued' = Queued,
           Piped' = IF Feed THEN Piped \o LineMessages(l) ELSE Piped
    PROVE  StreamStep
  <1>0. /\ InFlight \in Seq(Yielded) /\ Queued \in Seq(Yielded)
        /\ Piped \in Seq(Yielded) /\ Printed \in Seq(Yielded)
    BY FlightIs, SessionTypes
  <1>1. CASE ~IsMessageLine(l)
    <2>1. LineMessages(l) = <<>>
      BY <1>1 DEF LineMessages
    <2>2. Piped' = Piped /\ Printed' = Printed
      BY <1>0, <2>1, Regroup
    <2>3. OnTheWay' = OnTheWay
      BY <2>2 DEF OnTheWay, Closed, Queued, Piped, Retained
    <2> QED
      BY <2>2, <2>3, Stutters DEF Retained
  <1>2. CASE IsMessageLine(l)
    <2>1. LineMessages(l) = <<l>> /\ <<l>> \in Seq(Yielded) /\ l \in Yielded
      <3>1. l \in Yielded
        BY <1>2 DEF IsMessageLine, Yielded
      <3> QED
        BY <1>2, <3>1 DEF LineMessages
    <2>2. Printed' = Append(Printed, l)
      BY <1>0, <2>1, AppendIsConcat
    <2>3. OnTheWay' = IF Feed /\ ~Closed THEN Append(OnTheWay, l) ELSE OnTheWay
      <3>1. CASE Feed /\ ~Closed
        <4>1. /\ OnTheWay = InFlight \o (Queued \o Piped)
              /\ OnTheWay' = InFlight \o (Queued \o (Piped \o <<l>>))
          BY <2>1, <3>1 DEF OnTheWay, Closed, Queued, Piped, Retained
        <4>2. /\ Queued \o (Piped \o <<l>>) = (Queued \o Piped) \o <<l>>
              /\ Queued \o Piped \in Seq(Yielded)
          BY <1>0, <2>1, Regroup
        <4>3. /\ InFlight \o ((Queued \o Piped) \o <<l>>)
                   = (InFlight \o (Queued \o Piped)) \o <<l>>
              /\ InFlight \o (Queued \o Piped) \in Seq(Yielded)
          BY <1>0, <2>1, <4>2, Regroup
        <4>4. OnTheWay' = OnTheWay \o <<l>> /\ OnTheWay \in Seq(Yielded)
          BY <4>1, <4>2, <4>3
        <4> QED
          BY <2>1, <3>1, <4>4, AppendIsConcat
      <3>2. CASE ~(Feed /\ ~Closed)
        BY <3>2 DEF OnTheWay, Closed, Queued, Piped, Retained
      <3> QED
        BY <3>1, <3>2
    <2> QED
      BY <1>2, <2>2, <2>3 DEF StreamStep, Stream!Next, Stream!Produce, Closed,
                              Feed, Reads, Printed, Retained
  <1> QED
    BY <1>1, <1>2

\* A line goes from the pipe to the queue.
LEMMA Moves ==
    ASSUME Safe, NEW a \in Seq(Yielded), NEW b \in Seq(Yielded), Retained,
           Closed' <=> Closed, Printed' = Printed, Feed' <=> Feed,
           Piped = a \o b, Queued' = Queued \o a, Piped' = b
    PROVE  StreamStep
  <1>1. Queued \o (a \o b) = (Queued \o a) \o b
    BY SessionTypes, ConcatAssociative, SMTT(60)
  <1>2. OnTheWay' = OnTheWay
    BY <1>1 DEF OnTheWay, Closed, Queued, Piped, Retained
  <1> QED
    BY <1>2, Stutters DEF Retained

\* What neither reads nor puts a message.
LEMMA Rests ==
    ASSUME Retained, Closed' <=> Closed, Printed' = Printed, Feed' <=> Feed,
           Queued' = Queued, Piped' = Piped
    PROVE  StreamStep
  <1>1. OnTheWay' = OnTheWay
    BY DEF OnTheWay, Closed, Queued, Piped, Retained
  <1> QED
    BY <1>1, Stutters DEF Retained

-----------------------------------------------------------------------------
(* What the steps of the CLI, its readers and the calls are to the stream. *)

LEMMA PutOne ==
    ASSUME Safe, NEW e \in Handled, content' = Put(q1, <<e>>)
    PROVE  Queued' = Queued \o EventMessages(e)
  <1>1. content'[q1] = Append(content[q1], e)
    <2>1. content'[q1] = content[q1] \o <<e>>
      BY SessionTypes DEF Put
    <2> QED
      BY <2>1, SessionTypes, AppendIsConcat
  <1> QED
    BY <1>1, SessionTypes, QueueBrings DEF Queued

\* An event that brings nothing.
LEMMA PutOther ==
    ASSUME Safe, NEW e \in Handled, e.type # "stdout",
           content' = Put(q1, <<e>>)
    PROVE  Queued' = Queued
  <1>1. EventMessages(e) = <<>>
    BY DEF EventMessages
  <1> QED
    BY <1>1, PutOne, SessionTypes, ConcatEmptySeq

\* A line, and the exit behind it.
LEMMA PutLast ==
    ASSUME Safe, NEW e \in Handled, NEW f \in Handled,
           f.type # "stdout", content' = Put(q1, <<e>> \o <<f>>)
    PROVE  Queued' = Queued \o EventMessages(e)
  <1> DEFINE c == Append(content[q1], e)
  <1>1. c \in Seq(Handled)
    BY SessionTypes, AppendProperties
  <1>2. content'[q1] = Append(c, f)
    <2>1. content'[q1] = content[q1] \o (<<e>> \o <<f>>)
      BY SessionTypes DEF Put
    <2>2. <<e>> \in Seq(Handled) /\ <<f>> \in Seq(Handled)
      OBVIOUS
    <2>3. content[q1] \o (<<e>> \o <<f>>) = (content[q1] \o <<e>>) \o <<f>>
      BY <2>2, SessionTypes, ConcatAssociative
    <2>4. content[q1] \o <<e>> = c /\ c \o <<f>> = Append(c, f)
      BY <1>1, SessionTypes, AppendIsConcat
    <2> QED
      BY <2>1, <2>3, <2>4
  <1>3. QueueMessages(c) = Queued \o EventMessages(e)
    BY SessionTypes, QueueBrings DEF Queued
  <1> HIDE DEF c
  <1>4. QueueMessages(Append(c, f)) = QueueMessages(c) \o EventMessages(f)
    BY <1>1, QueueBrings
  <1>5. EventMessages(f) = <<>> /\ QueueMessages(c) \in Seq(Yielded)
    BY <1>1, QueueBrings DEF EventMessages
  <1>6. QueueMessages(c) \o <<>> = QueueMessages(c)
    BY <1>5, ConcatEmptySeq
  <1> QED
    BY <1>2, <1>3, <1>4, <1>5, <1>6 DEF Queued

\* Nothing is printed or read, though the reader may end, and nothing that is
\* put into the queue is a message.
LEMMA QuietStreams ==
    ASSUME Safe, ~Closed, ~Closed', Retained, Queued' = Queued,
           printed'[p1] = printed[p1], lp'[p1].pipe = lp[p1].pipe,
           Feed' => Feed
    PROVE  StreamStep
  <1>0. Printed' = Printed
    BY DEF Printed
  <1>1. CASE Feed' <=> Feed
    <2>1. Piped' = Piped
      BY <1>1 DEF Piped, Unread, Feed
    <2> QED
      BY <1>0, <1>1, <2>1, Rests
  <1>2. CASE Feed /\ ~Feed'
    <2>1. Piped' = <<>>
      BY <1>2 DEF Piped, Unread, Feed
    <2>2. /\ <<>> \in Seq(Yielded) /\ Piped = <<>> \o Piped
          /\ Queued' = Queued \o <<>>
      BY SessionTypes, Regroup, EmptySeq
    <2> QED
      BY <1>0, <1>2, <2>1, <2>2, SessionTypes, Truncates
  <1> QED
    BY <1>1, <1>2

LEMMA PrintStreams ==
    ASSUME Safe, Closed' <=> Closed, Retained, NEW kind \in Kinds, CliPrint(p1, kind)
    PROVE  StreamStep
  <1> DEFINE l == [proc |-> p1, id |-> Len(printed[p1]) + 1, kind |-> kind]
  <1>1. l \in Line
    <2>1. Len(printed[p1]) + 1 \in 1..MaxOut
      BY SessionTypes, BoundsAssumption DEF CliPrint
    <2> QED
      BY <2>1, SessionTypes DEF Line
  <1>2. /\ lp'[p1].pipe = Append(lp[p1].pipe, l) /\ lp'[p1].out = lp[p1].out
        /\ printed'[p1] = Append(printed[p1], l) /\ content' = content
    BY SessionTypes DEF CliPrint, Fields
  <1> HIDE DEF l
  <1>3. Queued' = Queued /\ (Feed' <=> Feed)
    BY <1>2 DEF Queued, Feed, Reads
  <1>4. /\ Printed' = Printed \o LineMessages(l)
        /\ PipeMessages(Append(lp[p1].pipe, l))
             = PipeMessages(lp[p1].pipe) \o LineMessages(l)
    BY <1>1, <1>2, SessionTypes, PipeBrings DEF Printed
  <1>5. Piped' = IF Feed THEN Piped \o LineMessages(l) ELSE Piped
    BY <1>2, <1>3, <1>4 DEF Piped, Unread, Feed
  <1> QED
    BY <1>1, <1>3, <1>4, <1>5, Produces

\* What the first line in the pipe brings, and what is behind it.
LEMMA HeadOfPipe ==
    ASSUME Safe, lp[p1].pipe # <<>>, lp[p1].out = "reading"
    PROVE  LET l == Head(lp[p1].pipe)
               rest == PipeMessages(Tail(lp[p1].pipe)) IN
           /\ l \in Line /\ LineMessages(l) \in Seq(Yielded)
           /\ rest \in Seq(Yielded) /\ Piped = LineMessages(l) \o rest
           /\ l.kind \notin {"junk", "breaking"} => Stdout(l) \in Handled
           /\ EventMessages(Stdout(l)) = LineMessages(l)
           /\ l.kind = "junk" => LineMessages(l) = <<>>
  <1> DEFINE l == Head(lp[p1].pipe)
  <1>1. l \in Line /\ Tail(lp[p1].pipe) \in Seq(Line)
    BY SessionTypes
  <1>2. /\ LineMessages(l) \in Seq(Yielded)
        /\ PipeMessages(Tail(lp[p1].pipe)) \in Seq(Yielded)
    BY <1>1, LinesBring, PipeBrings
  <1>3. Piped = LineMessages(l) \o PipeMessages(Tail(lp[p1].pipe))
    BY SessionTypes, PipeBrings DEF Piped, Unread, Reads
  <1> HIDE DEF l
  <1>4. l.kind \notin {"junk", "breaking"} => Stdout(l) \in Handled
    BY <1>1, EventsBuilt DEF Handled, Sent, Stdout
  <1>5. EventMessages(Stdout(l)) = LineMessages(l)
    BY DEF EventMessages, Stdout
  <1>6. l.kind = "junk" => LineMessages(l) = <<>>
    BY DEF LineMessages, IsMessageLine
  <1> QED
    BY <1>1, <1>2, <1>3, <1>4, <1>5, <1>6 DEF l

LEMMA ReadStreams ==
    ASSUME Safe, ~Closed, ~Closed', Retained,
           lp[p1].queue = q1, ReadLine(p1)
    PROVE  StreamStep
  <1> DEFINE l == Head(lp[p1].pipe)
             rest == PipeMessages(Tail(lp[p1].pipe))
  <1>1. /\ lp[p1].pipe # <<>> /\ lp[p1].out = "reading" /\ l.kind # "breaking"
        /\ lp'[p1].pipe = Tail(lp[p1].pipe) /\ lp'[p1].out = "reading"
        /\ content' = IF l.kind = "junk" THEN content ELSE Put(q1, <<Stdout(l)>>)
        /\ printed' = printed
    BY SessionTypes DEF ReadLine, Fields
  <1>2. /\ l \in Line /\ LineMessages(l) \in Seq(Yielded)
        /\ rest \in Seq(Yielded) /\ Piped = LineMessages(l) \o rest
        /\ l.kind # "junk" => Stdout(l) \in Handled
        /\ EventMessages(Stdout(l)) = LineMessages(l)
        /\ l.kind = "junk" => LineMessages(l) = <<>>
    BY <1>1, HeadOfPipe
  <1>3. Piped' = rest /\ (Feed' <=> Feed) /\ Printed' = Printed
    BY <1>1 DEF Piped, Unread, Feed, Reads, Printed
  <1> HIDE DEF l, rest
  <1>4. Queued' = Queued \o LineMessages(l)
    <2>1. CASE l.kind = "junk"
      <3>1. Queued' = Queued
        BY <1>1, <2>1 DEF Queued
      <3>2. Queued \o <<>> = Queued
        BY SessionTypes, Regroup
      <3> QED
        BY <1>2, <2>1, <3>1, <3>2
    <2>2. CASE l.kind # "junk"
      BY <1>1, <1>2, <2>2, PutOne
    <2> QED
      BY <2>1, <2>2
  <1> QED
    BY <1>2, <1>3, <1>4, SessionTypes, Moves

LEMMA EndStreams ==
    ASSUME Safe, ~Closed, ~Closed', Retained,
           lp[p1].queue = q1,
           ReadEof(p1) \/ ReadBreaks(p1) \/ ReadClosed(p1) \/ ReadCancelled(p1)
    PROVE  StreamStep
  <1> DEFINE l == Head(lp[p1].pipe)
             rest == PipeMessages(Tail(lp[p1].pipe))
             x == ExitFrom(p1)
  <1>0. x \in Handled /\ x.type # "stdout"
    BY SessionTypes, EventsBuilt DEF Handled, Sent, ExitFrom
  <1>1. ASSUME EndStdout(p1, <<>>) PROVE StreamStep
    <2>1. /\ content' = Put(q1, <<x>>) /\ lp' = [lp EXCEPT ![p1].out = "done"]
          /\ printed' = printed
      BY <1>1 DEF EndStdout
    <2>2. lp'[p1].pipe = lp[p1].pipe /\ lp'[p1].out = "done"
      BY <2>1, SessionTypes DEF Fields
    <2>4. ~Feed'
      BY <2>2 DEF Feed, Reads
    <2> HIDE DEF x
    <2>3. Queued' = Queued
      BY <1>0, <2>1, PutOther
    <2> QED
      BY <2>1, <2>2, <2>3, <2>4, QuietStreams
  <1>2. ASSUME lp[p1].out = "reading", lp[p1].pipe # <<>>,
               l.kind \notin {"breaking", "junk"}, EndStdout(p1, <<Stdout(l)>>)
        PROVE  StreamStep
    <2>1. /\ content' = Put(q1, <<Stdout(l)>> \o <<x>>)
          /\ lp' = [lp EXCEPT ![p1].out = "done"] /\ printed' = printed
      BY <1>2 DEF EndStdout
    <2>2. lp'[p1].out = "done"
      BY <2>1, SessionTypes DEF Fields
    <2>3. /\ LineMessages(l) \in Seq(Yielded) /\ rest \in Seq(Yielded)
          /\ Piped = LineMessages(l) \o rest /\ Stdout(l) \in Handled
          /\ EventMessages(Stdout(l)) = LineMessages(l)
      BY <1>2, HeadOfPipe
    <2>4. Piped' = <<>> /\ Feed /\ ~Feed' /\ Printed' = Printed
      BY <1>2, <2>1, <2>2 DEF Piped, Unread, Feed, Reads, Printed
    <2> HIDE DEF x, l, rest
    <2>5. Queued' = Queued \o LineMessages(l)
      BY <1>0, <2>1, <2>3, PutLast
    <2> QED
      BY <2>3, <2>4, <2>5, SessionTypes, Truncates
  <1> QED
    BY <1>1, <1>2 DEF ReadEof, ReadBreaks, ReadClosed, ReadCancelled

LEMMA StderrStreams ==
    ASSUME Safe, ~Closed, ~Closed', Retained,
           lp[p1].queue = q1, StderrReader(p1)
    PROVE  StreamStep
  <1> DEFINE e == Stderr(Head(lp[p1].errs))
  <1>1. /\ lp'[p1].pipe = lp[p1].pipe /\ lp'[p1].out = lp[p1].out
        /\ printed' = printed
    BY SessionTypes DEF StderrReader, ReadStderr, EndStderr, Fields
  <1>2. content' = content \/ (lp[p1].errs # <<>> /\ content' = Put(q1, <<e>>))
    BY DEF StderrReader, ReadStderr, EndStderr
  <1>3. lp[p1].errs # <<>> => (e \in Handled /\ e.type # "stdout")
    <2>1. lp[p1].errs \in Seq(ErrLine)
      BY SessionTypes DEF LocalProcess
    <2>2. lp[p1].errs # <<>> => Head(lp[p1].errs) \in ErrLine
      BY <2>1
    <2> QED
      BY <2>2, EventsBuilt DEF Handled, Sent, Stderr
  <1> HIDE DEF e
  <1>4. Queued' = Queued
    <2>1. CASE content' = content
      BY <2>1 DEF Queued
    <2>2. CASE lp[p1].errs # <<>> /\ content' = Put(q1, <<e>>)
      BY <1>3, <2>2, PutOther
    <2> QED
      BY <1>2, <2>1, <2>2
  <1>5. Feed' => Feed
    BY <1>1 DEF Feed, Reads
  <1> QED
    BY <1>1, <1>4, <1>5, QuietStreams

\* A step that leaves the queue, the process and the end of the stream as
\* they are.
LEMMA LeavesStreams ==
    ASSUME Retained, content'[q1] = content[q1], Closed' <=> Closed,
           printed'[p1] = printed[p1],
           lp'[p1].pipe = lp[p1].pipe, lp'[p1].out = lp[p1].out
    PROVE  StreamStep
  <1>1. Queued' = Queued /\ Printed' = Printed /\ (Feed' <=> Feed)
    BY DEF Queued, Printed, Feed, Reads
  <1>2. Piped' = Piped
    BY DEF Piped, Unread, Reads
  <1> QED
    BY <1>1, <1>2, Rests

LEMMA OwnQueue ==
    ASSUME Safe, OwnSession, NEW p \in Procs, StdoutReader(p) \/ StderrReader(p)
    PROVE  lp[p].queue = q1 <=> p = p1
  <1>1. lp[p].queue \in Queues
    BY ReadersQueue DEF Safe, ConnShape
  <1> QED
    BY <1>1, NoneAssumption DEF OwnSession

\* Another process leaves the queue alone.
LEMMA OthersQuiet ==
    ASSUME Safe, OwnSession, NEW p \in Procs, p # p1,
           Cli(p) \/ ChildReaped(p) \/ StdoutReader(p) \/ StderrReader(p)
    PROVE  /\ lp'[p1] = lp[p1] /\ content'[q1] = content[q1]
           /\ printed'[p1] = printed[p1]
  <1>0. /\ lp \in [Procs -> LocalProcess] /\ p1 \in Procs
        /\ content \in [Queues -> Seq(Handled)] /\ q1 \in Queues
        /\ printed \in [Procs -> Seq(Line)]
    BY SessionTypes
  <1>1. CASE Cli(p) \/ ChildReaped(p)
    <2>1. CASE \E kind \in Kinds : CliPrint(p, kind)
      BY <1>0, <2>1 DEF CliPrint
    <2>2. CASE CliLog(p) \/ CliExit(p) \/ ChildReaped(p)
      BY <1>0, <2>2 DEF CliLog, CliExit, ChildReaped
    <2> QED
      BY <1>1, <2>1, <2>2 DEF Cli
  <1>2. ASSUME lp[p].queue # q1, NEW es, content' = content \/ content' = Put(lp[p].queue, es)
        PROVE  content'[q1] = content[q1]
    BY <1>0, <1>2 DEF Put
  <1>3. ASSUME StdoutReader(p) \/ StderrReader(p) PROVE lp[p].queue # q1
    BY <1>3, OwnQueue
  <1>4. CASE StdoutReader(p)
    <2>1. lp'[p1] = lp[p1] /\ printed' = printed
      BY <1>0, <1>4 DEF StdoutReader, StdoutStarts, ReadLine, ReadEof, ReadBreaks,
                        ReadClosed, ReadCancelled, EndStdout
    <2>2. \E es : content' = content \/ content' = Put(lp[p].queue, es)
      BY <1>4 DEF StdoutReader, StdoutStarts, ReadLine, ReadEof, ReadBreaks,
                  ReadClosed, ReadCancelled, EndStdout
    <2> QED
      BY <1>2, <1>3, <1>4, <2>1, <2>2
  <1>5. CASE StderrReader(p)
    <2>1. lp'[p1] = lp[p1] /\ printed' = printed
      BY <1>0, <1>5 DEF StderrReader, ReadStderr, EndStderr
    <2>2. \E es : content' = content \/ content' = Put(lp[p].queue, es)
      BY <1>5 DEF StderrReader, ReadStderr, EndStderr
    <2> QED
      BY <1>2, <1>3, <1>5, <2>1, <2>2
  <1> QED
    BY <1>1, <1>4, <1>5

LEMMA ReaderFeeds ==
    ASSUME Safe, CliLog(p1) \/ CliExit(p1) \/ ChildReaped(p1)
                 \/ StdoutReader(p1) \/ StderrReader(p1)
    PROVE  printed' = printed /\ (Feed' => Feed)
  <1>1. CASE CliLog(p1) \/ CliExit(p1) \/ ChildReaped(p1) \/ StderrReader(p1)
    <2>1. printed' = printed /\ lp'[p1].out = lp[p1].out
      BY <1>1, SessionTypes DEF CliLog, CliExit, ChildReaped, StderrReader,
                                ReadStderr, EndStderr, Fields
    <2> QED
      BY <2>1 DEF Feed, Reads
  <1>2. CASE StdoutReader(p1)
    <2>1. printed' = printed /\ lp[p1].out \notin {"done", "failed"}
      BY <1>2 DEF StdoutReader, StdoutStarts, ReadLine, ReadEof, ReadBreaks,
                  ReadClosed, ReadCancelled, EndStdout
    <2> QED
      BY <2>1 DEF Feed, Reads
  <1> QED
    BY <1>1, <1>2

LEMMA WorldStreams ==
    ASSUME Safe, OwnSession, World
    PROVE  StreamStep
  <1>1. (Closed' <=> Closed) /\ Retained
    BY DEF World, bridgeVars, Closed, Retained, InFlight
  <1>2. PICK p \in Procs :
           Cli(p) \/ ChildReaped(p) \/ StdoutReader(p) \/ StderrReader(p)
    BY DEF World
  <1>3. CASE p # p1
    <2>1. /\ lp'[p1] = lp[p1] /\ content'[q1] = content[q1]
          /\ printed'[p1] = printed[p1]
      BY <1>2, <1>3, OthersQuiet
    <2> QED
      BY <1>1, <2>1, LeavesStreams
  <1>4. CASE \E kind \in Kinds : CliPrint(p1, kind)
    BY <1>1, <1>4, PrintStreams
  <1>5. ASSUME CliLog(p1) \/ CliExit(p1) \/ ChildReaped(p1)
               \/ StdoutReader(p1) \/ StderrReader(p1)
        PROVE  StreamStep
    <2>0. printed' = printed /\ (Feed' => Feed) /\ Printed' = Printed
      BY <1>5, ReaderFeeds DEF Printed
    <2>1. CASE Closed
      BY <1>1, <2>0, <2>1, StaysClosed
    <2>2. CASE ~Closed
      <3>0. ~Closed /\ ~Closed' /\ Retained
        BY <1>1, <2>2
      <3>1. CASE CliLog(p1) \/ CliExit(p1) \/ ChildReaped(p1) \/ StdoutStarts(p1)
        <4>1. content' = content /\ lp'[p1].pipe = lp[p1].pipe
          BY <3>1, SessionTypes DEF CliLog, CliExit, ChildReaped, StdoutStarts,
                                    Fields
        <4>2. Queued' = Queued
          BY <4>1 DEF Queued
        <4> QED
          BY <2>0, <3>0, <4>1, <4>2, QuietStreams
      <3>2. ASSUME StdoutReader(p1) \/ StderrReader(p1) PROVE lp[p1].queue = q1
        BY <3>2, SessionTypes, OwnQueue
      <3>3. CASE StdoutReader(p1)
        BY <3>0, <3>1, <3>2, <3>3, ReadStreams, EndStreams DEF StdoutReader
      <3>4. CASE StderrReader(p1)
        BY <3>0, <3>2, <3>4, StderrStreams
      <3> QED
        BY <1>5, <3>1, <3>3, <3>4
    <2> QED
      BY <2>1, <2>2
  <1> QED
    BY <1>2, <1>3, <1>4, <1>5 DEF Cli

\* spawn and kill, of whatever process.
LEMMA CallsQuiet ==
    ASSUME Safe, NEW k \in Tasks,
           \/ \E n \in Names : SpawnBegin(k, n) \/ KillBegin(k, n)
           \/ SpawnExec(k) \/ SpawnDone(k) \/ SpawnFails(k)
           \/ KillWaited(k) \/ KillTimesOut(k) \/ KillCancelled(k)
    PROVE  /\ lp'[p1].pipe = lp[p1].pipe
           /\ lp[p1].out \in {"done", "failed"} => lp'[p1].out \in {"done", "failed"}
  <1>0. /\ lp \in [Procs -> LocalProcess] /\ p1 \in Procs
        /\ \A r \in Procs : DOMAIN lp[r] = Fields
    BY SessionTypes, FieldsOf
  <1>1. \A out : out \in {"done", "failed"} => Cancelled(out) = out
    BY DEF Cancelled
  <1>2. ASSUME NEW n \in Names, SpawnBegin(k, n)
        PROVE  lp'[p1].pipe = lp[p1].pipe /\ lp'[p1].out = lp[p1].out
    <2>1. PICK r \in Procs : lp' = [lp EXCEPT ![r].queue = queues[n]]
      BY <1>2, ZenonT(60) DEF SpawnBegin, Fresh
    <2> QED
      BY <1>0, <2>1 DEF Fields
  <1>3. ASSUME NEW n \in Names, KillBegin(k, n)
        PROVE  /\ lp'[p1].pipe = lp[p1].pipe
               /\ lp'[p1].out \in {lp[p1].out, Cancelled(lp[p1].out)}
    <2>1. processes[n] \in Procs
      BY <1>3, EnteredIsKnown DEF KillBegin, Killed
    <2>2. CASE processes[n] = p1
      BY <1>0, <1>3, <2>2, ZenonT(60) DEF KillBegin, Fields
    <2>3. CASE processes[n] # p1
      BY <1>0, <1>3, <2>1, <2>3 DEF KillBegin
    <2> QED
      BY <2>2, <2>3
  <1> DEFINE r == call[k].proc
  <1>4. CASE SpawnExec(k) \/ SpawnFails(k) \/ KillCancelled(k)
    <2>1. CASE SpawnExec(k)
      <3>1. r \in Procs
        BY <2>1 DEF SpawnExec, Safe, ConnShape, CallShape
      <3>2. lp' = [lp EXCEPT ![r].os = "running", ![r].handle = TRUE]
        BY <2>1 DEF SpawnExec
      <3> HIDE DEF r
      <3> QED
        BY <1>0, <3>1, <3>2 DEF Fields
    <2> QED
      BY <1>0, <1>4, <2>1 DEF SpawnFails, KillCancelled, Fields
  <1>5. CASE SpawnDone(k)
    <2>1. lp[r].out = "none" /\ r \in Procs
      BY <1>5 DEF SpawnDone, Safe, ConnShape, CallShape
    <2>2. lp' = [lp EXCEPT ![r].pty = "open", ![r].out = "created",
                           ![r].err = "reading"]
      BY <1>5 DEF SpawnDone
    <2> HIDE DEF r
    <2>3. CASE r = p1
      BY <1>0, <2>1, <2>2, <2>3 DEF Fields
    <2>4. CASE r # p1
      BY <1>0, <2>1, <2>2, <2>4
    <2> QED
      BY <2>3, <2>4
  <1>6. ASSUME KillWaited(k) \/ KillTimesOut(k)
        PROVE  /\ lp'[p1].pipe = lp[p1].pipe
               /\ lp'[p1].out \in {lp[p1].out, Cancelled(lp[p1].out)}
    <2>1. PICK signal : LeaveWait(k, signal)
      BY <1>6 DEF KillWaited, KillTimesOut
    <2>2. r \in Procs
      BY <1>6 DEF KillWaited, KillTimesOut, Safe, ConnShape, CallShape
    <2>3. lp' = [lp EXCEPT ![r].signal = signal, ![r].handle = FALSE,
                           ![r].out = Cancelled(@)]
      BY <2>1 DEF LeaveWait
    <2> HIDE DEF r
    <2>4. CASE r = p1
      BY <1>0, <2>3, <2>4 DEF Fields
    <2>5. CASE r # p1
      BY <1>0, <2>2, <2>3, <2>5
    <2> QED
      BY <2>4, <2>5
  <1> QED
    BY <1>1, <1>2, <1>3, <1>4, <1>5, <1>6

-----------------------------------------------------------------------------
(* The steps of the generator and of the transport's other calls.          *)

LEMMA ReaderTypes ==
    ASSUME Safe, [Next]_vars
    PROVE  /\ rd \in [Transports -> Reader] /\ tp \in [Transports -> Transport]
           /\ delivered \in [Transports -> Seq(Yielded)]
           /\ delivered[t1] \in Seq(Yielded) /\ delivered'[t1] \in Seq(Yielded)
           /\ t1 \in Transports
  <1>1. delivered' \in [Transports -> Seq(Yielded)]
    BY ReadersMove
  <1> QED
    BY <1>1, SessionTypes DEF Safe, BridgeTypeOK

\* What follows the callback: nothing of what is behind its message moves.
LEMMA Behind ==
    ASSUME Safe, UNCHANGED <<content, lp, tp, printed>>
    PROVE  /\ Queued' = Queued /\ Piped' = Piped /\ Printed' = Printed
           /\ (Feed' <=> Feed) /\ (Closed' <=> Closed)
           /\ \E w \in Seq(Yielded) :
                /\ OnTheWay = InFlight \o w
                /\ OnTheWay' = InFlight' \o w
                /\ Closed => w = <<>>
  <1>1. /\ Queued' = Queued /\ Piped' = Piped /\ Printed' = Printed
        /\ (Feed' <=> Feed) /\ (Closed' <=> Closed)
    BY DEF Queued, Piped, Printed, Feed, Closed
  <1>2. CASE ~Closed
    <2>1. Queued \o Piped \in Seq(Yielded)
      BY SessionTypes, Regroup
    <2>2. /\ OnTheWay = InFlight \o (Queued \o Piped)
          /\ OnTheWay' = InFlight' \o (Queued \o Piped)
      BY <1>1, <1>2 DEF OnTheWay, Closed, Queued, Piped
    <2> QED
      BY <1>1, <1>2, <2>1, <2>2
  <1>3. CASE Closed
    <2>1. OnTheWay = InFlight /\ OnTheWay' = InFlight'
      BY <1>1, <1>3 DEF OnTheWay, Closed
    <2>2. InFlight = InFlight \o <<>>
      BY FlightIs, Regroup
    <2>3. InFlight' = InFlight' \o <<>>
      <3>1. InFlight' = <<>> \/ \E l : InFlight' = <<l>>
        BY DEF InFlight, LineMessages
      <3>2. \A l : <<l>> = <<l>> \o <<>>
        OBVIOUS
      <3> QED
        BY <3>1, <3>2
    <2> QED
      BY <1>1, <2>1, <2>2, <2>3, EmptySeq
  <1> QED
    BY <1>2, <1>3

\* The callback's message is dropped with the generator.
LEMMA Drops ==
    ASSUME Safe, UNCHANGED <<content, lp, tp, printed>>,
           delivered'[t1] = delivered[t1], rd'[t1].at # "validate"
    PROVE  StreamStep
  <1>1. InFlight' = <<>>
    BY DEF InFlight
  <1>2. CASE InFlight = <<>>
    BY <1>1, <1>2, Behind, Rests DEF Retained
  <1>3. CASE InFlight # <<>>
    <2>1. PICK l \in Yielded : IsHeld(l) /\ InFlight = <<l>>
      BY <1>3, FlightIs
    <2>2. PICK w \in Seq(Yielded) :
             OnTheWay = InFlight \o w /\ OnTheWay' = InFlight' \o w
      BY Behind
    <2>3. <<>> \o w = w
      BY Regroup
    <2> QED
      BY <1>1, <2>1, <2>2, <2>3, Behind, GivesUp
  <1> QED
    BY <1>2, <1>3

LEMMA ActsStreams ==
    ASSUME Safe, [Next]_vars,
           \/ NextMessage(t1) \/ CancelRead(t1) \/ Validated(t1)
           \/ CallbackRaises(t1) \/ PolicyDecides(t1)
    PROVE  StreamStep
  <1>1. UNCHANGED <<content, lp, tp, printed>>
    BY DEF NextMessage, CancelRead, Validated, CallbackRaises, PolicyDecides,
           connVars
  <1>2. CASE NextMessage(t1) \/ CancelRead(t1) \/ CallbackRaises(t1) \/ PolicyDecides(t1)
    <2>1. delivered' = delivered /\ rd'[t1].at # "validate"
      <3>1. Awaiting(t1).at = "get" /\ NotReading.at = "idle"
        BY DEF Awaiting, NotReading
      <3> QED
        BY <1>2, <3>1, ReaderTypes
           DEF NextMessage, CancelRead, CallbackRaises, Return, PolicyDecides
    <2> QED
      BY <1>1, <2>1, Drops
  <1>3. CASE Validated(t1)
    <2> DEFINE l == rd[t1].line
    <2>0. rd[t1].at = "validate" /\ Onward(t1, l) /\ l \in Line /\ Flawed(l)
      BY <1>3, ReaderTypes DEF Validated, Safe, ReaderShape
    <2>1. CASE Decides(t1, l)
      <3>1. delivered' = delivered /\ rd'[t1].at = "policy"
        BY <2>0, <2>1, ReaderTypes DEF Onward, Holding
      <3> QED
        BY <1>1, <3>1, Drops
    <2>2. CASE ~Decides(t1, l)
      <3>1. Yield(t1, l)
        BY <2>0, <2>2 DEF Onward
      <3>2. /\ delivered'[t1] = Append(delivered[t1], l)
            /\ rd'[t1].at = "paused"
        BY <3>1, ReaderTypes DEF Yield, NotReading
      <3>3. IsMessageLine(l) /\ IsHeld(l) /\ l \in Yielded
        BY <2>0, <2>2 DEF IsMessageLine, IsHeld, Flawed, Yielded
      <3>4. InFlight = <<l>> /\ InFlight' = <<>>
        BY <2>0, <3>2, <3>3 DEF InFlight, LineMessages
      <3> HIDE DEF l
      <3>5. PICK w \in Seq(Yielded) :
               OnTheWay = InFlight \o w /\ OnTheWay' = InFlight' \o w
        BY <1>1, Behind
      <3>6. <<>> \o w = w
        BY Regroup
      <3> QED
        BY <1>1, <3>2, <3>3, <3>4, <3>5, <3>6, Behind, Delivers
    <2> QED
      BY <2>1, <2>2
  <1> QED
    BY <1>2, <1>3

\* A message that the generator yields, shows to the callback or gives to the
\* policy.
LEMMA TakesMessage ==
    ASSUME Safe, [Next]_vars, ~Closed, ~Closed',
           NEW e \in Handled, NEW rest \in Seq(Yielded),
           Queued = EventMessages(e) \o rest, Queued' = rest, Piped' = Piped,
           Printed' = Printed, Feed' <=> Feed,
           rd[t1].at = "get", e.type = "stdout", TakeStdout(t1, e)
    PROVE  StreamStep
  <1> DEFINE l == e.line
  <1>1. /\ l \in Line \union {FakeResponse}
        /\ l.kind \in {"message", "bare", "invalid", "rejected", "request",
                       "invalid request"}
        /\ l.kind # "message" => l \in Line
    BY HandledLines
  <1>2. EventMessages(e) = LineMessages(l) /\ InFlight = <<>>
    BY DEF EventMessages, InFlight
  <1>3. /\ Piped \in Seq(Yielded) /\ rest \o Piped \in Seq(Yielded)
        /\ OnTheWay = InFlight \o ((LineMessages(l) \o rest) \o Piped)
        /\ OnTheWay' = InFlight' \o (rest \o Piped)
    BY <1>2, SessionTypes, Regroup DEF OnTheWay, Closed, Queued, Piped
  <1>4. LineMessages(l) \in Seq(Yielded)
    BY <1>1, LinesBring
  <1> HIDE DEF l
  <1>5. OnTheWay = LineMessages(l) \o (rest \o Piped)
    <2>1. (LineMessages(l) \o rest) \o Piped = LineMessages(l) \o (rest \o Piped)
      BY <1>3, <1>4, Regroup
    <2>2. LineMessages(l) \o (rest \o Piped) \in Seq(Yielded)
      BY <1>3, <1>4, Regroup
    <2> QED
      BY <1>2, <1>3, <2>1, <2>2, Regroup
  <1>6. ASSUME delivered' = delivered, InFlight' = LineMessages(l)
        PROVE  StreamStep
    BY <1>3, <1>5, <1>6, Stutters
  <1>7. ASSUME delivered' = delivered, rd'[t1].at # "validate", ~IsMessageLine(l)
        PROVE  StreamStep
    <2>1. LineMessages(l) = <<>> /\ InFlight' = <<>>
      BY <1>7 DEF LineMessages, InFlight
    <2> QED
      BY <1>6, <1>7, <2>1
  <1>8. CASE l.kind \in {"bare", "rejected"}
    <2>1. delivered' = delivered /\ rd'[t1].at # "validate"
      <3>1. Awaiting(t1).at = "get" /\ NotReading.at = "idle"
        BY DEF Awaiting, NotReading
      <3> QED
        BY <1>8, <3>1, ReaderTypes DEF TakeStdout, IsBare, Flawed, Return, l
    <2> QED
      BY <1>7, <1>8, <2>1 DEF IsMessageLine
  <1>9. CASE Flawed(l) /\ Holding(t1, "validate", l)
    <2>1. delivered' = delivered /\ rd'[t1].at = "validate" /\ rd'[t1].line = l
      BY <1>9, ReaderTypes DEF Holding
    <2>2. InFlight' = LineMessages(l)
      BY <2>1 DEF InFlight
    <2> QED
      BY <1>6, <2>1, <2>2
  <1>10. CASE ~Flawed(l) /\ l.kind \notin {"bare", "rejected"} /\ Onward(t1, l)
    <2>1. CASE Decides(t1, l)
      <3>1. delivered' = delivered /\ rd'[t1].at # "validate"
        BY <1>10, <2>1, ReaderTypes DEF Onward, Holding
      <3> QED
        BY <1>7, <2>1, <3>1 DEF IsMessageLine
    <2>2. CASE ~Decides(t1, l)
      <3>1. IsMessageLine(l) /\ l \in Yielded
        BY <1>1, <1>10, <2>2 DEF IsMessageLine, Yielded, Flawed
      <3>2. delivered'[t1] = Append(delivered[t1], l) /\ rd'[t1].at = "paused"
        BY <1>10, <2>2, ReaderTypes DEF Onward, Yield, NotReading
      <3>3. LineMessages(l) = <<l>> /\ InFlight' = <<>>
        BY <3>1, <3>2 DEF LineMessages, InFlight
      <3>4. OnTheWay' = rest \o Piped
        BY <1>3, <3>3, Regroup
      <3> QED
        BY <1>3, <1>5, <3>1, <3>2, <3>3, <3>4, Delivers
    <2> QED
      BY <2>1, <2>2
  <1>11. \/ l.kind \in {"bare", "rejected"}
         \/ Flawed(l) /\ Holding(t1, "validate", l)
         \/ ~Flawed(l) /\ l.kind \notin {"bare", "rejected"} /\ Onward(t1, l)
    BY DEF TakeStdout, IsBare, l
  <1> QED
    BY <1>8, <1>9, <1>10, <1>11

LEMMA ReceiveStreams ==
    ASSUME Safe, OwnReads, [Next]_vars, Receive(t1)
    PROVE  StreamStep
  <1> DEFINE e == Head(content[q1])
             rest == QueueMessages(Tail(content[q1]))
  <1>1. /\ rd[t1].at = "get" /\ rd[t1].queue = q1 /\ content[q1] # <<>>
        /\ content' = [content EXCEPT ![q1] = Tail(@)]
        /\ lp' = lp /\ printed' = printed
        /\ Discard(t1, e) \/ TakeStdout(t1, e) \/ TakeStderr(t1, e) \/ TakeExit(t1, e)
    <2>1. rd[t1].at = "get" /\ rd[t1].queue \in Queues
      BY ReaderTypes DEF Receive, Safe, ReaderShape
    <2>2. rd[t1].queue = q1
      BY <2>1, ReaderTypes DEF OwnReads
    <2> QED
      BY <2>1, <2>2 DEF Receive
  <1>2. /\ e \in Handled /\ rest \in Seq(Yielded) /\ Queued = EventMessages(e) \o rest
        /\ Queued' = rest /\ Piped' = Piped /\ Printed' = Printed
        /\ (Feed' <=> Feed)
    <2>1. e \in Handled /\ Tail(content[q1]) \in Seq(Handled)
      BY <1>1, SessionTypes
    <2>2. content'[q1] = Tail(content[q1])
      BY <1>1, SessionTypes
    <2>3. rest \in Seq(Yielded) /\ QueueMessages(content[q1]) = EventMessages(e) \o rest
      BY <1>1, <2>1, SessionTypes, QueueBrings
    <2> QED
      BY <1>1, <2>1, <2>2, <2>3 DEF Queued, Piped, Printed, Feed
  <1> HIDE DEF e, rest
  <1>3. ASSUME delivered' = delivered, rd'[t1].at # "validate" PROVE Retained
    BY <1>1, <1>3 DEF Retained, InFlight
  <1>4. CASE Discard(t1, e)
    <2>1. /\ Closed /\ Closed' /\ delivered' = delivered /\ rd'[t1].at # "validate"
      BY <1>4, ReaderTypes DEF Discard, Ended, Return, NotReading, Closed
    <2> QED
      BY <1>2, <1>3, <2>1, StaysClosed
  <1>5. CASE TakeExit(t1, e)
    <2>1. /\ ~Closed /\ Closed' /\ delivered' = delivered /\ rd'[t1].at # "validate"
      BY <1>5, ReaderTypes DEF TakeExit, Ended, Return, NotReading, Closed, Transport
    <2> QED
      BY <1>2, <1>3, <2>1, StreamEnds
  <1>6. CASE TakeStderr(t1, e)
    <2>1. /\ ~Closed /\ ~Closed' /\ delivered' = delivered /\ rd'[t1].at # "validate"
          /\ e.type = "stderr"
      BY <1>6, ReaderTypes DEF TakeStderr, Ended, Awaiting, Closed
    <2>2. Queued = <<>> \o rest
      BY <1>2, <2>1 DEF EventMessages
    <2>3. Queued = Queued'
      BY <1>2, <2>2, Regroup
    <2> QED
      BY <1>2, <1>3, <2>1, <2>3, Rests
  <1>7. CASE TakeStdout(t1, e)
    <2>1. ~Closed /\ ~Closed' /\ e.type = "stdout"
      BY <1>7 DEF TakeStdout, Ended, Closed
    <2> QED
      BY <1>1, <1>2, <1>7, <2>1, TakesMessage
  <1> QED
    BY <1>1, <1>4, <1>5, <1>6, <1>7

\* The generator of another transport reads from another queue.
LEMMA OtherReaders ==
    ASSUME Safe, OwnReads, [Next]_vars, NEW t \in Transports, t # t1,
           NextMessage(t) \/ CancelRead(t) \/ ReaderStep(t)
    PROVE  StreamStep
  <1>1. rd'[t1] = rd[t1] /\ delivered'[t1] = delivered[t1]
    BY ReaderActs, ReaderTypes
  <1>2. Retained
    BY <1>1 DEF Retained, InFlight
  <1>3. lp' = lp /\ printed' = printed /\ tp'[t1] = tp[t1] /\ content'[q1] = content[q1]
    <2>1. CASE Receive(t)
      <3>1. lp' = lp /\ printed' = printed /\ tp'[t1] = tp[t1]
        BY <2>1, ReaderTypes DEF Receive, Discard, TakeStdout, TakeStderr, TakeExit
      <3>2. /\ rd[t].queue # q1
            /\ content' = [content EXCEPT ![rd[t].queue] = Tail(@)]
        BY <2>1 DEF Receive, OwnReads
      <3> QED
        BY <3>1, <3>2, SessionTypes, SMTT(60)
    <2>2. CASE \/ NextMessage(t) \/ CancelRead(t) \/ Validated(t)
               \/ CallbackRaises(t) \/ PolicyDecides(t)
      BY <2>2 DEF NextMessage, CancelRead, Validated, CallbackRaises,
                  PolicyDecides, connVars
    <2> QED
      BY <2>1, <2>2 DEF ReaderStep
  <1> QED
    BY <1>2, <1>3, LeavesStreams DEF Closed

LEMMA FakeHandled ==
    /\ Stdout(FakeResponse) \in Handled
    /\ EventMessages(Stdout(FakeResponse)) = <<FakeResponse>>
    /\ StopEvent \in Handled /\ StopEvent.type # "stdout"
  BY DEF Handled, EventMessages, Stdout, LineMessages, IsMessageLine, Decides,
         IsRequest,
         FakeResponse, StopEvent, ExitFrom

\* write: an intercepted request puts its answer behind the queue.
LEMMA WriteStreams ==
    ASSUME Safe, OwnSession, [Next]_vars, NEW kind, Write(t1, kind)
    PROVE  StreamStep
  <1>1. /\ lp' = lp /\ printed' = printed /\ Retained
        /\ tp' = tp \/ tp' = [tp EXCEPT ![t1].reconnecting = FALSE]
        /\ \/ content' = content
           \/ /\ tp[t1].queue # None
              /\ content' = Put(tp[t1].queue, <<Stdout(FakeResponse)>>)
    BY DEF Write, Intercept, Forward, Retained, InFlight
  <1>2. Closed' <=> Closed
    BY <1>1, ReaderTypes DEF Closed, Transport
  <1>3. CASE content' = content
    BY <1>1, <1>2, <1>3, LeavesStreams
  <1>4. CASE tp[t1].queue # None /\ content' = Put(tp[t1].queue, <<Stdout(FakeResponse)>>)
    <2>1. tp[t1].queue = q1
      BY <1>4, ReaderTypes DEF OwnSession
    <2>2. Queued' = Queued \o <<FakeResponse>>
      BY <1>4, <2>1, FakeHandled, PutOne
    <2>3. Piped' = Piped /\ (Feed' <=> Feed) /\ Printed' = Printed
      BY <1>1 DEF Piped, Feed, Printed
    <2>4. CASE Closed
      BY <1>1, <1>2, <2>3, <2>4, StaysClosed
    <2>5. CASE ~Closed
      BY <1>1, <1>2, <2>2, <2>3, <2>5, SessionTypes, Fabricates
    <2> QED
      BY <2>4, <2>5
  <1> QED
    BY <1>1, <1>3, <1>4

\* Another transport's answer goes to another queue.
LEMMA OtherWrites ==
    ASSUME Safe, OwnSession, NEW t \in Transports, t # t1, NEW kind,
           Write(t, kind)
    PROVE  StreamStep
  <1>1. lp' = lp /\ printed' = printed /\ Retained /\ tp'[t1] = tp[t1]
    <2>1. lp' = lp /\ printed' = printed /\ delivered' = delivered /\ rd' = rd
      BY DEF Write
    <2>2. tp' = tp \/ tp' = [tp EXCEPT ![t].reconnecting = FALSE]
      BY DEF Write, Intercept, Forward
    <2>3. tp'[t1] = tp[t1]
      BY <2>2, SessionTypes DEF Safe, BridgeTypeOK
    <2> QED
      BY <2>1, <2>3 DEF Retained, InFlight
  <1>2. \/ content' = content
        \/ /\ tp[t].queue # None
           /\ content' = Put(tp[t].queue, <<Stdout(FakeResponse)>>)
    BY DEF Write, Intercept, Forward
  <1>3. tp[t].queue # None => tp[t].queue # q1
    BY DEF OwnSession
  <1>4. content'[q1] = content[q1]
    BY <1>2, <1>3, SessionTypes DEF Put
  <1> QED
    BY <1>1, <1>4, LeavesStreams DEF Closed

\* A call that sets or resets the fields of a transport but not the end of
\* its stream.
LEMMA CallStreams ==
    ASSUME Safe, Retained, content'[q1] = content[q1], printed' = printed,
           Closed' <=> Closed, lp'[p1].pipe = lp[p1].pipe,
           lp[p1].out \in {"done", "failed"} => lp'[p1].out \in {"done", "failed"}
    PROVE  StreamStep
  <1>0. Queued' = Queued /\ Printed' = Printed /\ (Feed' => Feed)
    BY DEF Queued, Printed, Feed, Reads
  <1>1. CASE Closed
    BY <1>0, <1>1, StaysClosed
  <1>2. CASE ~Closed
    BY <1>0, <1>2, QuietStreams
  <1> QED
    BY <1>1, <1>2

LEMMA KillKeeps ==
    ASSUME Safe, NEW k \in Tasks, NEW name, NEW t \in Transports, Kill(k, name, t)
    PROVE  /\ lp'[p1].pipe = lp[p1].pipe
           /\ lp[p1].out \in {"done", "failed"} => lp'[p1].out \in {"done", "failed"}
  <1>1. NameOf[t] \in Names
    BY NamesOf
  <1>2. CASE KillBegin(k, NameOf[t])
    BY <1>1, <1>2, CallsQuiet
  <1>3. CASE lp' = lp
    BY <1>3
  <1> QED
    BY <1>2, <1>3 DEF Kill

\* close does not end the stream.
LEMMA CloseKeeps ==
    ASSUME Safe, [Next]_vars, NEW t \in Transports, EndClose(t)
    PROVE  Closed' <=> Closed
  <1>1. tp' = [tp EXCEPT ![t].ready = FALSE]
    BY DEF EndClose
  <1>2. CASE t = t1
    BY <1>1, <1>2, ReaderTypes DEF Closed, Transport
  <1>3. CASE t # t1
    BY <1>1, <1>3, ReaderTypes DEF Closed
  <1> QED
    BY <1>2, <1>3

LEMMA SpawnCloseStream ==
    ASSUME Safe, [Next]_vars, NEW k \in Tasks, NEW t \in Transports,
           Spawn(k, t) \/ \E name \in Calls : Close(k, name, t)
    PROVE  StreamStep
  <1>1. Retained /\ content' = content /\ printed' = printed
    BY DEF Spawn, Close, Retained, InFlight
  <1>2. CASE Spawn(k, t)
    <2>1. tp' = tp /\ SpawnBegin(k, NameOf[t]) /\ NameOf[t] \in Names
      BY <1>2, NamesOf DEF Spawn
    <2>2. Closed' <=> Closed
      BY <2>1 DEF Closed
    <2>3. /\ lp'[p1].pipe = lp[p1].pipe
          /\ lp[p1].out \in {"done", "failed"} => lp'[p1].out \in {"done", "failed"}
      BY <2>1, CallsQuiet
    <2> QED
      BY <1>1, <2>2, <2>3, CallStreams
  <1>3. ASSUME NEW name, Close(k, name, t) PROVE StreamStep
    <2>1. CASE EndClose(t) /\ lp' = lp
      BY <1>1, <2>1, CloseKeeps, CallStreams
    <2>2. CASE Kill(k, name, t) /\ tp' = tp
      <3>1. Closed' <=> Closed
        BY <2>2 DEF Closed
      <3>2. /\ lp'[p1].pipe = lp[p1].pipe
            /\ lp[p1].out \in {"done", "failed"} => lp'[p1].out \in {"done", "failed"}
        BY <2>2, KillKeeps
      <3> QED
        BY <1>1, <3>1, <3>2, CallStreams
    <2> QED
      BY <1>3, <2>1, <2>2 DEF Close
  <1> QED
    BY <1>2, <1>3

\* stop ends the stream of its own transport.
LEMMA StopStreams ==
    ASSUME Safe, OwnSession, [Next]_vars, NEW k \in Tasks, NEW t \in Transports,
           Stop(k, t)
    PROVE  StreamStep
  <1>1. Retained /\ printed' = printed /\ Printed' = Printed
    BY DEF Stop, Retained, InFlight, Printed
  <1>4. /\ lp'[p1].pipe = lp[p1].pipe
        /\ lp[p1].out \in {"done", "failed"} => lp'[p1].out \in {"done", "failed"}
    BY KillKeeps DEF Stop
  <1>2. CASE t = t1
    <2>1. ~Closed /\ Closed'
      BY <1>2, ReaderTypes DEF Stop, Closed, Transport
    <2>2. Feed' => Feed
      BY <1>4 DEF Feed, Reads
    <2> QED
      BY <1>1, <2>1, <2>2, StreamEnds
  <1>3. CASE t # t1
    <2>1. tp'[t1] = tp[t1]
      BY <1>3, ReaderTypes DEF Stop
    <2>2. content'[q1] = content[q1]
      <3>1. tp[t].queue # None => tp[t].queue # q1
        BY <1>3 DEF OwnSession
      <3> QED
        BY <3>1, SessionTypes DEF Stop, StopInjects, Put
    <2> QED
      BY <1>1, <1>4, <2>1, <2>2, CallStreams DEF Closed
  <1> QED
    BY <1>2, <1>3

LEMMA ConnectStreams ==
    ASSUME Safe, [Next]_vars, NEW t \in Transports, Connect(t)
    PROVE  StreamStep
  <1>1. lp' = lp /\ content' = content /\ printed' = printed /\ Retained
    BY DEF Connect, Retained, InFlight
  <1>2. PICK q : tp' = [tp EXCEPT ![t].ready = TRUE, ![t].queue = q]
    BY DEF Connect
  <1>3. Closed' <=> Closed
    <2>1. CASE t = t1
      BY <1>2, <2>1, ReaderTypes DEF Closed, Transport
    <2>2. CASE t # t1
      BY <1>2, <2>2, ReaderTypes DEF Closed
    <2> QED
      BY <2>1, <2>2
  <1> QED
    BY <1>1, <1>3, CallStreams

LEMMA OpStepStreams ==
    ASSUME Safe, [Next]_vars, NEW k \in Tasks, OpStep(k)
    PROVE  StreamStep
  <1>1. Retained /\ content' = content /\ printed' = printed
    BY DEF OpStep, SpawnStep, SpawnExec, SpawnDone, SpawnFails, KillStep,
           KillWaited, KillTimesOut, LeaveWait, DisconnectTimesOut, StopEnds,
           CloseEnds, KillEnds, KillCancelled, WriteChecked, connVars, bridgeVars,
           Retained, InFlight
  <1>2. Closed' <=> Closed
    <2>1. CASE CloseEnds(k)
      <3>1. op[k].t \in Transports /\ EndClose(op[k].t)
        BY <2>1 DEF CloseEnds, Safe, OpShape
      <3> QED
        BY <3>1, CloseKeeps
    <2>2. CASE ~CloseEnds(k)
      <3>1. tp' = tp
        BY <2>2 DEF OpStep, SpawnStep, KillStep, DisconnectTimesOut, StopEnds,
                    WriteChecked, bridgeVars
      <3> QED
        BY <3>1 DEF Closed
    <2> QED
      BY <2>1, <2>2
  <1>3. /\ lp'[p1].pipe = lp[p1].pipe
        /\ lp[p1].out \in {"done", "failed"} => lp'[p1].out \in {"done", "failed"}
    <2>1. CASE SpawnStep(k) \/ KillStep(k) \/ DisconnectTimesOut(k)
      BY <2>1, CallsQuiet DEF SpawnStep, KillStep, DisconnectTimesOut
    <2>2. CASE StopEnds(k) \/ CloseEnds(k) \/ WriteChecked(k)
      BY <2>2 DEF StopEnds, CloseEnds, WriteChecked, connVars
    <2> QED
      BY <2>1, <2>2 DEF OpStep
  <1> QED
    BY <1>1, <1>2, <1>3, CallStreams, SMTT(60)

-----------------------------------------------------------------------------
LEMMA OwnReadsStep ==
    ASSUME Safe, OwnSession, OwnReads, [Next]_vars
    PROVE  OwnReads'
  <1> SUFFICES ASSUME NEW t \in Transports, rd'[t].at = "get"
               PROVE  rd'[t].queue = q1 <=> t = t1
    BY DEF OwnReads
  <1>1. ReaderMoves(t)
    BY ReadersMove
  <1>2. CASE rd'[t] = rd[t]
    BY <1>2 DEF OwnReads
  <1>3. CASE Waits(t)
    BY <1>3 DEF Waits, Awaiting, OwnSession
  <1> QED
    BY <1>1, <1>2, <1>3 DEF ReaderMoves, Quiet, Ends, Shows, Passes, Yields,
                            NotReading

LEMMA StreamSimulates ==
    ASSUME Safe, OwnSession, OwnReads, [Next]_vars
    PROVE  StreamStep
  <1>1. CASE World
    BY <1>1, WorldStreams
  <1>2. ASSUME NEW t \in Transports,
               NextMessage(t) \/ CancelRead(t) \/ ReaderStep(t)
        PROVE  StreamStep
    <2>1. CASE t = t1
      BY <1>2, <2>1, ActsStreams, ReceiveStreams DEF ReaderStep
    <2>2. CASE t # t1
      BY <1>2, <2>2, OtherReaders
    <2> QED
      BY <2>1, <2>2
  <1>3. ASSUME NEW t \in Transports, NEW kind, Write(t, kind) PROVE StreamStep
    BY <1>3, WriteStreams, OtherWrites
  <1>4. ASSUME NEW t \in Transports, Connect(t) PROVE StreamStep
    BY <1>4, ConnectStreams
  <1>5. ASSUME NEW t \in Transports, NEW k \in Tasks,
               \/ Spawn(k, t) \/ Stop(k, t)
               \/ \E name \in Calls : Close(k, name, t)
        PROVE  StreamStep
    BY <1>5, SpawnCloseStream, StopStreams
  <1>9. ASSUME NEW t \in Transports, NEW k \in Tasks, NEW kind,
               WriteFlawed(k, t, kind)
        PROVE  StreamStep
    <2>1. lp' = lp /\ content' = content /\ tp' = tp /\ printed' = printed /\ Retained
      BY <1>9 DEF WriteFlawed, connVars, Retained, InFlight
    <2>2. Closed' <=> Closed
      BY <2>1 DEF Closed
    <2> QED
      BY <2>1, <2>2, CallStreams
  <1>6. ASSUME NEW k \in Tasks, OpStep(k) PROVE StreamStep
    BY <1>6, OpStepStreams
  <1>7. CASE UNCHANGED vars
    <2>1. lp' = lp /\ content' = content /\ tp' = tp /\ printed' = printed /\ Retained
      BY <1>7 DEF vars, connVars, bridgeVars, Retained, InFlight
    <2>2. Closed' <=> Closed
      BY <2>1 DEF Closed
    <2> QED
      BY <2>1, <2>2, CallStreams
  <1>8. CASE Next
    BY <1>1, <1>2, <1>3, <1>4, <1>5, <1>6, <1>8, <1>9 DEF Next
  <1> QED
    BY <1>7, <1>8

LEMMA StreamInit ==
    ASSUME Init
    PROVE  Stream!Init
  <1>1. t1 \in Transports /\ p1 \in Procs /\ q1 \in Queues
    BY SessionAssumption
  <1>2. /\ content[q1] = <<>> /\ lp[p1].pipe = <<>> /\ tp[t1].cliExited = FALSE
        /\ delivered[t1] = <<>> /\ rd[t1].at = "idle" /\ lp[p1].out = "none"
        /\ printed[p1] = <<>>
    BY <1>1 DEF Init, ConnInit, NotReading, Unstarted
  <1>3. /\ QueueMessages(content[q1]) = <<>> /\ PipeMessages(lp[p1].pipe) = <<>>
        /\ PipeMessages(printed[p1]) = <<>>
    BY <1>2, NothingBrings
  <1>4. OnTheWay = <<>> /\ Reads(lp[p1])
    <2>1. OnTheWay = <<>> \o (<<>> \o <<>>)
      BY <1>2, <1>3 DEF OnTheWay, Unread, Reads, InFlight
    <2> QED
      BY <1>2, <2>1 DEF Reads
  <1> QED
    BY <1>2, <1>3, <1>4 DEF Stream!Init

\* A transport, whatever calls tasks make of it and of the transports beside
\* it, those that share its name included, and however they interleave with
\* the generators, the CLIs and their readers, implements the message stream
\* whose input is the record of what its process printed: each message comes
\* out once, in the order it was printed in, and what does not is a tail that
\* the reader's end cut off, or was on its way when the stream ended, or was a
\* callback's when the generator ended.  The transport does not connect anew,
\* and its queue is one process's.
THEOREM SessionRefinesStream == Spec /\ []OwnSession => ImplementsStream
  <1>1. Init => Stream!Init
    BY StreamInit
  <1>2. Init => OwnReads
    BY DEF Init, NotReading, OwnReads
  <1>3. Safe /\ OwnSession /\ OwnReads /\ [Next]_vars => OwnReads'
    BY OwnReadsStep
  <1>4. Safe /\ OwnSession /\ OwnReads /\ [Next]_vars => [Stream!Next]_Stream!vars
    BY StreamSimulates, StreamStepIs
  <1>5. Spec => []Safe
    BY BridgeSafe
  <1> QED
    BY <1>1, <1>2, <1>3, <1>4, <1>5, PTL DEF Spec, ImplementsStream, Stream!Spec

\* In a connection of one transport, process and queue nothing is left to
\* assume of the hosts.
THEOREM BridgeRefinesStream ==
    ASSUME OneSession PROVE Spec => ImplementsStream
  <1>1. Safe => OwnSession
    BY DEF Safe, BridgeTypeOK, ObjectsTypeOK, Transport, LocalProcess,
           OneSession, OwnSession
  <1>2. Spec => []Safe
    BY BridgeSafe
  <1> QED
    BY <1>1, <1>2, SessionRefinesStream, PTL
=============================================================================
