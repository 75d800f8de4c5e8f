---------------------------- MODULE MessageStream ----------------------------
(***************************************************************************)
(* What a session promises the host about the CLI's stdout, with no tasks, *)
(* channels or processes.  Every message printed while the feed lasts is   *)
(* pending until the host gets it: messages come out in the order they     *)
(* went in, each once.  A message is lost in three ways and no other: the  *)
(* feed is cut, once, and a tail of what is pending goes with it; the      *)
(* stream ends, and all that is pending goes; or the message is one of the *)
(* Held, which a session shows to a callback of the host before it returns *)
(* them, and the read ends there.  An answer the session makes up itself   *)
(* (the fake initialize response of a reconnecting session) enters among   *)
(* the pending messages.                                                   *)
(***************************************************************************)
EXTENDS Integers, Sequences, SequencesExt

CONSTANTS
    Messages,        \* what the CLI can put on its stdout for the host
    Held,            \* those of them a callback sees first
    Fake             \* the response a session fabricates

VARIABLES
    sent,            \* history: every message the CLI printed, in order
    pending,         \* not yet returned to the host
    got,             \* returned to the host, in order
    feed,            \* what the CLI prints still reaches the session
    open             \* the host has not seen the stream end

vars == <<sent, pending, got, feed, open>>

Init ==
    /\ sent = <<>> /\ pending = <<>> /\ got = <<>>
    /\ feed = TRUE /\ open = TRUE

Produce(m) ==
    /\ sent' = Append(sent, m)
    /\ pending' = IF feed /\ open THEN Append(pending, m) ELSE pending
    /\ UNCHANGED <<got, feed, open>>

\* The fabricated response may overtake messages still on their way.
Fabricate ==
    /\ open
    /\ \E i \in 1..Len(pending) + 1 : pending' = InsertAt(pending, i, Fake)
    /\ UNCHANGED <<sent, got, feed, open>>

Deliver ==
    /\ pending # <<>>
    /\ open \/ Head(pending) \in Held
    /\ got' = Append(got, Head(pending))
    /\ pending' = Tail(pending)
    /\ UNCHANGED <<sent, feed, open>>

\* The read ends while the host's callback has its message.
GiveUp ==
    /\ pending # <<>> /\ Head(pending) \in Held
    /\ pending' = Tail(pending)
    /\ UNCHANGED <<sent, got, feed, open>>

\* The reader of the CLI's stdout ends, at the end of the file or earlier, at
\* a line it cannot read.
Cut ==
    /\ feed
    /\ feed' = FALSE
    /\ \E n \in 0..Len(pending) : pending' = SubSeq(pending, 1, n)
    /\ UNCHANGED <<sent, got, open>>

\* Only a message that a callback already has may still come out.  What ends
\* the stream may end the reader with it.
End ==
    /\ open
    /\ open' = FALSE
    /\ feed' \in {feed, FALSE}
    /\ \/ pending' = <<>>
       \/ /\ pending # <<>> /\ Head(pending) \in Held
          /\ pending' = <<Head(pending)>>
    /\ UNCHANGED <<sent, got>>

Next ==
    \/ \E m \in Messages : Produce(m)
    \/ Fabricate
    \/ Deliver
    \/ GiveUp
    \/ Cut
    \/ End

Spec == Init /\ [][Next]_vars
=============================================================================
