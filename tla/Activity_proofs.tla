----------------------------- MODULE Activity_proofs -----------------------------
(***************************************************************************)
(* What py/claudewire/events.py shows of the CLI's turns, for every number *)
(* of turns, blocks and deltas and every length of a preview.              *)
(***************************************************************************)
EXTENDS Activity, SequenceTheorems, TLAPS

LEMMA Shortened ==
    ASSUME NEW text \in Seq(Chars), Cap <= Len(text)
    PROVE  /\ SubSeq(text, 1, Cap) \in Seq(Chars)
           /\ Len(SubSeq(text, 1, Cap)) = Cap
           /\ \A i \in 1..Cap : SubSeq(text, 1, Cap)[i] = text[i]
  <1>1. Cap \in Nat /\ Len(text) \in Nat /\ \A i \in 1..Cap : text[i] \in Chars
    BY CapAssumption
  <1>2. \A i \in 1..Cap - 1 + 1 : 1 + i - 1 = i
    BY <1>1
  <1> QED
    BY <1>1, <1>2, SubSeqProperties

\* What is cut again after each delta is what is cut once.
LEMMA CutOnce ==
    ASSUME NEW text \in Seq(Chars), NEW chunk \in Seq(Chars)
    PROVE  FirstOf(FirstChars(text), chunk) = FirstChars(text \o chunk)
  <1>1. /\ Cap \in Nat /\ Len(text) \in Nat /\ Len(chunk) \in Nat
        /\ text \o chunk \in Seq(Chars)
        /\ Len(text \o chunk) = Len(text) + Len(chunk)
        /\ \A i \in 1..Len(text) : (text \o chunk)[i] = text[i]
    BY CapAssumption, ConcatProperties
  <1>2. CASE Len(text) < Cap
    <2>1. FirstChars(text) = text
      <3>1. SubSeq(text, 1, Len(text)) = text
        BY <1>1, SubSeqProperties
      <3> QED
        BY <1>2, <3>1 DEF FirstChars
    <2> QED
      BY <1>2, <2>1 DEF FirstOf, FirstChars
  <1>3. CASE ~(Len(text) < Cap)
    <2>1. Cap <= Len(text) /\ Cap <= Len(text \o chunk)
      BY <1>1, <1>3
    <2>2. /\ FirstChars(text) = SubSeq(text, 1, Cap)
          /\ FirstChars(text \o chunk) = SubSeq(text \o chunk, 1, Cap)
      BY <1>1, <1>3, <2>1 DEF FirstChars
    <2>3. /\ SubSeq(text, 1, Cap) \in Seq(Chars)
          /\ Len(SubSeq(text, 1, Cap)) = Cap
          /\ \A i \in 1..Cap : SubSeq(text, 1, Cap)[i] = text[i]
      BY <1>1, <2>1, Shortened
    <2>4. /\ SubSeq(text \o chunk, 1, Cap) \in Seq(Chars)
          /\ Len(SubSeq(text \o chunk, 1, Cap)) = Cap
          /\ \A i \in 1..Cap : SubSeq(text \o chunk, 1, Cap)[i] = (text \o chunk)[i]
      BY <1>1, <2>1, Shortened
    <2>5. SubSeq(text, 1, Cap) = SubSeq(text \o chunk, 1, Cap)
      <3>1. \A i \in 1..Cap :
              SubSeq(text, 1, Cap)[i] = SubSeq(text \o chunk, 1, Cap)[i]
        BY <1>1, <2>1, <2>3, <2>4
      <3> QED
        BY <3>1, <2>3, <2>4, SeqEqual
    <2>6. ~(Len(FirstChars(text)) < Cap)
      BY <1>1, <2>2, <2>3
    <2>7. FirstOf(FirstChars(text), chunk) = FirstChars(text)
      BY <2>6 DEF FirstOf
    <2> QED
      BY <2>2, <2>5, <2>7
  <1> QED
    BY <1>2, <1>3

LEMMA CutTypes ==
    ASSUME NEW text \in Seq(Chars)
    PROVE  FirstChars(text) \in Seq(Chars) /\ Len(FirstChars(text)) <= Cap
  BY CapAssumption DEF FirstChars

\* A preview keeps its type and its bound, whatever it held.
LEMMA FirstOfTypes ==
    ASSUME NEW preview \in Seq(Chars), NEW chunk \in Seq(Chars),
           Len(preview) <= Cap
    PROVE  FirstOf(preview, chunk) \in Seq(Chars) /\ Len(FirstOf(preview, chunk)) <= Cap
  <1>1. preview \o chunk \in Seq(Chars)
    BY ConcatProperties
  <1>2. FirstChars(preview \o chunk) \in Seq(Chars) /\ Len(FirstChars(preview \o chunk)) <= Cap
    BY <1>1, CutTypes
  <1> QED
    BY <1>2 DEF FirstOf, FirstChars

LEMMA ChunkTypes ==
    ASSUME NEW chunk \in Chunk
    PROVE  chunk \in Seq(Chars) /\ Len(chunk) \in Nat
  BY DEF Chunk, BoundedSeq, SeqOf

-----------------------------------------------------------------------------
(* The inductive invariant.                                                *)

\* A block is open only under its kind, and between blocks the turn has not
\* been given a reason yet.
StreamShape ==
    /\ stream.at = "block" => stream.last \in BlockKinds
    /\ stream.at = "turn" => stream.last \in BlockKinds \union {"none"}
    /\ stream.at = "between" => stream.last \in StopReasons \union {"none", "interrupt"}

ActivityInv == ActivityTypeOK /\ StreamShape /\ PhaseTells /\ ShowsLastBlocks

LEMMA InitActivity == ActivityInit => ActivityInv
  <1> SUFFICES ASSUME ActivityInit PROVE ActivityInv
    OBVIOUS
  <1> USE DEF ActivityInit
  <1>1. ActivityTypeOK
    BY CapAssumption, TurnBoundsAssumption
       DEF ActivityTypeOK, ActivityState, StreamState, Shown
  <1>2. StreamShape
    BY DEF StreamShape
  <1>3. PhaseTells
    BY DEF PhaseTells, PhaseOf, BlockKinds
  <1>4. ShowsLastBlocks
    <2>1. FirstChars(<<>>) = <<>>
      BY CapAssumption DEF FirstChars
    <2> QED
      BY <2>1 DEF ShowsLastBlocks, FirstChars
  <1> QED
    BY <1>1, <1>2, <1>3, <1>4 DEF ActivityInv

-----------------------------------------------------------------------------
(* Each step.                                                              *)

\* The goal of every action, its conjuncts named.
Kept == ActivityTypeOK' /\ StreamShape' /\ PhaseTells' /\ ShowsLastBlocks'

LEMMA StreamFields ==
    ASSUME stream \in StreamState
    PROVE  /\ stream.blocks \in Nat /\ stream.deltas \in Nat
           /\ stream.at \in {"between", "turn", "block"}
  BY TurnBoundsAssumption DEF StreamState

LEMMA BeginTurnKeeps == ActivityInv /\ BeginTurn => Kept
  <1> SUFFICES ASSUME ActivityInv, BeginTurn PROVE Kept
    OBVIOUS
  <1> USE DEF ActivityInv, BeginTurn, MessageStart
  <1>1. shown \in Shown => shown' \in Shown
    BY DEF Shown
  <1>2. ActivityTypeOK'
    <2>1. shown' \in Shown
      BY <1>1 DEF ActivityTypeOK
    <2>2. stream' \in StreamState
      BY TurnBoundsAssumption DEF ActivityTypeOK, StreamState
    <2>3. /\ activity' \in ActivityState /\ activity'.turns <= MaxTurns
          /\ activity'.preview = activity.preview
      <3>1. /\ activity \in ActivityState
            /\ activity.turns \in Nat /\ activity.turns < MaxTurns
            /\ MaxTurns \in Nat
        BY TurnBoundsAssumption DEF ActivityTypeOK, ActivityState
      <3>2. activity.turns + 1 \in Nat /\ activity.turns + 1 <= MaxTurns
        BY <3>1
      <3>3. activity' = [activity EXCEPT !.turns = activity.turns + 1]
        OBVIOUS
      <3> QED
        BY <3>1, <3>2, <3>3 DEF ActivityState
    <2> QED
      BY <2>1, <2>2, <2>3 DEF ActivityTypeOK
  <1>3. StreamShape' /\ PhaseTells'
    BY DEF StreamShape, PhaseTells, BlockKinds, ActivityTypeOK, ActivityState
  <1>4. ShowsLastBlocks'
    BY DEF ShowsLastBlocks, ActivityTypeOK, ActivityState, Shown
  <1> QED
    BY <1>2, <1>3, <1>4 DEF Kept

LEMMA BeginBlockKeeps ==
    ASSUME NEW kind \in BlockKinds, NEW tool \in ToolNames
    PROVE  ActivityInv /\ BeginBlock(kind, tool) => Kept
  <1> SUFFICES ASSUME ActivityInv, BeginBlock(kind, tool) PROVE Kept
    OBVIOUS
  <1> USE DEF ActivityInv, BeginBlock
  <1>1. stream' \in StreamState /\ StreamShape'
    BY TurnBoundsAssumption, StreamFields
       DEF ActivityTypeOK, StreamState, StreamShape, BlockKinds
  <1>2. /\ activity \in ActivityState /\ Len(activity.preview) <= Cap
        /\ activity.turns <= MaxTurns /\ shown \in Shown
        /\ activity.thinking = shown.thinking
        /\ ~shown.mixed => activity.preview = FirstChars(shown.input)
    BY DEF ActivityTypeOK, ShowsLastBlocks, FirstChars
  <1>3. <<>> \in Seq(Chars) /\ Len(<<>>) <= Cap /\ FirstChars(<<>>) = <<>>
    BY CapAssumption DEF FirstChars
  <1>4. /\ activity' \in ActivityState /\ Len(activity'.preview) <= Cap
        /\ activity'.turns = activity.turns
        /\ kind # "server_tool_use" => activity'.phase = PhaseOf(kind)
    BY <1>2, <1>3 DEF ContentBlockStart, ActivityState, BlockKinds, PhaseOf
  <1>5. shown' \in Shown
    BY <1>2, <1>3 DEF Shown
  <1>6. /\ activity'.thinking = shown'.thinking
        /\ ~shown'.mixed => activity'.preview = FirstChars(shown'.input)
    BY <1>2, <1>3 DEF ContentBlockStart, ActivityState, Shown, BlockKinds
  <1>7. PhaseTells'
    BY <1>4 DEF PhaseTells
  <1> QED
    BY <1>1, <1>2, <1>4, <1>5, <1>6, <1>7
       DEF Kept, ActivityTypeOK, ShowsLastBlocks, FirstChars

\* A delta moves neither the kind of the block nor its place in the turn.
LEMMA InBlockKeeps ==
    ASSUME NEW kind \in BlockKinds, ActivityInv, InBlock(kind)
    PROVE  /\ stream' \in StreamState /\ StreamShape'
           /\ stream'.at = "block" /\ stream'.last = kind
           /\ stream.at = "block" /\ stream.last = kind
  BY StreamFields, TurnBoundsAssumption
     DEF InBlock, ActivityInv, ActivityTypeOK, StreamState, StreamShape

LEMMA TextDeltaKeeps ==
    ASSUME NEW chunk \in Chunk
    PROVE  ActivityInv /\ TextDelta(chunk) => Kept
  <1> SUFFICES ASSUME ActivityInv, TextDelta(chunk) PROVE Kept
    OBVIOUS
  <1>1. /\ stream' \in StreamState /\ StreamShape'
        /\ stream'.at = "block" /\ stream'.last = "text"
    BY InBlockKeeps DEF TextDelta, BlockKinds
  <1>2. /\ activity \in ActivityState /\ Len(activity.preview) <= Cap
        /\ activity.turns <= MaxTurns /\ shown \in Shown /\ ShowsLastBlocks
    BY DEF ActivityInv, ActivityTypeOK
  <1>3. Len(chunk) \in Nat
    BY ChunkTypes
  <1>4. /\ activity' = [activity EXCEPT !.phase = "writing",
                                        !.textChars = @ + Len(chunk)]
        /\ shown' = shown
    BY DEF TextDelta, ContentBlockDelta
  <1>5. ActivityTypeOK'
    <2>1. activity.textChars + Len(chunk) \in Nat
      BY <1>2, <1>3 DEF ActivityState
    <2>2. /\ activity' \in ActivityState /\ activity'.turns = activity.turns
          /\ activity'.preview = activity.preview
      BY <1>2, <1>4, <2>1 DEF ActivityState
    <2>3. shown' \in Shown
      BY <1>2, <1>4
    <2> QED
      BY <1>1, <1>2, <2>2, <2>3 DEF ActivityTypeOK
  <1>6. PhaseTells'
    BY <1>1, <1>2, <1>4 DEF PhaseTells, PhaseOf, ActivityState
  <1>7. ShowsLastBlocks'
    BY <1>2, <1>4 DEF ShowsLastBlocks, ActivityState, Shown
  <1> QED
    BY <1>1, <1>5, <1>6, <1>7 DEF Kept

LEMMA ThinkingDeltaKeeps ==
    ASSUME NEW chunk \in Chunk
    PROVE  ActivityInv /\ ThinkingDelta(chunk) => Kept
  <1> SUFFICES ASSUME ActivityInv, ThinkingDelta(chunk) PROVE Kept
    OBVIOUS
  <1>1. /\ stream' \in StreamState /\ StreamShape'
        /\ stream'.at = "block" /\ stream'.last = "thinking"
    BY InBlockKeeps DEF ThinkingDelta, BlockKinds
  <1>2. /\ activity \in ActivityState /\ Len(activity.preview) <= Cap
        /\ activity.turns <= MaxTurns /\ shown \in Shown /\ ShowsLastBlocks
    BY DEF ActivityInv, ActivityTypeOK
  <1>3. /\ activity.thinking \o chunk \in Seq(Chars)
        /\ shown.thinking \o chunk \in Seq(Chars)
    BY <1>2, ChunkTypes, ConcatProperties DEF ActivityState, Shown
  <1>4. /\ activity' = [activity EXCEPT !.phase = "thinking",
                                        !.thinking = @ \o chunk]
        /\ shown' = [shown EXCEPT !.thinking = @ \o chunk]
    BY DEF ThinkingDelta, ContentBlockDelta
  <1>5. ActivityTypeOK'
    BY <1>1, <1>2, <1>3, <1>4 DEF ActivityTypeOK, ActivityState, Shown
  <1>6. PhaseTells'
    BY <1>1, <1>2, <1>4 DEF PhaseTells, PhaseOf, ActivityState
  <1>7. ShowsLastBlocks'
    BY <1>2, <1>4 DEF ShowsLastBlocks, ActivityState, Shown
  <1> QED
    BY <1>1, <1>5, <1>6, <1>7 DEF Kept

LEMMA InputDeltaKeeps ==
    ASSUME NEW chunk \in Chunk
    PROVE  ActivityInv /\ InputDelta(chunk) => Kept
  <1> SUFFICES ASSUME ActivityInv, InputDelta(chunk) PROVE Kept
    OBVIOUS
  <1>1. /\ stream' \in StreamState /\ StreamShape'
        /\ stream'.at = "block" /\ stream'.last = stream.last
        /\ stream.at = "block" /\ stream.last \in {"tool_use", "server_tool_use"}
    BY InBlockKeeps DEF InputDelta, BlockKinds
  <1>2. /\ activity \in ActivityState /\ Len(activity.preview) <= Cap
        /\ activity.turns <= MaxTurns /\ shown \in Shown /\ PhaseTells
        /\ activity.thinking = shown.thinking
        /\ ~shown.mixed => activity.preview = FirstChars(shown.input)
    BY DEF ActivityInv, ActivityTypeOK, ShowsLastBlocks, FirstChars
  <1>3. /\ shown.input \o chunk \in Seq(Chars)
        /\ FirstOf(activity.preview, chunk) \in Seq(Chars)
        /\ Len(FirstOf(activity.preview, chunk)) <= Cap
    BY <1>2, ChunkTypes, ConcatProperties, FirstOfTypes DEF ActivityState, Shown
  <1>4. /\ activity' = [activity EXCEPT !.preview = FirstOf(@, chunk)]
        /\ shown' = IF stream.last = "tool_use"
                    THEN [shown EXCEPT !.input = @ \o chunk]
                    ELSE [shown EXCEPT !.mixed = TRUE]
    BY DEF InputDelta, ContentBlockDelta
  <1>5. ActivityTypeOK'
    <2>1. shown' \in Shown
      BY <1>2, <1>3, <1>4 DEF Shown
    <2>2. /\ activity' \in ActivityState /\ Len(activity'.preview) <= Cap
          /\ activity'.turns <= MaxTurns
      BY <1>2, <1>3, <1>4 DEF ActivityState
    <2> QED
      BY <1>1, <2>1, <2>2 DEF ActivityTypeOK
  <1>6. PhaseTells'
    BY <1>1, <1>2, <1>4 DEF PhaseTells, PhaseOf, ActivityState
  <1>7. ShowsLastBlocks'
    <2>1. activity'.thinking = shown'.thinking
      BY <1>2, <1>4 DEF ActivityState, Shown
    <2>2. ASSUME ~shown'.mixed PROVE activity'.preview = FirstChars(shown'.input)
      <3>1. /\ shown' = [shown EXCEPT !.input = @ \o chunk]
            /\ ~shown.mixed
        BY <2>2, <1>2, <1>4 DEF Shown
      <3>2. /\ activity'.preview = FirstOf(FirstChars(shown.input), chunk)
            /\ shown'.input = shown.input \o chunk
        BY <3>1, <1>2, <1>4 DEF ActivityState, Shown
      <3>3. shown.input \in Seq(Chars) /\ chunk \in Seq(Chars)
        BY <1>2, ChunkTypes DEF Shown
      <3> QED
        BY <3>2, <3>3, CutOnce
    <2> QED
      BY <2>1, <2>2 DEF ShowsLastBlocks, FirstChars
  <1> QED
    BY <1>1, <1>5, <1>6, <1>7 DEF Kept

LEMMA EndBlockKeeps == ActivityInv /\ EndBlock => Kept
  <1> SUFFICES ASSUME ActivityInv, EndBlock PROVE Kept
    OBVIOUS
  <1> USE DEF ActivityInv, EndBlock, ContentBlockStop
  <1>1. ActivityTypeOK' /\ StreamShape'
    BY DEF ActivityTypeOK, ActivityState, StreamState, StreamShape
  <1>2. PhaseTells'
    BY DEF PhaseTells, PhaseOf, BlockKinds, ActivityTypeOK, ActivityState,
           StreamState, StreamShape
  <1>3. ShowsLastBlocks'
    BY DEF ShowsLastBlocks, ActivityTypeOK, ActivityState
  <1> QED
    BY <1>1, <1>2, <1>3 DEF Kept

LEMMA EndTurnKeeps ==
    ASSUME NEW reason \in StopReasons
    PROVE  ActivityInv /\ EndTurn(reason) => Kept
  <1> SUFFICES ASSUME ActivityInv, EndTurn(reason) PROVE Kept
    OBVIOUS
  <1> USE DEF ActivityInv, EndTurn, MessageDelta, StopReasons
  <1>1. ActivityTypeOK' /\ StreamShape'
    BY DEF ActivityTypeOK, ActivityState, StreamState, StreamShape
  <1>2. PhaseTells'
    BY DEF PhaseTells, PhaseOf, BlockKinds, ActivityTypeOK, ActivityState, StreamState
  <1>3. ShowsLastBlocks'
    BY DEF ShowsLastBlocks, ActivityTypeOK, ActivityState
  <1> QED
    BY <1>1, <1>2, <1>3 DEF Kept

LEMMA InterruptKeeps == ActivityInv /\ Interrupt => Kept
  <1> SUFFICES ASSUME ActivityInv, Interrupt PROVE Kept
    OBVIOUS
  <1> USE DEF ActivityInv, Interrupt
  <1>1. ActivityTypeOK' /\ StreamShape'
    BY DEF ActivityTypeOK, StreamState, StreamShape
  <1>2. PhaseTells' /\ ShowsLastBlocks'
    BY DEF PhaseTells, BlockKinds, ShowsLastBlocks, ActivityTypeOK, StreamState
  <1> QED
    BY <1>1, <1>2 DEF Kept

LEMMA ActivityStep == ActivityInv /\ [ActivityNext]_activityVars => ActivityInv'
  <1> SUFFICES ASSUME ActivityInv, [ActivityNext]_activityVars PROVE ActivityInv'
    OBVIOUS
  <1>1. ASSUME ActivityNext PROVE Kept
    BY <1>1, BeginTurnKeeps, BeginBlockKeeps, TextDeltaKeeps, ThinkingDeltaKeeps,
       InputDeltaKeeps, EndBlockKeeps, EndTurnKeeps, InterruptKeeps
       DEF ActivityNext
  <1>2. CASE UNCHANGED activityVars
    BY <1>2 DEF activityVars, ActivityInv, ActivityTypeOK, StreamShape, PhaseTells,
                ShowsLastBlocks
  <1> QED
    BY <1>1, <1>2 DEF Kept, ActivityInv

-----------------------------------------------------------------------------
(* The theorems.                                                           *)

\* events.py: whatever the CLI streams and wherever it is interrupted, the
\* invariant that the three properties of the run make together holds.
THEOREM ActivitySafe == ActivitySpec => []ActivityInv
  BY InitActivity, ActivityStep, PTL DEF ActivitySpec

\* events.py, ActivityState: its fields keep their types and a preview never
\* exceeds its cap, for every cap and every length of delta.
THEOREM ActivityTypeCorrect == ActivitySpec => []ActivityTypeOK
  BY ActivitySafe, PTL DEF ActivityInv

\* events.py, update_activity: the phase names the open block, waits after a
\* tool and is idle after end_turn, also after turns that were interrupted.
THEOREM PhaseFollows == ActivitySpec => []PhaseTells
  BY ActivitySafe, PTL DEF ActivityInv

\* events.py, update_activity: the thought and the preview are those of the last
\* block of their kind, however the CLI cut the block into deltas.
THEOREM LastBlocksShown == ActivitySpec => []ShowsLastBlocks
  BY ActivitySafe, PTL DEF ActivityInv
=============================================================================
