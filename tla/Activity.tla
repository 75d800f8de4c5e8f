-------------------------------- MODULE Activity --------------------------------
(***************************************************************************)
(* py/claudewire/events.py: ActivityState and update_activity, driven by   *)
(* the stream events of the CLI.                                           *)
(*                                                                         *)
(* The CLI's turns are message_start, content blocks one after the other   *)
(* and message_delta; an interrupt may end a turn anywhere.                *)
(***************************************************************************)
EXTENDS Integers, Sequences, SequencesExt

CONSTANTS
    Chars,           \* what text, thoughts and tool inputs are made of
    ToolNames,
    NoTool,          \* no tool name
    Cap,             \* the length of a preview: 200
    MaxChunk,        \* bound: characters in a delta
    MaxDeltas,       \* bound: deltas in a block
    MaxBlocks,       \* bound: blocks in a turn
    MaxTurns         \* bound: turns

ASSUME CapAssumption == Cap \in Nat
ASSUME TurnBoundsAssumption ==
    {MaxChunk, MaxDeltas, MaxBlocks, MaxTurns} \subseteq Nat
ASSUME NoToolAssumption == NoTool \notin ToolNames

VARIABLES
    activity,        \* the ActivityState
    stream,          \* where the CLI is in its turn
    shown            \* history: what the CLI sent of each kind

activityVars == <<activity, stream, shown>>

BlockKinds == {"thinking", "text", "tool_use", "server_tool_use"}
StopReasons == {"end_turn", "tool_use", "max_tokens"}
Chunk == BoundedSeq(Chars, MaxChunk)

ActivityState ==
    [phase : {"idle", "thinking", "writing", "tool_use", "waiting"},
     toolName : ToolNames \union {NoTool},
     preview : Seq(Chars), thinking : Seq(Chars),
     turns : Nat, textChars : Nat]

-----------------------------------------------------------------------------
(* update_activity, one operator per event type.                           *)

\* Mutant: a thought is added to those before it.
ContentBlockStartOnTop(a, kind, tool) ==
    CASE kind = "tool_use" -> [a EXCEPT !.phase = "tool_use",
                                        !.toolName = tool, !.preview = <<>>]
      [] kind = "thinking" -> [a EXCEPT !.phase = "thinking",
                                        !.toolName = NoTool, !.preview = <<>>]
      [] kind = "text"     -> [a EXCEPT !.phase = "writing",
                                        !.toolName = NoTool, !.preview = <<>>,
                                        !.textChars = 0]
      [] OTHER             -> a

\* Other kinds of block (a server's tool) change nothing.
ContentBlockStart(a, kind, tool) ==
    CASE kind = "tool_use" -> [a EXCEPT !.phase = "tool_use",
                                        !.toolName = tool, !.preview = <<>>]
      [] kind = "thinking" -> [a EXCEPT !.phase = "thinking",
                                        !.toolName = NoTool, !.preview = <<>>,
                                        !.thinking = <<>>]
      [] kind = "text"     -> [a EXCEPT !.phase = "writing",
                                        !.toolName = NoTool, !.preview = <<>>,
                                        !.textChars = 0]
      [] OTHER             -> a

\* Mutant: the preview is not cut.
FirstOfUncut(preview, chunk) ==
    IF Len(preview) < Cap THEN preview \o chunk ELSE preview

FirstOf(preview, chunk) ==
    IF Len(preview) < Cap
    THEN SubSeq(preview \o chunk, 1,
                IF Len(preview \o chunk) < Cap THEN Len(preview \o chunk)
                                               ELSE Cap)
    ELSE preview

ContentBlockDelta(a, type, chunk) ==
    CASE type = "thinking_delta" ->
           [a EXCEPT !.phase = "thinking", !.thinking = @ \o chunk]
      [] type = "text_delta" ->
           [a EXCEPT !.phase = "writing", !.textChars = @ + Len(chunk)]
      [] type = "input_json_delta" ->
           [a EXCEPT !.preview = FirstOf(@, chunk)]
      [] OTHER -> a

\* Mutant: a block's end always means waiting.
ContentBlockStopWaits(a) == [a EXCEPT !.phase = "waiting"]

ContentBlockStop(a) ==
    IF a.phase = "tool_use" THEN [a EXCEPT !.phase = "waiting"] ELSE a

MessageStart(a) == [a EXCEPT !.turns = @ + 1]

MessageDelta(a, reason) ==
    CASE reason = "end_turn" -> [a EXCEPT !.phase = "idle",
                                          !.toolName = NoTool]
      [] reason = "tool_use" -> [a EXCEPT !.phase = "waiting"]
      [] OTHER -> a

-----------------------------------------------------------------------------
(* The CLI (external), each event followed by update_activity.             *)

\* at: between turns, in a turn between blocks, or in a block.
\* last: how the last turn ended, or the kind of the turn's last block.
StreamState ==
    [at : {"between", "turn", "block"},
     last : BlockKinds \union StopReasons \union {"none", "interrupt"},
     blocks : 0..MaxBlocks, deltas : 0..MaxDeltas]

\* The last thought and, since the preview was last cleared, the input of the
\* host's tool, both in full.  mixed: since then a server's tool has sent input
\* as well.
Shown == [thinking : Seq(Chars), input : Seq(Chars), mixed : BOOLEAN]

ActivityInit ==
    /\ activity = [phase |-> "idle", toolName |-> NoTool, preview |-> <<>>,
                   thinking |-> <<>>, turns |-> 0, textChars |-> 0]
    /\ stream = [at |-> "between", last |-> "none", blocks |-> 0,
                 deltas |-> 0]
    /\ shown = [thinking |-> <<>>, input |-> <<>>, mixed |-> FALSE]

BeginTurn ==
    /\ stream.at = "between" /\ activity.turns < MaxTurns
    /\ stream' = [at |-> "turn", last |-> "none", blocks |-> 0, deltas |-> 0]
    /\ activity' = MessageStart(activity)
    /\ UNCHANGED shown

BeginBlock(kind, tool) ==
    /\ stream.at = "turn" /\ stream.blocks < MaxBlocks
    /\ stream' = [at |-> "block", last |-> kind, blocks |-> stream.blocks + 1,
                  deltas |-> 0]
    /\ activity' = ContentBlockStart(activity, kind, tool)
    /\ shown' =
         CASE kind = "server_tool_use" -> shown
           [] kind = "thinking" ->
                [shown EXCEPT !.thinking = <<>>, !.input = <<>>,
                              !.mixed = FALSE]
           [] OTHER -> [shown EXCEPT !.input = <<>>, !.mixed = FALSE]

InBlock(kind) ==
    /\ stream.at = "block" /\ stream.last = kind
    /\ stream.deltas < MaxDeltas
    /\ stream' = [stream EXCEPT !.deltas = @ + 1]

TextDelta(chunk) ==
    /\ InBlock("text")
    /\ activity' = ContentBlockDelta(activity, "text_delta", chunk)
    /\ UNCHANGED shown

ThinkingDelta(chunk) ==
    /\ InBlock("thinking")
    /\ activity' = ContentBlockDelta(activity, "thinking_delta", chunk)
    /\ shown' = [shown EXCEPT !.thinking = @ \o chunk]

InputDelta(chunk) ==
    /\ InBlock("tool_use") \/ InBlock("server_tool_use")
    /\ activity' = ContentBlockDelta(activity, "input_json_delta", chunk)
    /\ shown' = IF stream.last = "tool_use"
                THEN [shown EXCEPT !.input = @ \o chunk]
                ELSE [shown EXCEPT !.mixed = TRUE]

EndBlock ==
    /\ stream.at = "block"
    /\ stream' = [stream EXCEPT !.at = "turn"]
    /\ activity' = ContentBlockStop(activity)
    /\ UNCHANGED shown

EndTurn(reason) ==
    /\ stream.at = "turn"
    /\ stream' = [stream EXCEPT !.at = "between", !.last = reason]
    /\ activity' = MessageDelta(activity, reason)
    /\ UNCHANGED shown

\* The CLI drops the turn; no stream event says so.
Interrupt ==
    /\ stream.at # "between"
    /\ stream' = [stream EXCEPT !.at = "between", !.last = "interrupt"]
    /\ UNCHANGED <<activity, shown>>

ActivityNext ==
    \/ BeginTurn
    \/ \E kind \in BlockKinds, tool \in ToolNames : BeginBlock(kind, tool)
    \/ \E chunk \in Chunk :
         TextDelta(chunk) \/ ThinkingDelta(chunk) \/ InputDelta(chunk)
    \/ EndBlock
    \/ \E reason \in StopReasons : EndTurn(reason)
    \/ Interrupt

ActivitySpec == ActivityInit /\ [][ActivityNext]_activityVars

-----------------------------------------------------------------------------
(* Properties.                                                             *)

\* The type invariant; a preview has at most Cap characters.
ActivityTypeOK ==
    /\ activity \in ActivityState
    /\ Len(activity.preview) <= Cap
    /\ activity.turns <= MaxTurns
    /\ stream \in StreamState
    /\ shown \in Shown

\* The phase follows the CLI: it names the open block, waits after a tool's
\* block and between a tool's turn and the next, and is idle after end_turn,
\* whatever an interrupted turn before left behind.
PhaseOf(kind) == IF kind = "text" THEN "writing" ELSE kind
PhaseTells ==
    LET own == stream.last \in BlockKinds \ {"server_tool_use"} IN
    /\ stream.at = "block" /\ own => activity.phase = PhaseOf(stream.last)
    /\ stream.at = "turn" /\ own =>
         activity.phase = IF stream.last = "tool_use" THEN "waiting"
                          ELSE PhaseOf(stream.last)
    /\ stream.at = "between" /\ stream.last = "tool_use"
         => activity.phase = "waiting"
    /\ stream.at = "between" /\ stream.last = "end_turn"
         => activity.phase = "idle" /\ activity.toolName = NoTool

\* What is shown is what the CLI sent last, however it was cut into deltas and
\* whatever an interrupt cut off: all of a thought, and the first Cap characters
\* of a tool's input, unless a tool of a server has sent input after it.
FirstChars(text) == SubSeq(text, 1, IF Len(text) < Cap THEN Len(text) ELSE Cap)
ShowsLastBlocks ==
    /\ activity.thinking = shown.thinking
    /\ ~shown.mixed => activity.preview = FirstChars(shown.input)
=============================================================================
