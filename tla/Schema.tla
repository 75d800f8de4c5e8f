--------------------------------- MODULE Schema ---------------------------------
(***************************************************************************)
(* The two typed readings of the CLI's stream-json protocol: the serde     *)
(* types of schema.rs and the pydantic models of schema.py.  Each language *)
(* is a table from the names of its types to what they hold; Reads,        *)
(* Rewritten and Issues say what serde and pydantic do with a value of a   *)
(* type.  A behaviour takes one message PROTOCOL.md documents, damages it  *)
(* in at most MaxDamage places and gives it at most MaxNewKeys keys that   *)
(* no version of the protocol had.                                         *)
(***************************************************************************)
EXTENDS Naturals, Sequences, Functions, TLC

CONSTANTS MaxDamage, MaxNewKeys

ASSUME SchemaBounds == MaxDamage \in Nat /\ MaxNewKeys \in Nat

VARIABLES direction,   \* "none", "in" (CLI to host) or "out" (host to CLI)
          message,     \* the JSON value on the line
          damage,      \* how many of its values were dropped or replaced
          newKeys      \* how many keys were put into it

schemaVars == <<direction, message, damage, newKeys>>

-----------------------------------------------------------------------------
\* JSON values.  A number is whole: "negative", a "bit" (0 or 1) or "large",
\* and written with a point (7.0) or without.

NullValue == [is |-> "null"]
Flag == [is |-> "flag"]
Number(size, point) == [is |-> "number", size |-> size, point |-> point]
TextOf(word) == [is |-> "text", text |-> word]
ListOf(items) == [is |-> "list", items |-> items]
ObjectOf(members) == [is |-> "object", members |-> members]
NoMembers == ObjectOf([k \in {} |-> NullValue])

Keys(value) == IF value.is = "object" THEN DOMAIN value.members ELSE {}
At(value, key) ==
    IF key \in Keys(value) THEN value.members[key] ELSE NullValue
Without(value, keys) ==
    ObjectOf(Restrict(value.members, Keys(value) \ keys))
TagOf(value) == IF At(value, "type").is = "text"
                THEN value.members["type"].text ELSE "no tag"

-----------------------------------------------------------------------------
\* Types.  A member is required or not, may be null or not, is left out when
\* null or written, and has a value when it is absent.

Member(required, nullable, skipped, absent) ==
    [required |-> required, nullable |-> nullable, skipped |-> skipped,
     absent |-> absent]
Needed == Member(TRUE, FALSE, FALSE, NullValue)     \* T
Maybe  == Member(FALSE, TRUE, TRUE, NullValue)      \* Option<T>, skipped if None
Kept   == Member(FALSE, TRUE, FALSE, NullValue)     \* Option<T>, written as null
Defaults(value) == Member(FALSE, FALSE, FALSE, value)     \* #[serde(default)]

Of(keys, member, type) == [k \in keys |-> [rule |-> member, type |-> type]]
Nothing == Of({}, Needed, "any")

Struct(fields) == [kind |-> "struct", fields |-> fields, open |-> FALSE]
Branch(fields) == Struct(Of({"type"}, Needed, "text") @@ fields)
Open(fields) == [kind |-> "struct", fields |-> fields, open |-> TRUE]
Tagged(types) == [kind |-> "tagged", types |-> types, other |-> FALSE]
TaggedOrOther(types) == [kind |-> "tagged", types |-> types, other |-> TRUE]
Each(type) == [kind |-> "list", of |-> type]
TextOrEach(type) == [kind |-> "text or list", of |-> type]
TextMap == [kind |-> "map"]
Literal(texts) == [kind |-> "literal", texts |-> texts]

\* Types without parts, named like the values they take.
Fits(leaf, value) ==
    \/ leaf = "any"
    \/ leaf = value.is
    \/ /\ leaf \in {"int", "index"}
       /\ value.is = "number" /\ ~value.point
       /\ leaf = "index" => value.size # "negative"
Leaves == {"any", "text", "flag", "list", "object", "number", "int", "index"}

-----------------------------------------------------------------------------
\* schema.rs

\* Mutant: the required input is skipped when it is null.
RustToolUseSkippingNull ==
    "ToolUseBlock" :> Struct(
        Of({"id", "name"}, Needed, "text")
        @@ Of({"input"}, Member(TRUE, FALSE, TRUE, NullValue), "any")
        @@ Of({"caller"}, Maybe, "any"))

RustToolUse ==
    "ToolUseBlock" :> Struct(
        Of({"id", "name"}, Needed, "text") @@ Of({"input"}, Needed, "any")
        @@ Of({"caller"}, Maybe, "any"))

RustBlocks ==
    "ContentBlock" :> TaggedOrOther(
        [text |-> "TextBlock", tool_use |-> "ToolUseBlock",
         thinking |-> "ThinkingBlock",
         server_tool_use |-> "ServerToolUseBlock"])
    @@ "TextBlock" :> Struct(Of({"text"}, Needed, "text"))
    @@ RustToolUse
    @@ "ThinkingBlock" :>
        Struct(Of({"thinking", "signature"}, Needed, "text"))
    @@ "ServerToolUseBlock" :> Struct(
        Of({"id", "name"}, Needed, "text")
        @@ Of({"input"}, Defaults(NullValue), "any"))

RustDeltas ==
    "Delta" :> TaggedOrOther(
        [text_delta |-> "TextDelta", input_json_delta |-> "InputJsonDelta",
         thinking_delta |-> "ThinkingDelta",
         signature_delta |-> "SignatureDelta"])
    @@ "TextDelta" :> Struct(Of({"text"}, Needed, "text"))
    @@ "InputJsonDelta" :> Struct(Of({"partial_json"}, Needed, "text"))
    @@ "ThinkingDelta" :> Struct(Of({"thinking"}, Needed, "text"))
    @@ "SignatureDelta" :> Struct(Of({"signature"}, Needed, "text"))

TokenCounts == {"input_tokens", "output_tokens",
                "cache_creation_input_tokens", "cache_read_input_tokens"}

RustShared ==
    "Usage" :> Open(
        Of(TokenCounts, Maybe, "int")
        @@ Of({"cache_creation", "server_tool_use"}, Maybe, "any")
        @@ Of({"service_tier", "inference_geo", "speed"}, Maybe, "text")
        @@ Of({"iterations"}, Maybe, "list"))
    @@ "MessageDeltaDelta" :> Struct(
        Of({"stop_reason"}, Maybe, "StopReason")
        @@ Of({"stop_sequence"}, Maybe, "text"))
    @@ "StopReason" :> Literal({"end_turn", "tool_use", "max_tokens"})

RustEvents ==
    "MessageInner" :> Struct(
        Of({"model", "id", "role"}, Needed, "text")
        @@ Of({"content"}, Defaults(ListOf(<<>>)), "list")
        @@ Of({"stop_reason", "stop_sequence", "context_management",
               "container"}, Maybe, "any")
        @@ Of({"usage"}, Maybe, "Usage") @@ Of({"type"}, Kept, "text"))
    @@ "StreamEvent" :> Tagged(
        [message_start |-> "MessageStart", message_delta |-> "MessageDelta",
         message_stop |-> "MessageStop",
         content_block_start |-> "ContentBlockStart",
         content_block_delta |-> "ContentBlockDelta",
         content_block_stop |-> "ContentBlockStop"])
    @@ "MessageStart" :> Struct(Of({"message"}, Needed, "MessageInner"))
    @@ "MessageDelta" :> Struct(
        Of({"delta"}, Needed, "MessageDeltaDelta")
        @@ Of({"usage"}, Maybe, "Usage")
        @@ Of({"context_management"}, Maybe, "any"))
    @@ "MessageStop" :> Struct(Nothing)
    @@ "ContentBlockStart" :> Struct(
        Of({"index"}, Needed, "index")
        @@ Of({"content_block"}, Needed, "ContentBlock"))
    @@ "ContentBlockDelta" :> Struct(
        Of({"index"}, Needed, "index") @@ Of({"delta"}, Needed, "Delta"))
    @@ "ContentBlockStop" :> Struct(Of({"index"}, Needed, "index"))

RustUserContent ==
    "UserContentBlock" :> Tagged(
        [text |-> "TextBlock", tool_use |-> "ToolUseBlock",
         tool_result |-> "ToolResultBlock"])
    @@ "ToolResultBlock" :> Open(
        Of({"tool_use_id"}, Needed, "text") @@ Of({"content"}, Maybe, "any")
        @@ Of({"is_error"}, Maybe, "flag"))
    @@ "UserMessageInner" :> Struct(
        Of({"role"}, Needed, "text")
        @@ Of({"content"}, Needed, "UserContent"))
    @@ "UserContent" :> TextOrEach("UserContentBlock")

RustAssistant ==
    "AssistantMessageInner" :> Struct(
        Of({"model", "id", "type", "role"}, Needed, "text")
        @@ Of({"content"}, Needed, "ContentBlocks")
        @@ Of({"stop_reason", "stop_sequence", "context_management",
               "container"}, Maybe, "any")
        @@ Of({"usage"}, Maybe, "Usage"))
    @@ "ContentBlocks" :> Each("ContentBlock")

\* Mutant: a control request without the catch-all.
RustControlClosed ==
    "ControlRequestInner" :> Struct(Of({"subtype"}, Needed, "text"))
    @@ "ControlResponseInner" :> Open(
        Of({"subtype", "request_id"}, Needed, "text")
        @@ Of({"response"}, Maybe, "any") @@ Of({"error"}, Maybe, "text"))

RustControl ==
    "ControlRequestInner" :> Open(Of({"subtype"}, Needed, "text"))
    @@ "ControlResponseInner" :> Open(
        Of({"subtype", "request_id"}, Needed, "text")
        @@ Of({"response"}, Maybe, "any") @@ Of({"error"}, Maybe, "text"))

RustRateLimit ==
    "RateLimitInfo" :> Open(
        Of({"status"}, Needed, "text")
        @@ Of({"resetsAt", "utilization", "surpassedThreshold"}, Maybe,
              "number")
        @@ Of({"rateLimitType", "overageStatus", "overageDisabledReason"},
              Maybe, "text")
        @@ Of({"isUsingOverage"}, Maybe, "flag"))

RustInbound ==
    "InboundMsg" :> Tagged(
        [stream_event |-> "StreamEventMsg", assistant |-> "AssistantMsg",
         user |-> "UserMsg", system |-> "SystemMsg", result |-> "ResultMsg",
         control_request |-> "ControlRequestMsg",
         control_response |-> "ControlResponseMsg",
         rate_limit_event |-> "RateLimitEventMsg",
         tool_progress |-> "ToolProgress",
         tool_use_summary |-> "ToolUseSummary", keep_alive |-> "KeepAlive",
         auth_status |-> "AuthStatus",
         prompt_suggestion |-> "PromptSuggestion",
         control_cancel_request |-> "ControlCancelRequest"])
    @@ "StreamEventMsg" :> Struct(
        Of({"uuid", "session_id"}, Needed, "text")
        @@ Of({"parent_tool_use_id"}, Maybe, "text")
        @@ Of({"event"}, Needed, "StreamEvent"))
    @@ "AssistantMsg" :> Struct(
        Of({"message"}, Needed, "AssistantMessageInner")
        @@ Of({"session_id", "uuid"}, Needed, "text")
        @@ Of({"parent_tool_use_id", "error"}, Maybe, "text"))
    @@ "UserMsg" :> Open(
        Of({"message"}, Maybe, "UserMessageInner")
        @@ Of({"content", "tool_use_result"}, Maybe, "any")
        @@ Of({"session_id", "parent_tool_use_id", "uuid"}, Maybe, "text"))
    @@ "SystemMsg" :> Open(Of({"subtype"}, Needed, "text"))
    @@ "ResultMsg" :> Open(
        Of({"subtype", "session_id", "uuid"}, Needed, "text")
        @@ Of({"is_error"}, Needed, "flag")
        @@ Of({"duration_ms", "duration_api_ms", "num_turns"}, Needed, "int")
        @@ Of({"result", "fast_mode_state"}, Maybe, "text")
        @@ Of({"stop_reason", "modelUsage", "structured_output"}, Maybe, "any")
        @@ Of({"total_cost_usd"}, Maybe, "number")
        @@ Of({"usage"}, Maybe, "Usage")
        @@ Of({"permission_denials"}, Maybe, "list"))
    @@ "ControlRequestMsg" :> Struct(
        Of({"request_id"}, Needed, "text")
        @@ Of({"request"}, Needed, "ControlRequestInner"))
    @@ "ControlResponseMsg" :>
        Struct(Of({"response"}, Needed, "ControlResponseInner"))
    @@ "RateLimitEventMsg" :> Struct(
        Of({"rate_limit_info"}, Needed, "RateLimitInfo")
        @@ Of({"uuid", "session_id"}, Needed, "text"))
    @@ "ToolProgress" :> Open(
        Of({"tool_use_id"}, Needed, "text") @@ Of({"tool_name"}, Maybe, "text")
        @@ Of({"elapsed_time_seconds"}, Maybe, "number"))
    @@ "ToolUseSummary" :> Open(Of({"summary"}, Maybe, "text"))
    @@ "KeepAlive" :> Struct(Nothing)
    @@ "AuthStatus" :> Open(Nothing)
    @@ "PromptSuggestion" :> Open(Of({"suggestion"}, Maybe, "text"))
    @@ "ControlCancelRequest" :> Open(Nothing)

RustOutbound ==
    "OutboundMsg" :> Tagged(
        [user |-> "UserOutMsg", control_request |-> "ControlRequestMsg",
         control_response |-> "ControlResponseMsg",
         update_environment_variables |-> "UpdateEnvironmentVariables"])
    @@ "UserOutMsg" :> Struct(
        Of({"content"}, Maybe, "any")
        @@ Of({"session_id", "parent_tool_use_id"}, Maybe, "text")
        @@ Of({"message"}, Maybe, "UserMessageInner"))
    @@ "UpdateEnvironmentVariables" :>
        Struct(Of({"variables"}, Needed, "Variables"))
    @@ "Variables" :> TextMap

RustTypes == RustBlocks @@ RustDeltas @@ RustShared @@ RustEvents
             @@ RustUserContent @@ RustAssistant @@ RustControl
             @@ RustRateLimit @@ RustInbound @@ RustOutbound

\* Mutant: the event without fields is forgotten.
BareStreamTypesButStop ==
    {"message_start", "message_delta", "content_block_start",
     "content_block_delta", "content_block_stop"}

BareStreamTypes == {"message_start", "message_delta", "message_stop",
                    "content_block_start", "content_block_delta",
                    "content_block_stop"}

-----------------------------------------------------------------------------
\* schema.py.  A member with a default may be null: all of them are "| None"
\* or Any.  _Strict is Struct, or Branch where it has the type of a union
\* (whose discriminator has compared it); _Permissive is Open.

PyBlocks ==
    "ContentBlock" :> Tagged(
        [text |-> "TextBlock", tool_use |-> "ToolUseBlock",
         thinking |-> "ThinkingBlock"])
    @@ "TextBlock" :> Branch(Of({"text"}, Needed, "text"))
    @@ "ToolUseBlock" :> Branch(
        Of({"id", "name"}, Needed, "text") @@ Of({"input"}, Needed, "object")
        @@ Of({"caller"}, Maybe, "object"))
    @@ "ThinkingBlock" :>
        Branch(Of({"thinking", "signature"}, Needed, "text"))

PyDeltas ==
    "Delta" :> Tagged(
        [text_delta |-> "TextDelta", input_json_delta |-> "InputJsonDelta",
         thinking_delta |-> "ThinkingDelta",
         signature_delta |-> "SignatureDelta"])
    @@ "TextDelta" :> Branch(Of({"text"}, Needed, "text"))
    @@ "InputJsonDelta" :> Branch(Of({"partial_json"}, Needed, "text"))
    @@ "ThinkingDelta" :> Branch(Of({"thinking"}, Needed, "text"))
    @@ "SignatureDelta" :> Branch(Of({"signature"}, Needed, "text"))

PyShared ==
    "Usage" :> Open(
        Of(TokenCounts, Maybe, "int")
        @@ Of({"cache_creation", "server_tool_use"}, Maybe, "object")
        @@ Of({"service_tier", "inference_geo", "speed"}, Maybe, "text")
        @@ Of({"iterations"}, Maybe, "list"))
    @@ "ContextManagement" :> Struct(Of({"applied_edits"}, Maybe, "list"))
    @@ "MessageDeltaDelta" :> Struct(
        Of({"stop_reason"}, Maybe, "StopReason")
        @@ Of({"stop_sequence"}, Maybe, "text"))
    @@ "StopReason" :> Literal({"end_turn", "tool_use", "max_tokens"})

PyEvents ==
    "MessageInner" :> Struct(
        Of({"model", "id"}, Needed, "text")
        @@ Of({"type"}, Needed, "message") @@ Of({"role"}, Needed, "assistant")
        @@ Of({"content"}, Needed, "list")
        @@ Of({"stop_reason", "stop_sequence", "context_management",
               "container"}, Maybe, "any")
        @@ Of({"usage"}, Maybe, "Usage"))
    @@ "message" :> Literal({"message"})
    @@ "assistant" :> Literal({"assistant"})
    @@ "StreamEvent" :> Tagged(
        [message_start |-> "MessageStartEvent",
         message_delta |-> "MessageDeltaEvent",
         message_stop |-> "MessageStopEvent",
         content_block_start |-> "ContentBlockStartEvent",
         content_block_delta |-> "ContentBlockDeltaEvent",
         content_block_stop |-> "ContentBlockStopEvent"])
    @@ "MessageStartEvent" :> Branch(Of({"message"}, Needed, "MessageInner"))
    @@ "MessageDeltaEvent" :> Branch(
        Of({"delta"}, Needed, "MessageDeltaDelta")
        @@ Of({"usage"}, Maybe, "Usage")
        @@ Of({"context_management"}, Maybe, "ContextManagement"))
    @@ "MessageStopEvent" :> Branch(Nothing)
    @@ "ContentBlockStartEvent" :> Branch(
        Of({"index"}, Needed, "int")
        @@ Of({"content_block"}, Needed, "ContentBlock"))
    @@ "ContentBlockDeltaEvent" :> Branch(
        Of({"index"}, Needed, "int") @@ Of({"delta"}, Needed, "Delta"))
    @@ "ContentBlockStopEvent" :> Branch(Of({"index"}, Needed, "int"))

PyUserContent ==
    "UserContentBlock" :> Tagged(
        [text |-> "TextBlock", tool_use |-> "ToolUseBlock",
         tool_result |-> "ToolResultBlock"])
    @@ "ToolResultBlock" :> Open(
        Of({"tool_use_id"}, Needed, "text") @@ Of({"content"}, Maybe, "any")
        @@ Of({"is_error"}, Maybe, "flag"))
    @@ "UserMessageInner" :> Struct(
        Of({"role"}, Needed, "user") @@ Of({"content"}, Needed, "UserContent"))
    @@ "user" :> Literal({"user"})
    @@ "UserContent" :> TextOrEach("UserContentBlock")

PyAssistant ==
    "AssistantMessageInner" :> Struct(
        Of({"model", "id"}, Needed, "text")
        @@ Of({"type"}, Needed, "message") @@ Of({"role"}, Needed, "assistant")
        @@ Of({"content"}, Needed, "ContentBlocks")
        @@ Of({"stop_reason", "stop_sequence", "context_management",
               "container"}, Maybe, "any")
        @@ Of({"usage"}, Maybe, "Usage"))
    @@ "ContentBlocks" :> Each("ContentBlock")

PyControl ==
    "ControlRequestInner" :> Open(Of({"subtype"}, Needed, "text"))
    @@ "ControlResponseInner" :> Open(
        Of({"subtype"}, Needed, "outcome")
        @@ Of({"request_id"}, Needed, "text")
        @@ Of({"response"}, Maybe, "any") @@ Of({"error"}, Maybe, "text"))
    @@ "outcome" :> Literal({"success", "error"})

PyRateLimit ==
    "RateLimitInfoSchema" :> Open(
        Of({"status"}, Needed, "limit")
        @@ Of({"resetsAt", "utilization", "surpassedThreshold"}, Maybe,
              "number")
        @@ Of({"rateLimitType", "overageStatus", "overageDisabledReason"},
              Maybe, "text")
        @@ Of({"isUsingOverage"}, Maybe, "flag"))
    @@ "limit" :> Literal({"allowed", "allowed_warning", "rejected"})

PyInbound ==
    "InboundMsg" :> Tagged(
        [stream_event |-> "StreamEventMsg", assistant |-> "AssistantMsg",
         user |-> "UserMsg", system |-> "SystemMsg", result |-> "ResultMsg",
         control_request |-> "ControlRequestMsg",
         control_response |-> "ControlResponseMsg",
         rate_limit_event |-> "RateLimitEventMsg"])
    @@ "StreamEventMsg" :> Branch(
        Of({"uuid", "session_id"}, Needed, "text")
        @@ Of({"parent_tool_use_id"}, Maybe, "text")
        @@ Of({"event"}, Needed, "StreamEvent"))
    @@ "AssistantMsg" :> Branch(
        Of({"message"}, Needed, "AssistantMessageInner")
        @@ Of({"session_id", "uuid"}, Needed, "text")
        @@ Of({"parent_tool_use_id", "error"}, Maybe, "text"))
    @@ "UserMsg" :> Open(
        Of({"message"}, Maybe, "UserMessageInner")
        @@ Of({"content"}, Maybe, "UserContent")
        @@ Of({"session_id", "parent_tool_use_id", "uuid"}, Maybe, "text")
        @@ Of({"tool_use_result"}, Maybe, "any"))
    @@ "SystemMsg" :> Open(Of({"subtype"}, Needed, "text"))
    @@ "ResultMsg" :> Open(
        Of({"subtype"}, Needed, "outcome") @@ Of({"is_error"}, Needed, "flag")
        @@ Of({"duration_ms", "duration_api_ms", "num_turns"}, Needed, "int")
        @@ Of({"session_id", "uuid"}, Needed, "text")
        @@ Of({"result", "fast_mode_state"}, Maybe, "text")
        @@ Of({"stop_reason", "structured_output"}, Maybe, "any")
        @@ Of({"total_cost_usd"}, Maybe, "number")
        @@ Of({"usage"}, Maybe, "Usage") @@ Of({"modelUsage"}, Maybe, "object")
        @@ Of({"permission_denials"}, Maybe, "list"))
    @@ "ControlRequestMsg" :> Branch(
        Of({"request_id"}, Needed, "text")
        @@ Of({"request"}, Needed, "ControlRequestInner"))
    @@ "ControlResponseMsg" :>
        Branch(Of({"response"}, Needed, "ControlResponseInner"))
    @@ "RateLimitEventMsg" :> Branch(
        Of({"rate_limit_info"}, Needed, "RateLimitInfoSchema")
        @@ Of({"uuid", "session_id"}, Needed, "text"))

PyOutbound ==
    "OutboundMsg" :> Tagged(
        [user |-> "UserOutMsg", control_request |-> "ControlRequestMsg",
         control_response |-> "ControlResponseMsg"])
    @@ "UserOutMsg" :> Branch(
        Of({"content"}, Maybe, "UserContent")
        @@ Of({"session_id", "parent_tool_use_id"}, Maybe, "text")
        @@ Of({"message"}, Maybe, "UserMessageInner"))

PyTypes == PyBlocks @@ PyDeltas @@ PyShared @@ PyEvents @@ PyUserContent
           @@ PyAssistant @@ PyControl @@ PyRateLimit @@ PyInbound
           @@ PyOutbound

PyBareStreamTypes == {"message_start", "message_delta", "message_stop",
                      "content_block_start", "content_block_delta",
                      "content_block_stop"}

-----------------------------------------------------------------------------
\* serde: whether a value can be read as a type, and what the value read is
\* written as.

RECURSIVE Reads(_, _)
Reads(type, value) ==
    \/ type \in Leaves /\ Fits(type, value)
    \/ type \in DOMAIN RustTypes /\
       LET t == RustTypes[type] IN
       \/ /\ t.kind = "struct" /\ value.is = "object"
          /\ \A k \in DOMAIN t.fields :
                LET f == t.fields[k] IN
                IF k \in Keys(value)
                THEN \/ f.rule.nullable /\ At(value, k) = NullValue
                     \/ Reads(f.type, At(value, k))
                ELSE ~f.rule.required
       \/ /\ t.kind = "tagged" /\ TagOf(value) # "no tag"
          /\ \/ TagOf(value) \in DOMAIN t.types
                  /\ Reads(t.types[TagOf(value)], value)
             \/ TagOf(value) \notin DOMAIN t.types /\ t.other
       \/ t.kind = "text or list" /\ value.is = "text"
       \/ /\ t.kind \in {"list", "text or list"} /\ value.is = "list"
          /\ \A i \in DOMAIN value.items : Reads(t.of, value.items[i])
       \/ t.kind = "literal" /\ value.is = "text" /\ value.text \in t.texts
       \/ /\ t.kind = "map" /\ value.is = "object"
          /\ \A k \in Keys(value) : At(value, k).is = "text"

\* Only for a value that Reads as the type.  An f64 is written with a point,
\* a variant marked #[serde(other)] by its own name and without its content.
RECURSIVE Rewrite(_, _)
Rewrite(type, value) ==
    IF type \in Leaves
    THEN IF type = "number" THEN [value EXCEPT !.point = TRUE] ELSE value
    ELSE
    LET t == RustTypes[type]
        Given(k) == IF k \in Keys(value) THEN At(value, k)
                    ELSE t.fields[k].rule.absent
        Written == {k \in DOMAIN t.fields :
                      ~(t.fields[k].rule.skipped /\ Given(k) = NullValue)}
        Extra == IF t.open THEN Keys(value) \ DOMAIN t.fields ELSE {}
    IN CASE t.kind = "struct" ->
              ObjectOf([k \in Written |->
                          IF Given(k) = NullValue THEN NullValue
                          ELSE Rewrite(t.fields[k].type, Given(k))]
                       @@ Restrict(value.members, Extra))
         [] t.kind = "tagged" /\ TagOf(value) \in DOMAIN t.types ->
              ObjectOf("type" :> TextOf(TagOf(value))
                       @@ Rewrite(t.types[TagOf(value)], value).members)
         [] t.kind = "tagged" /\ TagOf(value) \notin DOMAIN t.types ->
              ObjectOf("type" :> TextOf("Unknown"))
         [] t.kind \in {"list", "text or list"} /\ value.is = "list" ->
              ListOf([i \in DOMAIN value.items |->
                        Rewrite(t.of, value.items[i])])
         [] OTHER -> value

-----------------------------------------------------------------------------
\* pydantic: the kinds of its errors, and "coerced" where it takes a value
\* that is not of the type: a flag or a text of digits for a number, 7.0 for an
\* int, 0, 1 and texts of them for a flag.

Digit == TextOf("1")
Coerced(leaf, value) ==
    CASE leaf = "number" -> value.is = "flag" \/ value = Digit
      [] leaf = "int"    -> value.is \in {"flag", "number"} \/ value = Digit
      [] leaf = "flag"   -> \/ value.is = "number" /\ value.size = "bit"
                            \/ value = Digit
      [] OTHER           -> FALSE

LeafIssues(leaf, value) ==
    IF Fits(leaf, value) THEN {}
    ELSE IF Coerced(leaf, value) THEN {"coerced"} ELSE {"invalid"}

RECURSIVE Issues(_, _)
Issues(type, value) ==
    IF type \in Leaves THEN LeafIssues(type, value)
    ELSE
    LET t == PyTypes[type]
        OfMember(k) ==
            IF k \in Keys(value)
            THEN IF t.fields[k].rule.nullable /\ At(value, k) = NullValue
                 THEN {} ELSE Issues(t.fields[k].type, At(value, k))
            ELSE IF t.fields[k].rule.required THEN {"invalid"} ELSE {}
        OfItems == UNION {Issues(t.of, value.items[i]) :
                            i \in DOMAIN value.items}
    IN CASE t.kind = "struct" /\ value.is = "object" ->
              UNION {OfMember(k) : k \in DOMAIN t.fields}
              \union (IF t.open \/ Keys(value) \subseteq DOMAIN t.fields
                      THEN {} ELSE {"extra_forbidden"})
         [] t.kind = "tagged" /\ TagOf(value) \in DOMAIN t.types ->
              Issues(t.types[TagOf(value)], value)
         [] t.kind = "list" /\ value.is = "list" -> OfItems
         [] t.kind = "text or list" /\ value.is = "text" -> {}
         \* A union in which no branch holds reports the errors of all.
         [] t.kind = "text or list" /\ value.is = "list" ->
              OfItems \union (IF OfItems \subseteq {"coerced"} THEN {}
                              ELSE {"invalid"})
         [] t.kind = "literal" /\ value.is = "text" ->
              IF value.text \in t.texts THEN {} ELSE {"invalid"}
         [] OTHER -> {"invalid"}

\* Mutant: an unknown key is an error like any other.
LevelOfAny(issue) == "error"

Level(issue) == IF issue = "extra_forbidden" THEN "warning" ELSE "error"

StripTraceContext(value) ==
    IF "_trace_context" \in Keys(value)
    THEN Without(value, {"_trace_context"}) ELSE value

\* validate_inbound_or_bare for a line from the CLI, validate_outbound for one
\* to it.  A message without a type is an error of either.
Verdict(m) ==
    Issues(IF direction = "out" THEN "OutboundMsg"
           ELSE IF TagOf(m) \in PyBareStreamTypes THEN "StreamEvent"
           ELSE "InboundMsg", StripTraceContext(m))
Ok(m) == \A issue \in Verdict(m) \ {"coerced"} : Level(issue) # "error"

\* The Rust type of a line: the bare events are told by is_bare_stream_type.
TypeOf(m) == IF direction = "out" THEN "OutboundMsg"
             ELSE IF TagOf(m) \in BareStreamTypes THEN "StreamEvent"
             ELSE "InboundMsg"

-----------------------------------------------------------------------------
\* The messages PROTOCOL.md documents.

Some == TextOf("some text")
Whole == Number("large", FALSE)
Fraction == Number("large", TRUE)
Typed(type, members) == ObjectOf("type" :> TextOf(type) @@ members)
NoFields == NoMembers.members
Ids == [uuid |-> Some, session_id |-> Some]

UsageObject == ObjectOf(
    [input_tokens |-> Whole, service_tier |-> Some,
     cache_creation |-> NoMembers])
Blocks ==
    {Typed("text", [text |-> Some]),
     Typed("tool_use", [id |-> Some, name |-> Some, input |-> NoMembers,
                        caller |-> NoMembers]),
     Typed("thinking", [thinking |-> Some, signature |-> Some]),
     Typed("server_tool_use",
           [id |-> Some, name |-> Some, input |-> NoMembers]),
     Typed("web_search_20250305", NoFields)}
Deltas ==
    {Typed("text_delta", [text |-> Some]),
     Typed("input_json_delta", [partial_json |-> Some]),
     Typed("thinking_delta", [thinking |-> Some]),
     Typed("signature_delta", [signature |-> Some]),
     Typed("citations_delta", [citations |-> ListOf(<<>>)])}
ApiMessage(content) ==
    [model |-> Some, id |-> Some, type |-> TextOf("message"),
     role |-> TextOf("assistant"), content |-> ListOf(content),
     stop_reason |-> NullValue, usage |-> UsageObject]
Events ==
    {Typed("message_start", [message |-> ObjectOf(ApiMessage(<<>>))]),
     Typed("message_delta",
           [delta |-> ObjectOf([stop_reason |-> TextOf("end_turn"),
                                stop_sequence |-> NullValue]),
            usage |-> UsageObject,
            context_management |->
                ObjectOf([applied_edits |-> ListOf(<<>>)])]),
     Typed("message_stop", NoFields),
     Typed("content_block_stop", [index |-> Whole])}
    \union {Typed("content_block_start",
                  [index |-> Whole, content_block |-> b]) : b \in Blocks}
    \union {Typed("content_block_delta", [index |-> Whole, delta |-> d]) :
              d \in Deltas}
UserBlocks ==
    {Typed("text", [text |-> Some]),
     Typed("tool_use", [id |-> Some, name |-> Some, input |-> NoMembers]),
     Typed("tool_result", [tool_use_id |-> Some, content |-> Some,
                           is_error |-> Flag])}
UserMessages ==
    {ObjectOf([role |-> TextOf("user"), content |-> c]) :
        c \in {Some} \union {ListOf(<<b>>) : b \in UserBlocks}}
Responses ==
    {ObjectOf([subtype |-> TextOf("success"), request_id |-> Some,
               response |-> ObjectOf([behavior |-> Some])]),
     ObjectOf([subtype |-> TextOf("error"), request_id |-> Some,
               error |-> Some])}
ResultOf(subtype) ==
    [subtype |-> TextOf(subtype), is_error |-> Flag, duration_ms |-> Whole,
     duration_api_ms |-> Whole, num_turns |-> Whole, stop_reason |-> NullValue,
     total_cost_usd |-> Fraction, usage |-> UsageObject,
     modelUsage |-> NoMembers, permission_denials |-> ListOf(<<>>),
     fast_mode_state |-> Some]

FromCli ==
    Events
    \union {Typed("stream_event", [parent_tool_use_id |-> NullValue,
                                   event |-> e] @@ Ids) : e \in Events}
    \union {Typed("assistant", [message |-> ObjectOf(ApiMessage(<<b>>)),
                                parent_tool_use_id |-> NullValue] @@ Ids) :
              b \in Blocks}
    \union {Typed("user", [message |-> u, parent_tool_use_id |-> NullValue,
                           tool_use_result |-> Some, isSynthetic |-> Flag]
                          @@ Ids) : u \in UserMessages}
    \union {Typed("control_response", [response |-> r]) : r \in Responses}
    \union
    {Typed("system", [subtype |-> Some, status |-> NullValue] @@ Ids),
     Typed("result", ResultOf("success") @@ [result |-> Some] @@ Ids),
     Typed("result", ResultOf("error_max_turns")
                     @@ [errors |-> ListOf(<<Some>>)] @@ Ids),
     Typed("control_request",
           [request_id |-> Some,
            request |-> ObjectOf([subtype |-> Some, tool_name |-> Some,
                                  input |-> NoMembers])]),
     Typed("rate_limit_event",
           [rate_limit_info |->
                ObjectOf([status |-> TextOf("allowed"), resetsAt |-> Whole,
                          rateLimitType |-> Some, utilization |-> Fraction,
                          isUsingOverage |-> Flag,
                          overageResetsAt |-> Whole])] @@ Ids),
     Typed("tool_progress",
           [tool_use_id |-> Some, tool_name |-> Some,
            parent_tool_use_id |-> NullValue,
            elapsed_time_seconds |-> Fraction] @@ Ids),
     Typed("tool_use_summary",
           [summary |-> Some, preceding_tool_use_ids |-> ListOf(<<Some>>)]
           @@ Ids),
     Typed("auth_status",
           [isAuthenticating |-> Flag, output |-> ListOf(<<Some>>)] @@ Ids),
     Typed("prompt_suggestion", [suggestion |-> Some] @@ Ids),
     Typed("streamlined_text", [text |-> Some]),
     Typed("streamlined_tool_use_summary", [tool_summary |-> Some]),
     Typed("keep_alive", NoFields),
     Typed("control_cancel_request", [request_id |-> Some])}

\* as_stream: a prompt on its way to the CLI.
AsStream(user) == Typed("user", [session_id |-> Some, message |-> user,
                                 parent_tool_use_id |-> NullValue])

FromHost ==
    {Typed("user", [content |-> Some, session_id |-> Some])}
    \union {AsStream(u) : u \in UserMessages}
    \union {Typed("control_response", [response |-> r]) : r \in Responses}
    \union
    {Typed("control_request",
           [request_id |-> Some,
            request |-> ObjectOf([subtype |-> TextOf("initialize"),
                                  hooks |-> NullValue])]),
     Typed("update_environment_variables",
           [variables |-> ObjectOf([KEY |-> Some])])}

-----------------------------------------------------------------------------
\* What may happen to a message on its way: a member dropped, a member or an
\* item replaced, an unknown key in any of its objects, the trace context in
\* the outermost.  A type tag is a text or null.

Fillers == {NullValue, Some, Digit, Whole, Number("negative", FALSE),
            Number("bit", FALSE), Fraction, Flag, ListOf(<<>>), NoMembers}
FillersOf(key) == IF key = "type" THEN {NullValue, Some} ELSE Fillers

WithKey(value, key) == ObjectOf(value.members @@ key :> Some)

\* Every value made of value by changing one place inside it: Here are the
\* changes of the place itself.
RECURSIVE Inside(_, _)
Inside(value, change) ==
    LET Here == IF value.is # "object" THEN {}
                ELSE IF change = "damage"
                THEN {Without(value, {k}) : k \in Keys(value)}
                     \union UNION {{ObjectOf([value.members EXCEPT ![k] = w]) :
                                      w \in FillersOf(k) \ {At(value, k)}} :
                                   k \in Keys(value)}
                ELSE {WithKey(value, "new_key")}
        Items == {ListOf([value.items EXCEPT ![i] = w]) :
                    i \in DOMAIN value.items, w \in Fillers}
    IN Here
       \union (IF value.is = "object"
               THEN UNION {{ObjectOf([value.members EXCEPT ![k] = w]) :
                              w \in Inside(At(value, k), change)} :
                           k \in Keys(value)}
               ELSE {})
       \union (IF value.is = "list"
               THEN (IF change = "damage" THEN Items ELSE {})
                    \union UNION {{ListOf([value.items EXCEPT ![i] = w]) :
                                     w \in Inside(value.items[i], change)} :
                                  i \in DOMAIN value.items}
               ELSE {})

SchemaInit ==
    direction = "none" /\ message = NullValue /\ damage = 0 /\ newKeys = 0

Send ==
    /\ direction = "none"
    /\ \/ direction' = "in" /\ message' \in FromCli
       \/ direction' = "out" /\ message' \in FromHost
    /\ UNCHANGED <<damage, newKeys>>

Damage ==
    /\ direction # "none" /\ newKeys = 0     \* the order does not matter
    /\ damage < MaxDamage
    /\ message' \in Inside(message, "damage")
    /\ damage' = damage + 1
    /\ UNCHANGED <<direction, newKeys>>

NewKey ==
    /\ direction # "none" /\ newKeys < MaxNewKeys
    /\ \/ message' \in Inside(message, "new key")
       \/ message' = WithKey(message, "_trace_context")
    /\ newKeys' = newKeys + 1
    /\ UNCHANGED <<direction, damage>>

SchemaNext == Send \/ Damage \/ NewKey

SchemaSpec == SchemaInit /\ [][SchemaNext]_schemaVars

-----------------------------------------------------------------------------
Taken == direction # "none" /\ Reads(TypeOf(message), message)
\* Python finds nothing wrong, and coerces nothing.
Accepted == direction # "none" /\ Verdict(message) = {}

\* What Rust read and wrote again it reads again, as the same value: no skipped
\* field, default or catch-all writes what the type itself would not take.
Stable ==
    Taken => LET written == Rewrite(TypeOf(message), message)
             IN /\ Reads(TypeOf(message), written)
                /\ Rewrite(TypeOf(message), written) = written

\* Without its null members and without points in its numbers.
RECURSIVE Plain(_)
Plain(value) ==
    CASE value.is = "object" ->
           ObjectOf([k \in {j \in Keys(value) : At(value, j) # NullValue} |->
                       Plain(At(value, k))])
      [] value.is = "list" ->
           ListOf([i \in DOMAIN value.items |-> Plain(value.items[i])])
      [] value.is = "number" -> [value EXCEPT !.point = FALSE]
      [] OTHER -> value

\* A message Python finds nothing wrong with loses nothing when Rust reads it
\* and writes it: the fields Python allows without naming them are in Rust's
\* catch-alls, and nulls are all that Rust drops.
Lossless ==
    Taken /\ Accepted =>
        Plain(StripTraceContext(Rewrite(TypeOf(message), message)))
            = Plain(StripTraceContext(message))

\* A block index below zero, which is an int and not a usize.
NegativeIndex ==
    \E event \in {message, At(message, "event")} :
        At(event, "index") = Number("negative", FALSE)

Streamlined == {"streamlined_text", "streamlined_tool_use_summary"}
Documented == direction # "none" /\ damage = 0 /\ newKeys = 0

\* Rust reads every message PROTOCOL.md documents but the streamlined ones, and
\* every one in which Python finds nothing wrong and every value of its type,
\* except one whose index is negative.  It refuses values Python coerces.
RustReadsThem ==
    \/ Documented /\ TagOf(message) \notin Streamlined
    \/ Accepted /\ ~NegativeIndex
    => Taken

\* A text or tool_use block in the content list of a user message.
UserBlocksOf(m) ==
    UNION {{c.items[i] : i \in {j \in DOMAIN c.items :
                                  TagOf(c.items[j]) \in {"text", "tool_use"}}} :
             c \in {d \in {At(m, "content"), At(At(m, "message"), "content")} :
                      d.is = "list"}}

\* A key the protocol did not have changes neither what Rust reads nor what
\* Python finds ok: at most a warning (schema.py:444), except in a text or
\* tool_use block of a user message, where the union makes it an error.
NewKeysTolerated ==
    [][newKeys' # newKeys =>
         /\ Taken' = Taken
         /\ \/ Ok(message)' = Ok(message)
            \/ TagOf(message) = "user"
               /\ \E b \in UserBlocksOf(message') :
                     "new_key" \in Keys(b)]_schemaVars
=============================================================================
