-------------------------- MODULE AnthropicFormat --------------------------
(***************************************************************************)
(* The translation to and from Anthropic's messages API                    *)
(* (internal/protocol/anthropic: request.go, response.go, stream.go).      *)
(***************************************************************************)
EXTENDS ChatFormat

----------------------------------------------------------------------------
(* OpenAI request to Anthropic request. *)

TextBlock(text) == [type |-> "text", text |-> text]
ToolUse(c) ==
  [type |-> "tool_use", id |-> c.id, name |-> c.name,
   input |-> IF IsJson(c.args) THEN c.args ELSE << EmptyObject >>]
ToolResult(m) == [type |-> "tool_result", id |-> m.answers, text |-> TextOf(m.content)]

OpenAIContentToBlocks(content) ==
  IF content \in {None, << >>} THEN << TextBlock(Blank) >>
  ELSE [i \in DOMAIN content |-> TextBlock(content[i])]

(* An assistant message: its content unless that is null, then its calls. *)
AssistantBlocks(m) ==
  LET calls == [i \in DOMAIN m.calls |-> ToolUse(m.calls[i])]
  IN IF m.content # None THEN OpenAIContentToBlocks(m.content) \o calls
     ELSE IF calls = << >> THEN << TextBlock(Blank) >> ELSE calls

Turn(role, blocks) == [role |-> role, content |-> blocks]

(* The loop over the messages: what was translated, and the tool results
   that wait to be put into one user message. *)
Nothing == [system |-> << >>, messages |-> << >>, pending |-> << >>]

(* Mutant: the flushed results stay pending. *)
FlushKeepsPending(acc) ==
  IF acc.pending = << >> THEN acc
  ELSE [acc EXCEPT !.messages = Append(@, Turn("user", acc.pending))]

FlushToolResults(acc) ==
  IF acc.pending = << >> THEN acc
  ELSE [acc EXCEPT !.messages = Append(@, Turn("user", acc.pending)), !.pending = << >>]

AddMessage(acc, m) ==
  LET flushed == FlushToolResults(acc)
      add(role, blocks) == [flushed EXCEPT !.messages = Append(@, Turn(role, blocks))]
  IN CASE m.role = "system" -> [acc EXCEPT !.system = @ \o TextOf(m.content)]
       [] m.role = "user" -> add("user", OpenAIContentToBlocks(m.content))
       [] m.role = "assistant" -> add("assistant", AssistantBlocks(m))
       [] m.role = "tool" -> [acc EXCEPT !.pending = Append(@, ToolResult(m))]

Translated(messages) ==
  LET after[n \in 0 .. Len(messages)] ==
        IF n = 0 THEN Nothing ELSE AddMessage(after[n - 1], messages[n])
  IN FlushToolResults(after[Len(messages)])

(* Anthropic has no "none": it is sent as auto. *)
MapToolChoice(c) ==
  IF c.mode = "function" /\ c.name # None THEN Choice("tool", c.name)
  ELSE CASE c.mode = "absent" -> NoChoice
         [] c.mode = "required" -> Choice("any", None)
         [] OTHER -> Choice("auto", None)

(* What the request cannot be translated with. *)
Untranslatable(req) ==
  \/ ~req.stop
  \/ req.choice.mode = "unknown"
  \/ \E m \in ToSet(req.messages) :
       \/ m.role = Unknown
       \/ HasImage(m.content)
       \/ m.role \in {"user", "assistant"} /\ HasUnknown(m.content)

OpenAIToAnthropic(req) ==
  LET all == Translated(req.messages)
  IN [system |-> all.system, messages |-> all.messages, choice |-> MapToolChoice(req.choice)]

Refused(req) == Untranslatable(req) \/ OpenAIToAnthropic(req).messages = << >>

----------------------------------------------------------------------------
(* Anthropic response to OpenAI response.  What the model said: the reason
   it stopped and its parts in order, each a text or a tool call. *)

MapStopReason(r) ==
  CASE r = "max_tokens" -> "length"
    [] r = "tool_use" -> "tool_calls"
    [] r \in {None, "end_turn", "stop_sequence", "stop"} -> "stop"
    [] OTHER -> r

AnthropicToOpenAI(said) ==
  LET uses == CallsOf(said.parts)
  IN [message |-> AssistantMessage(<< TextSaid(said.parts) >>,
        [i \in DOMAIN uses |->
           ToolCall(uses[i].id, uses[i].name,
                    IF uses[i].args = << >> THEN << EmptyObject >> ELSE uses[i].args)]),
      reason |-> MapStopReason(said.reason)]

----------------------------------------------------------------------------
(* The stream: an event changes the translator's own state (index is the
   OpenAI index of the tool of every block seen) and writes chunks. *)

StreamStart == [index |-> << >>, next |-> 0, finish |-> None]

Writes(tr, chunks) == [tr |-> tr, chunks |-> chunks]

MessageStart(tr) == Writes(tr, << RoleChunk >>)

Numbered(index, block, n) ==
  [b \in {block} \cup DOMAIN index |-> IF b = block THEN n ELSE index[b]]

(* Mutant: the next index is not advanced. *)
SameIndex(tr, block) == [tr EXCEPT !.index = Numbered(@, block, tr.next)]

NewIndex(tr, block) ==
  [index |-> Numbered(tr.index, block, tr.next), next |-> tr.next + 1, finish |-> tr.finish]

BlockStart(tr, block, id, name) ==
  Writes(NewIndex(tr, block), << CallChunk(tr.next, id, name, << >>) >>)

TextDelta(tr, text) == Writes(tr, << TextChunk(text) >>)

(* Mutant: the number of the block is taken for the index of the call. *)
InputDeltaByBlock(tr, block, piece) ==
  Writes(tr, << CallChunk(block, None, None, << piece >>) >>)

InputDelta(tr, block, piece) ==
  LET seen == IF block \in DOMAIN tr.index THEN tr ELSE NewIndex(tr, block)
  IN Writes(seen, << CallChunk(seen.index[block], None, None, << piece >>) >>)

MessageDelta(tr, reason) ==
  Writes(IF reason = None THEN tr ELSE [tr EXCEPT !.finish = MapStopReason(reason)], << >>)

MessageStop(tr) == Writes(tr, << FinishChunk(tr.finish), Done >>)

ErrorEvent(tr) == Writes(tr, << ErrorChunk, Done >>)
=============================================================================
