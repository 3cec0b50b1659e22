---------------------------- MODULE GeminiFormat ----------------------------
(***************************************************************************)
(* The translation to and from Gemini's generateContent                    *)
(* (internal/protocol/gemini: request.go, response.go, stream.go).         *)
(***************************************************************************)
EXTENDS ChatFormat

----------------------------------------------------------------------------
(* OpenAI request to Gemini request. *)

TextPart(text) == [type |-> "text", text |-> text]
FunctionCall(c) ==
  [type |-> "functionCall", name |-> c.name,
   args |-> IF IsJson(c.args) THEN c.args ELSE << EmptyObject >>]

(* A result has no id here: it is named after the call, as the message says
   or else as the last call with that id was named. *)
FunctionResponse(m, names) ==
  [type |-> "functionResponse",
   name |-> IF m.name # None THEN m.name
            ELSE IF m.answers \in DOMAIN names THEN names[m.answers] ELSE m.answers,
   result |-> TextOf(m.content)]

OpenAIContentToParts(content) ==
  IF content \in {None, << >>} THEN << TextPart(Blank) >>
  ELSE [i \in DOMAIN content |-> TextPart(content[i])]

ModelParts(m) ==
  LET calls == [i \in DOMAIN m.calls |-> FunctionCall(m.calls[i])]
  IN IF m.content # None THEN OpenAIContentToParts(m.content) \o calls
     ELSE IF calls = << >> THEN << TextPart(Blank) >> ELSE calls

(* The names a message gives to ids: the last call with an id names it. *)
NamesOf(calls) ==
  LET named == {k \in DOMAIN calls : None \notin {calls[k].id, calls[k].name}}
      last(id) == CHOOSE k \in named :
                    /\ calls[k].id = id
                    /\ \A j \in named : calls[j].id = id => j <= k
  IN [id \in {calls[k].id : k \in named} |-> calls[last(id)].name]

(* Mutant: an id keeps the name it had first. *)
FirstNames(names, calls) ==
  [id \in DOMAIN names \cup DOMAIN NamesOf(calls) |->
     IF id \in DOMAIN names THEN names[id] ELSE NamesOf(calls)[id]]

(* toolNameByID after the calls of one more message: they take their ids over. *)
NamesAfter(names, calls) ==
  [id \in DOMAIN names \cup DOMAIN NamesOf(calls) |->
     IF id \in DOMAIN NamesOf(calls) THEN NamesOf(calls)[id] ELSE names[id]]

Contents(role, parts) == [role |-> role, content |-> parts]

Nothing == [system |-> << >>, messages |-> << >>, pending |-> << >>, names |-> << >>]

FlushToolResults(acc) ==
  IF acc.pending = << >> THEN acc
  ELSE [acc EXCEPT !.messages = Append(@, Contents("user", acc.pending)), !.pending = << >>]

AddMessage(acc, m) ==
  LET flushed == FlushToolResults(acc)
      add(role, parts) == [flushed EXCEPT !.messages = Append(@, Contents(role, parts))]
  IN CASE m.role = "system" -> [acc EXCEPT !.system = @ \o TextOf(m.content)]
       [] m.role = "user" -> add("user", OpenAIContentToParts(m.content))
       [] m.role = "assistant" ->
            [add("model", ModelParts(m)) EXCEPT !.names = NamesAfter(@, m.calls)]
       [] m.role = "tool" ->
            [acc EXCEPT !.pending = Append(@, FunctionResponse(m, acc.names))]

Translated(messages) ==
  LET after[n \in 0 .. Len(messages)] ==
        IF n = 0 THEN Nothing ELSE AddMessage(after[n - 1], messages[n])
  IN FlushToolResults(after[Len(messages)])

(* Mutant: "none" is sent as AUTO, as Anthropic gets it. *)
NoneAsAuto(c) ==
  IF c.mode = "function" /\ c.name # None THEN Choice("ANY", c.name)
  ELSE CASE c.mode = "absent" -> NoChoice
         [] c.mode = "required" -> Choice("ANY", None)
         [] OTHER -> Choice("AUTO", None)

MapToolChoice(c) ==
  IF c.mode = "function" /\ c.name # None THEN Choice("ANY", c.name)
  ELSE CASE c.mode = "absent" -> NoChoice
         [] c.mode = "required" -> Choice("ANY", None)
         [] c.mode = "none" -> Choice("NONE", None)
         [] OTHER -> Choice("AUTO", None)

(* What the request cannot be translated with.  Mutant: images pass. *)
UntranslatableButImages(req) ==
  \/ ~req.stop
  \/ req.choice.mode = "unknown"
  \/ \E m \in ToSet(req.messages) :
       m.role = Unknown \/ (m.role \in {"user", "assistant"} /\ HasUnknown(m.content))

Untranslatable(req) ==
  \/ ~req.stop
  \/ req.choice.mode = "unknown"
  \/ \E m \in ToSet(req.messages) :
       \/ m.role = Unknown
       \/ HasImage(m.content)
       \/ m.role \in {"user", "assistant"} /\ HasUnknown(m.content)

OpenAIToGemini(req) ==
  LET all == Translated(req.messages)
  IN [system |-> all.system, messages |-> all.messages, choice |-> MapToolChoice(req.choice)]

Refused(req) == Untranslatable(req) \/ OpenAIToGemini(req).messages = << >>

----------------------------------------------------------------------------
(* Gemini response to OpenAI response. *)

MapFinishReason(r) ==
  CASE r = "MAX_TOKENS" -> "length"
    [] r \in {"SAFETY", "RECITATION", "BLOCKLIST", "PROHIBITED_CONTENT", "SPII"} ->
         "content_filter"
    [] OTHER -> "stop"

(* Gemini numbers no calls: the ids are made up from their position among
   the parts of the answer, or in a stream among its calls. *)
CallId(i) == << "call", i >>

GeminiToOpenAI(said) ==
  LET call(i) == LET p == said.parts[i]
                 IN IF p.type = "call"
                    THEN << ToolCall(CallId(i - 1), p.name,
                              IF p.args = << >> THEN << EmptyObject >> ELSE p.args) >>
                    ELSE << >>
      calls == FlattenSeq([i \in DOMAIN said.parts |-> call(i)])
      mapped == MapFinishReason(said.reason)
  IN [message |-> AssistantMessage(<< TextSaid(said.parts) >>, calls),
      reason |-> IF calls # << >> /\ mapped = "stop" THEN "tool_calls" ELSE mapped]

----------------------------------------------------------------------------
(* The stream: every chunk of Gemini is a whole answer with a few parts. *)

StreamStart == [roleSent |-> FALSE, next |-> 0, finish |-> None]

(* The chunk of the i-th part: calls are numbered through the stream. *)
PartChunk(tr, parts, i) ==
  LET p == parts[i]
      idx == tr.next + CountCalls(SubSeq(parts, 1, i - 1))
  IN IF p.type = "text" THEN TextChunk(p.text)
     ELSE CallChunk(idx, CallId(idx), p.name, p.args)

(* The reason of the chunk that carries one, unless a call is in that chunk. *)
FinishAfter(tr, parts, reason) ==
  IF reason = None THEN tr.finish
  ELSE IF CountCalls(parts) > 0 THEN "tool_calls" ELSE MapFinishReason(reason)

StreamChunk(tr, parts, reason) ==
  [tr |-> [roleSent |-> TRUE, next |-> tr.next + CountCalls(parts),
           finish |-> FinishAfter(tr, parts, reason)],
   chunks |-> (IF tr.roleSent THEN << >> ELSE << RoleChunk >>)
                \o [i \in DOMAIN parts |-> PartChunk(tr, parts, i)]]

StreamEnds(tr) ==
  << FinishChunk(IF tr.finish = None THEN "stop" ELSE tr.finish), Done >>
=============================================================================
