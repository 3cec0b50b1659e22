---------------------------- MODULE Translation ----------------------------
(***************************************************************************)
(* A conversation through the translators.  A client that speaks OpenAI    *)
(* asks, is answered (streamed or whole) by a provider of any protocol,    *)
(* appends the answer and the results of the tools it was told to call,    *)
(* and asks again, perhaps a provider of another protocol: that is what    *)
(* the targets of an alias amount to.  A conversation ends with a request  *)
(* that is refused or an answer that fails.  Requests are translated by     *)
(* TranslateRequest, answers by TranslateResponse or event by event by     *)
(* TranslateStream of the protocol (internal/protocol); the passthrough    *)
(* protocol openai changes neither.                                        *)
(***************************************************************************)
EXTENDS ChatFormat

CONSTANTS Protocol,   \* subset of {"anthropic", "gemini", "openai"}
          Name,       \* names of tools
          Word,       \* the pieces of the texts conversations begin with
          Requests,   \* the requests conversations begin with
          MaxTurns,   \* bound: requests of a conversation
          MaxParts,   \* bound: parts and pieces of all answers together
          MaxLost     \* bound: stream events that are not readable

(* A piece of a text says who wrote it: the client before the conversation
   began or in its course, a tool, or the model. *)
TextPiece ==
  Word \cup ({"model", "result"} \X Nat \X Nat) \cup ({"user", "reminder"} \X Nat)
Text == Seq(TextPiece)
Content == Seq(Text \cup {Image, Unknown}) \cup {None}

(* Before the conversation begins no tool was called. *)
FirstMessage ==
  [role : {"system", "user", "assistant", Unknown}, content : Content,
   calls : {<< >>}, answers : {None}, name : {None}]

Role == {"system", "user", "assistant", "tool"}

(* Why an answer stopped, in the words of any of the protocols. *)
Reason ==
  {"end_turn", "max_tokens", "tool_use", "STOP", "MAX_TOKENS",
   "stop", "length", "tool_calls", "content_filter"}

(* The events of a stream that carry something: Anthropic's by their types,
   and Gemini's chunks. *)
Event ==
  {"message_start", "content_block_start", "text_delta", "input_json_delta",
   "message_delta", "chunk"}

Modes == {"absent", "none", "auto", "required", "function", "unknown"}

ASSUME TranslationAssumption ==
  /\ Protocol \subseteq {"anthropic", "gemini", "openai"} /\ Protocol # {}
  /\ {MaxTurns, MaxParts, MaxLost} \subseteq Nat
  /\ None \notin Name
  /\ None \notin Reason /\ Unknown \notin Role
  /\ {Image, Unknown} \cap Text = {}
  /\ None \notin Seq(Text \cup {Image, Unknown})
  /\ None \notin {"id"} \X Nat \X Nat /\ None \notin {"call"} \X Nat
  /\ Requests \subseteq
       [messages : Seq(FirstMessage),
        choice : [mode : Modes, name : Name \cup {None}], stop : BOOLEAN]

A == INSTANCE AnthropicFormat
G == INSTANCE GeminiFormat

VARIABLES
  conv,     \* the client's messages so far
  params,   \* what else it sends: [choice, stop]
  phase,    \* "idle", "open" (being answered), "ended", "refused"
  asked,    \* the provider's protocol, and whether the answer is streamed
  said,     \* what the model said so far in the events that could be read:
            \* its parts, why it stopped, whether it began; and the kinds of
            \* the events that could not be read
  tr,       \* the local variables of TranslateStream
  out,      \* the chunks written to the client
  outcome,  \* how the handler returned: "none", "ok", "failed"
  used      \* how much of each bound was used

vars == <<conv, params, phase, asked, said, tr, out, outcome, used>>

Silence == [parts |-> << >>, reason |-> None, begun |-> FALSE, missed |-> {}]

NotAsked == [proto |-> CHOOSE p \in Protocol : TRUE, streaming |-> FALSE]

Init ==
  /\ \E first \in Requests :
       /\ conv = first.messages
       /\ params = [choice |-> first.choice, stop |-> first.stop]
  /\ phase = "idle"
  /\ asked = NotAsked /\ said = Silence /\ tr = A!StreamStart
  /\ out = << >> /\ outcome = "none"
  /\ used = [turns |-> 0, parts |-> 0, lost |-> 0]

Use(bound) == used' = [used EXCEPT ![bound] = @ + 1]

----------------------------------------------------------------------------
(* The request, as the provider gets it unless it is refused with 400. *)

Req == Request(conv, params.choice, params.stop)

TranslateRequest(proto) ==
  CASE proto = "anthropic" -> A!OpenAIToAnthropic(Req)
    [] proto = "gemini" -> G!OpenAIToGemini(Req)
    [] proto = "openai" -> Req

Refuses(proto) ==
  CASE proto = "anthropic" -> A!Refused(Req)
    [] proto = "gemini" -> G!Refused(Req)
    [] proto = "openai" -> FALSE

Send(proto, streaming) ==
  /\ phase = "idle" /\ used.turns < MaxTurns
  /\ Use("turns")
  /\ asked' = [proto |-> proto, streaming |-> streaming]
  /\ phase' = IF Refuses(proto) THEN "refused" ELSE "open"
  /\ said' = Silence
  /\ tr' = IF proto = "gemini" THEN G!StreamStart ELSE A!StreamStart
  /\ out' = << >>
  /\ outcome' = IF Refuses(proto) THEN "failed" ELSE "none"
  /\ UNCHANGED <<conv, params>>

----------------------------------------------------------------------------
(* The answer.  The model adds to what it said; a stream carries that to the
   translator at once, a whole answer when it is complete. *)

Open == phase = "open"
Streaming(proto) == Open /\ asked.proto = proto

Emit(step) ==
  IF asked.streaming THEN tr' = step.tr /\ out' = out \o step.chunks
  ELSE UNCHANGED <<tr, out>>

Piece(kind) == << kind, used.turns, used.parts >>

CallPart(id, name, args) == [type |-> "call", id |-> id, name |-> name, args |-> args]
TextPart(text) == [type |-> "text", text |-> text]

WithText(parts, piece) ==
  IF parts # << >> /\ Last(parts).type = "text"
  THEN [parts EXCEPT ![Len(parts)].text = Append(@, piece)]
  ELSE Append(parts, TextPart(<< piece >>))

EndsWith(type) == said.parts # << >> /\ Last(said.parts).type = type

(* A provider lets the model call the tools its request leaves to choose. *)
ChoiceSent ==
  CASE asked.proto = "anthropic" -> A!MapToolChoice(params.choice)
    [] asked.proto = "gemini" -> G!MapToolChoice(params.choice)
    [] asked.proto = "openai" -> params.choice

MayCall(name) ==
  LET c == ChoiceSent
  IN c.mode \notin {"none", "NONE"} /\ (c.name = None \/ c.name = name)

Stopped == said.reason # None \/ "message_delta" \in said.missed

StillSaying ==
  /\ Open /\ said.begun /\ ~Stopped
  /\ used.parts < MaxParts

(* An event that is not JSON is skipped whole, whatever it is, and the stream
   goes on (stream.go:65-70 of both). *)
MayMiss == asked.streaming /\ used.lost < MaxLost

(* The first event of a message (Anthropic: message_start). *)
Begin ==
  /\ Open /\ asked.proto # "gemini" /\ ~said.begun
  /\ said' = [said EXCEPT !.begun = TRUE]
  /\ Emit(IF asked.proto = "anthropic" THEN A!MessageStart(tr) ELSE A!Writes(tr, << RoleChunk >>))
  /\ UNCHANGED <<conv, params, phase, asked, outcome, used>>

(* Text: the beginning of a text block, or more of it. *)
SayText ==
  /\ StillSaying /\ asked.proto # "gemini"
  /\ Use("parts")
  /\ said' = [said EXCEPT !.parts = WithText(@, Piece("model"))]
  /\ Emit(IF asked.proto = "anthropic" THEN A!TextDelta(tr, << Piece("model") >>)
          ELSE A!Writes(tr, << TextChunk(<< Piece("model") >>) >>))
  /\ UNCHANGED <<conv, params, phase, asked, outcome>>

(* A call begins: Anthropic and OpenAI give it an id of its own.  Even when the
   event cannot be read, more of the call may follow. *)
SayCall(name, readable) ==
  /\ StillSaying /\ asked.proto # "gemini" /\ MayCall(name)
  /\ readable \/ (asked.proto = "anthropic" /\ MayMiss)
  /\ used' = [used EXCEPT !.parts = @ + 1, !.lost = IF readable THEN @ ELSE @ + 1]
  /\ said' = [said EXCEPT !.parts = Append(@, CallPart(Piece("id"), name, << >>)),
                          !.missed = IF readable THEN @ ELSE @ \cup {"content_block_start"}]
  /\ LET block == Len(said.parts)
         index == CountCalls(said.parts)
     IN Emit(IF ~readable THEN A!Writes(tr, << >>)
             ELSE IF asked.proto = "anthropic" THEN A!BlockStart(tr, block, Piece("id"), name)
             ELSE A!Writes(tr, << CallChunk(index, Piece("id"), name, << >>) >>))
  /\ UNCHANGED <<conv, params, phase, asked, outcome>>

(* More of the arguments of the call that is open. *)
CallOpen == EndsWith("call") /\ ~IsJson(Last(said.parts).args)

SayArguments(piece) ==
  /\ StillSaying /\ asked.proto # "gemini" /\ CallOpen
  /\ Use("parts")
  /\ said' = [said EXCEPT !.parts[Len(said.parts)].args = Append(@, piece)]
  /\ LET block == Len(said.parts) - 1
         index == CountCalls(said.parts) - 1
     IN Emit(IF asked.proto = "anthropic" THEN A!InputDelta(tr, block, piece)
             ELSE A!Writes(tr, << CallChunk(index, None, None, << piece >>) >>))
  /\ UNCHANGED <<conv, params, phase, asked, outcome>>

(* Why it stopped: at its limit, possibly in the middle of a call, or because
   it said all it wanted. *)
Cut ==
  /\ CallOpen /\ Last(said.parts).args # << >>
  /\ "input_json_delta" \notin said.missed

SayReason(reason) ==
  /\ Open /\ asked.proto # "gemini" /\ said.begun /\ ~Stopped
  /\ reason \in IF CountCalls(said.parts) = 0 THEN {"end_turn", "max_tokens"}
                 ELSE {"tool_use", "max_tokens"}
  /\ Cut => reason = "max_tokens"
  /\ said' = [said EXCEPT !.reason = reason]
  /\ Emit(IF asked.proto = "anthropic" THEN A!MessageDelta(tr, reason)
          ELSE A!Writes(tr, << FinishChunk(A!MapStopReason(reason)) >>))
  /\ UNCHANGED <<conv, params, phase, asked, outcome, used>>

(* One chunk of a Gemini stream: at most two parts, and a reason in the last
   that has one.  A chunk may have neither: it tells the usage or an error. *)
GeminiParts ==
  {<< >>}
    \cup {<< TextPart(<< Piece("model") >>) >>}
    \cup {<< CallPart(None, n, args) >> : n \in Name, args \in {<< >>, << Closing >>}}
    \cup {<< CallPart(None, n, << Closing >>), CallPart(None, m, << >>) >> : n, m \in Name}
    \cup {<< TextPart(<< Piece("model") >>), CallPart(None, n, << Closing >>) >> : n \in Name}

GeminiReasons == {None, "STOP", "MAX_TOKENS"}

GeminiSays(parts, reason) ==
  /\ Streaming("gemini") /\ said.reason = None
  /\ used.parts + Len(parts) <= MaxParts
  /\ \A p \in ToSet(parts) : p.type = "call" => MayCall(p.name)
  /\ used' = [used EXCEPT !.parts = @ + Len(parts)]
  /\ said' = [said EXCEPT !.begun = TRUE, !.parts = @ \o parts, !.reason = reason]
  /\ Emit(G!StreamChunk(tr, parts, reason))
  /\ UNCHANGED <<conv, params, phase, asked, outcome>>

(* The event that comes next cannot be read: a text, a piece of arguments or
   whatever it carried is lost without a trace.  The model goes on. *)
SkipEvent(kind) ==
  /\ Open /\ MayMiss
  /\ asked.proto = IF kind = "chunk" THEN "gemini" ELSE "anthropic"
  /\ CASE kind = "message_start" -> ~said.begun
       [] kind = "text_delta" -> StillSaying
       [] kind = "input_json_delta" -> StillSaying /\ CallOpen
       [] kind = "message_delta" -> said.begun /\ ~Stopped
       [] kind = "chunk" -> said.reason = None
       [] kind = "content_block_start" -> FALSE    \* SayCall
  /\ Use("lost")
  /\ said' = [said EXCEPT !.missed = @ \cup {kind},
                          !.begun = @ \/ kind = "message_start"]
  /\ UNCHANGED <<conv, params, phase, asked, tr, out, outcome>>

(* The answer ends: the upstream closes a complete stream, or a whole answer
   was received.  Gemini's streams have no end but the end of input. *)
AnswerEnds ==
  /\ Open /\ said.begun /\ Stopped
  /\ phase' = "ended" /\ outcome' = "ok"
  /\ Emit(CASE asked.proto = "anthropic" -> A!MessageStop(tr)
            [] asked.proto = "gemini" -> A!Writes(tr, G!StreamEnds(tr))
            [] asked.proto = "openai" -> A!Writes(tr, << Done >>))
  /\ UNCHANGED <<conv, params, asked, said, used>>

(* Failures of a stream.  Anthropic reports one in an event; any stream may
   end too early without an error, if only before its last event or because
   that could not be read; or reading or writing fails. *)
ErrorEvent ==
  /\ Streaming("anthropic") /\ asked.streaming
  /\ phase' = "ended" /\ outcome' = "ok"
  /\ Emit(A!ErrorEvent(tr))
  /\ UNCHANGED <<conv, params, asked, said, used>>

EndsEarly ==
  /\ Open /\ asked.streaming
  /\ phase' = "ended" /\ outcome' = "ok"
  /\ Emit(A!Writes(tr, IF asked.proto = "gemini" THEN G!StreamEnds(tr) ELSE << >>))
  /\ UNCHANGED <<conv, params, asked, said, used>>

Breaks ==
  /\ Open
  /\ phase' = "ended" /\ outcome' = "failed"
  /\ UNCHANGED <<conv, params, asked, said, tr, out, used>>

----------------------------------------------------------------------------
(* The client.  It has an answer when the stream was finished, or when the
   whole answer arrived. *)

Finished == {"finish", "done"} \subseteq Kinds(out)
Complete ==
  /\ outcome = "ok"
  /\ asked.streaming => Finished /\ "error" \notin Kinds(out)

Whole == IF asked.proto = "gemini" THEN G!GeminiToOpenAI(said) ELSE A!AnthropicToOpenAI(said)

Heard == IF asked.streaming THEN Assembled(out) ELSE Whole.message

HeardReason ==
  IF asked.streaming THEN (CHOOSE c \in ToSet(out) : c.kind = "finish").reason ELSE Whole.reason

Usable(message) == \A i \in DOMAIN message.calls : message.calls[i].id # None

(* It appends the answer, and the results of its calls in any order: bare,
   with the name of the tool, or with a reminder before the last. *)
Styles == {"bare", "named", "reminder"}

(* Bound: a client goes on after at most two calls. *)
Orders == {<< >>, <<1>>, <<1, 2>>, <<2, 1>>}

Result(call, k, style) ==
  ToolMessage(call.id, IF style = "named" THEN call.name ELSE None,
              << << "result", used.turns, k >> >>)

Results(calls, order, style) ==
  LET all == [i \in DOMAIN order |-> Result(calls[order[i]], order[i], style)]
  IN IF style # "reminder" THEN all
     ELSE InsertAt(all, Len(all), SystemMessage(<< << "reminder", used.turns >> >>))

GoOn ==
  /\ phase = "ended" /\ Complete
  /\ LET heard == Heard
         calls == heard.calls
     IN /\ Usable(heard)
        /\ \E order \in Orders, style \in Styles :
             /\ Len(order) = Len(calls)
             /\ calls = << >> => style = "bare"
             /\ conv' = conv \o << heard >> \o
                  IF calls = << >> THEN << UserMessage(<< << << "user", used.turns >> >> >>) >>
                  ELSE Results(calls, order, style)
  /\ phase' = "idle"
  /\ asked' = NotAsked /\ said' = Silence /\ tr' = A!StreamStart
  /\ out' = << >> /\ outcome' = "none"
  /\ UNCHANGED <<params, used>>

Next ==
  \/ \E p \in Protocol, s \in BOOLEAN : Send(p, s)
  \/ Begin
  \/ SayText
  \/ \E n \in Name, readable \in BOOLEAN : SayCall(n, readable)
  \/ \E piece \in {Piece("args"), Closing} : SayArguments(piece)
  \/ \E reason \in {"end_turn", "max_tokens", "tool_use"} : SayReason(reason)
  \/ \E parts \in GeminiParts, reason \in GeminiReasons : GeminiSays(parts, reason)
  \/ \E kind \in Event : SkipEvent(kind)
  \/ AnswerEnds \/ ErrorEvent \/ EndsEarly \/ Breaks
  \/ GoOn

Spec == Init /\ [][Next]_vars

----------------------------------------------------------------------------
(* Properties. *)

(* Every variable keeps its type. *)
TypeOK ==
  /\ phase \in {"idle", "open", "ended", "refused"}
  /\ asked \in [proto : Protocol, streaming : BOOLEAN]
  /\ params \in {[choice |-> r.choice, stop |-> r.stop] : r \in Requests}
  /\ outcome \in {"none", "ok", "failed"}
  /\ used \in [turns : 0 .. MaxTurns, parts : 0 .. MaxParts, lost : 0 .. MaxLost]
  /\ \A c \in ToSet(out) : c.kind \in {"role", "text", "call", "finish", "error", "done"}
  /\ \A m \in ToSet(conv) : m.role \in Role \cup {Unknown}

(* Whatever the upstream sends, whichever of its events cannot be read, and
   wherever it stops, what the client got is the beginning of a well-formed
   OpenAI stream: the role first and once, calls numbered from zero in the
   order they begin, their id and name in the first chunk only, at most one
   finish, and [DONE] at the very end (stream.go of both).  Two events are
   missed: without message_start no role is written, and without a
   content_block_start the first chunk of its call has no id and name. *)
Announces(c) == c.id # None /\ c.name # None

WellFormedStream ==
  /\ \A i \in DOMAIN out :
       /\ out[i].kind = "role" => i = 1
       /\ out[i].kind \in {"text", "call"} =>
            "message_start" \in said.missed \/ out[1].kind = "role"
       /\ out[i].kind = "done" => i = Len(out)
       /\ out[i].kind \in {"finish", "error"} =>
            \A j \in i + 1 .. Len(out) : out[j].kind = "done"
       /\ out[i].kind = "call" =>
            LET earlier == Indexes(SubSeq(out, 1, i - 1))
            IN IF out[i].index \in earlier THEN ~Announces(out[i])
               ELSE /\ out[i].index = Cardinality(earlier)
                    /\ "content_block_start" \notin said.missed => Announces(out[i])

(* The message a client ends up with is the message the model said, streamed
   or not: all text in order, and every call with its name and arguments (no
   arguments and {} are the same), under ids of its own.  What the model said
   is what the events said that could be read: the others are left out without
   a trace, and the message is taken for complete, but they take nothing with
   them, except that the pieces of a call whose content_block_start is missed
   make a call of no name.  A stream of Anthropic or OpenAI that stops before
   the model does is never taken for complete.  One of Gemini is: it gets the
   finish reason stop and [DONE], whatever docs/translation-gaps.md:91-93 says
   of an upstream that fails in the middle. *)
SameArguments(a, b) == a = b \/ {a, b} \subseteq {<< >>, << EmptyObject >>}

HeardIsSaid ==
  Complete =>
    LET heard == Heard
        calls == CallsOf(said.parts)
    IN /\ TextOf(heard.content) = TextSaid(said.parts)
       /\ asked.proto # "gemini" => Stopped
       /\ "content_block_start" \notin said.missed =>
            /\ Len(heard.calls) = Len(calls)
            /\ \A i \in DOMAIN calls :
                 /\ heard.calls[i].name = calls[i].name
                 /\ SameArguments(heard.calls[i].args, calls[i].args)
                 /\ calls[i].id # None => heard.calls[i].id = calls[i].id
            /\ \A i, j \in DOMAIN calls : heard.calls[i].id = heard.calls[j].id => i = j

(* What a provider of either protocol would now be sent. *)
Translations ==
  IF phase # "idle" THEN {}
  ELSE {proto \in {"anthropic", "gemini"} : ~Refuses(proto)}

(* Nothing of the conversation is lost, repeated or reordered on the way:
   the provider sees every text and result in the client's order, and all the
   system messages, which it takes apart from the others. *)
TextOfPart(part) ==
  CASE part.type = "text" -> part.text
    [] part.type = "tool_result" -> part.text
    [] part.type = "functionResponse" -> part.result
    [] OTHER -> << >>

TextOfTurn(turn) ==
  FlattenSeq([i \in DOMAIN turn.content |-> TextOfPart(turn.content[i])])

ConversationText(system) ==
  FlattenSeq([i \in DOMAIN conv |->
                IF (conv[i].role = "system") = system THEN TextOf(conv[i].content) ELSE Blank])

NothingLost ==
  \A proto \in Translations :
    LET sent == TranslateRequest(proto)
    IN /\ FlattenSeq([i \in DOMAIN sent.messages |-> TextOfTurn(sent.messages[i])])
            = ConversationText(FALSE)
       /\ sent.system = ConversationText(TRUE)

(* The results of an answer's calls reach the provider in the one user message
   that follows the answer, each under the call it answers: Anthropic by id,
   Gemini by name, although ids Gemini's answers were given repeat from answer
   to answer and reminders come between (request.go of both). *)
IsCall(part) == part.type \in {"tool_use", "functionCall"}
IsResult(part) == part.type \in {"tool_result", "functionResponse"}

AnsweredAs(proto, part, m, caller) ==
  /\ TextOfPart(part) = TextOf(m.content)
  /\ \E c \in ToSet(caller.calls) :
       /\ c.id = m.answers
       /\ IF proto = "gemini" THEN part.name = c.name ELSE part.id = c.id

ToolMessagesAfter(i) ==
  {k \in DOMAIN conv :
     /\ conv[k].role = "tool" /\ k > i
     /\ \A j \in i + 1 .. k : conv[j].role \in {"tool", "system"}}

(* How many elements of a set of positions come no later than this one. *)
Rank(S, i) == Cardinality({j \in S : j <= i})

Speakers == {i \in DOMAIN conv : conv[i].role = "assistant"}
Spoken(turns) == {t \in DOMAIN turns : turns[t].role # "user"}

ResultsFollowCalls ==
  \A proto \in Translations :
    LET turns == TranslateRequest(proto).messages
    IN /\ Cardinality(Speakers) = Cardinality(Spoken(turns))
       /\ \A i \in Speakers, t \in Spoken(turns) :
            Rank(Speakers, i) = Rank(Spoken(turns), t) =>
              LET spoke == turns[t].content
                  results == ToolMessagesAfter(i)
              IN /\ Cardinality({b \in DOMAIN spoke : IsCall(spoke[b])}) = Len(conv[i].calls)
                 /\ results # {} =>
                      /\ t < Len(turns)
                      /\ Len(turns[t + 1].content) = Cardinality(results)
                      /\ \A k \in results :
                           LET part == turns[t + 1].content[Rank(results, k)]
                           IN IsResult(part) /\ AnsweredAs(proto, part, conv[k], conv[i])

(* The two translators refuse the same conversations: none is translated for
   one protocol and refused for the other, so that among Anthropic and Gemini
   targets a request does not fail or succeed by the one that was selected.
   Targets of protocol openai are no part of it: they are sent everything. *)
RefusedAlike ==
  phase = "idle" => (A!Refused(Req) <=> G!Refused(Req))

(* The client is never told to call a tool its tool_choice ruled out, if the
   provider respects the choice it was sent.  Anthropic cannot be told "none"
   (docs/translation-gaps.md). *)
OnlyChosenTools ==
  \A p \in {q \in ToSet(said.parts) : q.type = "call"} :
    /\ params.choice.mode = "none" => asked.proto = "anthropic"
    /\ params.choice.mode = "function" /\ params.choice.name # None =>
         p.name = params.choice.name

(* docs/translation-gaps.md:113-115: a functionCall in Gemini's answer makes
   the finish reason tool_calls. *)
FinishTellsCalls ==
  Complete /\ asked.proto = "gemini" /\ said.reason = "STOP" /\ Heard.calls # << >>
    => HeardReason = "tool_calls"
=============================================================================
