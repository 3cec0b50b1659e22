----------------------------- MODULE ChatFormat -----------------------------
(***************************************************************************)
(* The OpenAI chat format every client speaks (internal/protocol/core):    *)
(* messages, tool calls, the chunks of a streamed answer, and how a client *)
(* puts the chunks back together.                                          *)
(*                                                                         *)
(* A text is a sequence of pieces; a piece says who wrote it and where, so *)
(* that a lost, repeated or misplaced piece shows.  The arguments of a     *)
(* tool call are JSON when their last piece closes them.                   *)
(***************************************************************************)
EXTENDS Naturals, SequencesExt

CONSTANTS None,        \* an absent field
          Image,       \* a content part the translators refuse as an image
          Unknown,     \* a content part, a role, a choice they do not know
          EmptyObject, \* the arguments {}
          Closing      \* the last piece of complete arguments

Blank == << >>

(* A message: content is null (None) or the sequence of its parts, a plain
   string being a single part; a part is a text, Image or Unknown. *)
Message(role, content, calls, answers, name) ==
  [role |-> role, content |-> content, calls |-> calls, answers |-> answers, name |-> name]

SystemMessage(text) == Message("system", <<text>>, << >>, None, None)
UserMessage(content) == Message("user", content, << >>, None, None)
(* Mutant: an answer keeps the upstream's role. *)
ModelMessage(content, calls) == Message("model", content, calls, None, None)

AssistantMessage(content, calls) == Message("assistant", content, calls, None, None)
ToolMessage(id, name, text) == Message("tool", <<text>>, << >>, id, name)

ToolCall(id, name, args) == [id |-> id, name |-> name, args |-> args]

(* json.Valid on the arguments of a call. *)
IsJson(args) == args # << >> /\ Last(args) \in {Closing, EmptyObject}

(* tool_choice: a mode, and for a function its name. *)
Choice(mode, name) == [mode |-> mode, name |-> name]
NoChoice == Choice("absent", None)

(* A request: its messages, its tool choice, and whether stop is well formed. *)
Request(messages, choice, stop) ==
  [messages |-> messages, choice |-> choice, stop |-> stop]

(* The text of a content that holds no image: contentToText. *)
TextOf(content) ==
  IF content = None THEN Blank
  ELSE FlattenSeq([i \in DOMAIN content |->
                     IF content[i] = Unknown THEN Blank ELSE content[i]])

HasImage(content) == content # None /\ Image \in ToSet(content)
HasUnknown(content) == content # None /\ Unknown \in ToSet(content)

----------------------------------------------------------------------------
(* What a model says: its parts in order, each a text or a call. *)

TextSaid(parts) ==
  FlattenSeq([i \in DOMAIN parts |->
                IF parts[i].type = "text" THEN parts[i].text ELSE Blank])

CallsOf(parts) ==
  FlattenSeq([i \in DOMAIN parts |->
                IF parts[i].type = "call" THEN << parts[i] >> ELSE << >>])

CountCalls(parts) == Cardinality({i \in DOMAIN parts : parts[i].type = "call"})

----------------------------------------------------------------------------
(* The chunks of a streamed answer. *)

RoleChunk == [kind |-> "role"]
TextChunk(text) == [kind |-> "text", text |-> text]
CallChunk(index, id, name, args) ==
  [kind |-> "call", index |-> index, id |-> id, name |-> name, args |-> args]
FinishChunk(reason) == [kind |-> "finish", reason |-> reason]
ErrorChunk == [kind |-> "error"]
Done == [kind |-> "done"]

Kinds(chunks) == {c.kind : c \in ToSet(chunks)}

(* A client puts a message together: texts in order, and for every index the
   id and the name its first chunk gave and all the arguments. *)
OfCall(chunks, i) ==
  {k \in DOMAIN chunks : chunks[k].kind = "call" /\ chunks[k].index = i}

Indexes(chunks) == {c.index : c \in {d \in ToSet(chunks) : d.kind = "call"}}

CallAt(chunks, i) ==
  LET own   == OfCall(chunks, i)
      first == chunks[CHOOSE k \in own : \A j \in own : k <= j]
  IN ToolCall(first.id, first.name,
       FlattenSeq([k \in DOMAIN chunks |-> IF k \in own THEN chunks[k].args ELSE << >>]))

(* The k-th element of a set of numbers, from the least. *)
Nth(S, k) == CHOOSE i \in S : Cardinality({j \in S : j <= i}) = k

Assembled(chunks) ==
  AssistantMessage(
    IF "text" \notin Kinds(chunks) THEN None
    ELSE << FlattenSeq([k \in DOMAIN chunks |->
                          IF chunks[k].kind = "text" THEN chunks[k].text ELSE Blank]) >>,
    [k \in 1 .. Cardinality(Indexes(chunks)) |-> CallAt(chunks, Nth(Indexes(chunks), k))])
=============================================================================
