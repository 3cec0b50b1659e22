--------------------------- MODULE AnswerProofs ----------------------------
(***************************************************************************)
(* Theorems about the answers of Translation for any conversation, any     *)
(* names of tools, and any number of turns, parts and unreadable events.   *)
(*                                                                         *)
(* The invariant puts what was written to the client next to what the      *)
(* model said: Typed, SaidWell (what the model may have said by now),      *)
(* StreamInv (an answer that is streamed was told so far), OpenInv (what   *)
(* may still follow) and OutcomeInv. IdsInv adds that the ids of the calls *)
(* differ, and ChosenInv that the calls were left to choose. What a        *)
(* complete answer says follows from them.                                 *)
(***************************************************************************)
EXTENDS StreamProofs

----------------------------------------------------------------------------
(* What the actions add to what the model said. *)

LEMMA TextPlus ==
  ASSUME NEW r \in TextPartType, NEW z
  PROVE  [r EXCEPT !.text = @ \o z] = [type |-> "text", text |-> r.text \o z]
<1> DEFINE t == r.text \o z
<1>1. [r EXCEPT !.text = @ \o z] = [r EXCEPT !.text = t]
  OBVIOUS
<1> HIDE DEF t
<1>2. [r EXCEPT !.text = t] = [type |-> "text", text |-> t]
  BY DEF TextPartType
<1> QED
  BY <1>1, <1>2 DEF t

(* A longer text is no new part. *)
LEMMA LongerText ==
  ASSUME NEW parts, NEW x, parts \in Seq(Part), x \in TextPiece,
         parts # << >>, Last(parts).type = "text"
  PROVE  LET after == [parts EXCEPT ![Len(parts)].text = Append(@, x)]
         IN /\ after \in Seq(Part) /\ after # << >> /\ Last(after).type = "text"
            /\ TextSaid(after) = TextSaid(parts) \o << x >>
            /\ CallsOf(after) = CallsOf(parts) /\ CountCalls(after) = CountCalls(parts)
<1> DEFINE f == Front(parts)
<1> DEFINE p == Last(parts)
<1> DEFINE q == [p EXCEPT !.text = @ \o << x >>]
<1>1. f \in Seq(Part) /\ p \in Part /\ parts = Append(f, p)
  BY FrontLast
<1>2. p \in TextPartType /\ p.text \in Seq(TextPiece) /\ p.type = "text"
  BY <1>1, PartCases
<1>3. q = [type |-> "text", text |-> p.text \o << x >>]
  BY <1>2, TextPlus
<1>4. << x >> \in Seq(TextPiece) /\ Append(p.text, x) = p.text \o << x >>
      /\ p.text \o << x >> \in Seq(TextPiece)
  BY <1>2
<1>5. q \in Part /\ q.type = "text" /\ q.text = p.text \o << x >>
  BY <1>3, <1>4 DEF Part, TextPartType, Text
<1>6. [parts EXCEPT ![Len(parts)].text = Append(@, x)] = Append(f, q)
  <2>1. parts[Len(parts)] = p
    BY DEF Last
  <2>2. [parts EXCEPT ![Len(parts)].text = Append(@, x)]
          = [parts EXCEPT ![Len(parts)] = [parts[Len(parts)] EXCEPT !.text = Append(@, x)]]
    OBVIOUS
  <2>3. [parts[Len(parts)] EXCEPT !.text = Append(@, x)] = q
    BY <1>2, <1>4, <2>1
  <2> HIDE DEF q
  <2>4. [parts EXCEPT ![Len(parts)] = q] = Append(Front(parts), q)
    BY <1>5, ChangeLast
  <2> QED
    BY <2>2, <2>3, <2>4
<1> HIDE DEF f, p, q
<1>7. /\ TextSaid(Append(f, q)) = TextSaid(f) \o (p.text \o << x >>)
      /\ TextSaid(Append(f, p)) = TextSaid(f) \o p.text
      /\ TextSaid(f) \in Seq(TextPiece)
  BY <1>1, <1>2, <1>5, SayOneMore
<1>8. TextSaid(Append(f, q)) = TextSaid(parts) \o << x >>
  <2>1. Regroup(TextSaid(f), p.text, << x >>)
    BY <1>2, <1>4, <1>7, Regrouping
  <2>2. TextSaid(parts) = TextSaid(f) \o p.text
    BY <1>1, <1>7
  <2> QED
    BY <1>7, <2>1, <2>2 DEF Regroup
<1>9. /\ CallsOf(Append(f, q)) = CallsOf(f) \o << >> /\ CallsOf(Append(f, p)) = CallsOf(f) \o << >>
      /\ CountCalls(Append(f, q)) = CountCalls(f) + 0 /\ CountCalls(Append(f, p)) = CountCalls(f) + 0
  BY <1>1, <1>2, <1>5, CallOneMore, CountOneMore
<1>10. Append(f, q) \in Seq(Part) /\ Append(f, q) # << >> /\ Last(Append(f, q)) = q
  BY <1>1, <1>5 DEF Last
<1> QED
  BY <1>1, <1>5, <1>6, <1>8, <1>9, <1>10

(* What SayText adds to the answer. *)
LEMMA SayTextParts ==
  ASSUME Typed, SayText
  PROVE  /\ said'.reason = said.reason /\ said'.begun = said.begun
         /\ said'.missed = said.missed /\ said' \in SaidType
         /\ said.begun /\ said.reason = None /\ phase = "open" /\ asked.proto # "gemini"
         /\ Piece("model") \in TextPiece
         /\ said'.parts \in Seq(Part) /\ said'.parts # << >> /\ Last(said'.parts).type = "text"
         /\ TextSaid(said'.parts) = TextSaid(said.parts) \o << Piece("model") >>
         /\ CallsOf(said'.parts) = CallsOf(said.parts)
         /\ CountCalls(said'.parts) = CountCalls(said.parts)
<1> DEFINE x == Piece("model")
<1>1. x \in TextPiece
  BY SaidFields DEF Piece, TextPiece
<1> DEFINE after == WithText(said.parts, x)
<1>2. said' = [parts |-> after, reason |-> said.reason, begun |-> said.begun,
               missed |-> said.missed]
  <2>1. said' = [said EXCEPT !.parts = after]
    BY DEF SayText
  <2>2. said = [parts |-> said.parts, reason |-> said.reason, begun |-> said.begun,
                missed |-> said.missed]
    BY SaidFields
  <2> HIDE DEF after
  <2> QED
    BY <2>1, <2>2
<1>3. said.begun /\ said.reason = None /\ phase = "open" /\ asked.proto # "gemini"
  BY DEF SayText, StillSaying, Stopped, Open
<1>4. said.parts \in Seq(Part)
  BY SaidFields
<1> HIDE DEF x
<1>5. /\ after \in Seq(Part) /\ after # << >> /\ Last(after).type = "text"
      /\ TextSaid(after) = TextSaid(said.parts) \o << x >>
      /\ CallsOf(after) = CallsOf(said.parts) /\ CountCalls(after) = CountCalls(said.parts)
  <2>1. CASE EndsWith("text")
    <3>1. after = [said.parts EXCEPT ![Len(said.parts)].text = Append(@, x)]
      BY <2>1 DEF WithText, EndsWith
    <3>2. said.parts # << >> /\ Last(said.parts).type = "text"
      BY <2>1 DEF EndsWith
    <3> HIDE DEF after
    <3> QED
      BY <1>1, <1>4, <3>1, <3>2, LongerText
  <2>2. CASE ~EndsWith("text")
    <3> DEFINE q == TextPart(<< x >>)
    <3>1. << x >> \in Seq(TextPiece)
      BY <1>1
    <3>2. q \in Part /\ q.type = "text" /\ q.text = << x >>
      BY <3>1 DEF TextPart, Part, TextPartType, Text
    <3>3. after = Append(said.parts, q)
      BY <2>2 DEF WithText, EndsWith
    <3> HIDE DEF q, after
    <3>4. Append(said.parts, q) \in Seq(Part) /\ Append(said.parts, q) # << >>
          /\ Last(Append(said.parts, q)) = q
      BY <1>4, <3>2 DEF Last
    <3>5. TextSaid(after) = TextSaid(said.parts) \o << x >>
      BY <1>4, <3>2, <3>3, SayOneMore
    <3>6. CallsOf(after) = CallsOf(said.parts) \o << >> /\ CallsOf(said.parts) \in Seq(CallPartType)
          /\ CountCalls(after) = CountCalls(said.parts) + 0 /\ CountCalls(said.parts) \in Nat
      BY <1>4, <3>2, <3>3, CallOneMore, CountOneMore
    <3> QED
      BY <3>2, <3>3, <3>4, <3>5, <3>6
  <2> QED
    BY <2>1, <2>2
<1> HIDE DEF after
<1>6. /\ said'.parts = after /\ said'.reason = said.reason /\ said'.begun = said.begun
      /\ said'.missed = said.missed
  BY <1>2
<1>7. said' \in SaidType
  <2>1. said.reason \in Reason \cup {None} /\ said.begun \in BOOLEAN /\ said.missed \in SUBSET Event
    BY SaidFields
  <2> QED
    BY <1>2, <1>5, <2>1 DEF SaidType
<1> QED
  BY <1>1, <1>3, <1>5, <1>6, <1>7 DEF x

LEMMA UseParts ==
  ASSUME Typed, Use("parts")
  PROVE  used' = [turns |-> used.turns, parts |-> used.parts + 1, lost |-> used.lost]
BY SaidFields DEF Use

(* More arguments are no new part either. *)
LEMMA MoreArguments ==
  ASSUME NEW parts, NEW x, parts \in Seq(Part), x \in ArgPiece,
         parts # << >>, Last(parts).type = "call"
  PROVE  LET p == Last(parts)
             q == [p EXCEPT !.args = @ \o << x >>]
         IN /\ p \in CallPartType /\ q \in CallPartType /\ Front(parts) \in Seq(Part)
            /\ parts = Append(Front(parts), p)
            /\ q.id = p.id /\ q.name = p.name /\ q.type = "call"
            /\ [parts EXCEPT ![Len(parts)].args = Append(@, x)] = Append(Front(parts), q)
<1> DEFINE p == Last(parts)
<1> DEFINE q == [p EXCEPT !.args = @ \o << x >>]
<1>1. Front(parts) \in Seq(Part) /\ p \in Part /\ parts = Append(Front(parts), p)
  BY FrontLast
<1>2. p \in CallPartType /\ p.args \in Seq(ArgPiece)
  BY <1>1, PartCases
<1>3. Append(p.args, x) = p.args \o << x >> /\ p.args \o << x >> \in Seq(ArgPiece)
  BY <1>2
<1>4. q \in CallPartType /\ q.id = p.id /\ q.name = p.name /\ q.type = "call"
  BY <1>2, <1>3 DEF CallPartType
<1>5. q \in Part
  BY <1>4 DEF Part
<1>6. [parts EXCEPT ![Len(parts)].args = Append(@, x)] = Append(Front(parts), q)
  <2>1. parts[Len(parts)] = p
    BY DEF Last
  <2>2. [parts EXCEPT ![Len(parts)].args = Append(@, x)]
          = [parts EXCEPT ![Len(parts)] = [parts[Len(parts)] EXCEPT !.args = Append(@, x)]]
    OBVIOUS
  <2>3. [parts[Len(parts)] EXCEPT !.args = Append(@, x)] = q
    BY <1>2, <1>3, <2>1
  <2> HIDE DEF q
  <2>4. [parts EXCEPT ![Len(parts)] = q] = Append(Front(parts), q)
    BY <1>5, ChangeLast
  <2> QED
    BY <2>2, <2>3, <2>4
<1> QED
  BY <1>1, <1>2, <1>4, <1>6

(* What SayArguments changes: the last part only. *)
LEMMA SayArgumentsParts ==
  ASSUME Typed, NEW piece \in {Piece("args"), Closing}, SayArguments(piece)
  PROVE  LET p == Last(said.parts)
             q == [p EXCEPT !.args = @ \o << piece >>]
         IN /\ said' = [parts |-> Append(Front(said.parts), q), reason |-> said.reason,
                        begun |-> said.begun, missed |-> said.missed]
            /\ said.begun /\ said.reason = None /\ phase = "open" /\ asked.proto # "gemini"
            /\ EndsWith("call")
            /\ piece \in ArgPiece
            /\ p \in CallPartType /\ q \in CallPartType /\ Front(said.parts) \in Seq(Part)
            /\ said.parts = Append(Front(said.parts), p)
            /\ q.id = p.id /\ q.name = p.name /\ q.type = "call"
<1> DEFINE p == Last(said.parts)
<1> DEFINE q == [p EXCEPT !.args = @ \o << piece >>]
<1> DEFINE after == [said.parts EXCEPT ![Len(said.parts)].args = Append(@, piece)]
<1>1. piece \in ArgPiece
  BY SaidFields DEF Piece, ArgPiece
<1>2. said.begun /\ said.reason = None /\ phase = "open" /\ asked.proto # "gemini" /\ EndsWith("call")
  BY DEF SayArguments, StillSaying, Stopped, CallOpen, Open
<1>3. said.parts \in Seq(Part) /\ said.parts # << >> /\ Last(said.parts).type = "call"
  BY <1>2, SaidFields DEF EndsWith
<1>4. /\ p \in CallPartType /\ q \in CallPartType /\ Front(said.parts) \in Seq(Part)
      /\ said.parts = Append(Front(said.parts), p)
      /\ q.id = p.id /\ q.name = p.name /\ q.type = "call"
      /\ after = Append(Front(said.parts), q)
  BY <1>1, <1>3, MoreArguments
<1>5. said' = [parts |-> after, reason |-> said.reason, begun |-> said.begun,
               missed |-> said.missed]
  BY SaidFields DEF SayArguments
<1> HIDE DEF p, q, after
<1> QED
  BY <1>1, <1>2, <1>4, <1>5 DEF p, q

----------------------------------------------------------------------------
(* The invariant of an answer. *)

Answering == phase \in {"open", "ended"} /\ asked.streaming

(* How many calls were written. *)
Written == IF asked.proto = "openai" THEN CountCalls(said.parts) ELSE tr.next

SaidWell ==
  phase \in {"open", "ended"} =>
    /\ said.missed # {} => asked.proto # "openai" /\ asked.streaming
    /\ asked.proto = "gemini" => said.missed \subseteq {"chunk"}
    /\ ~said.begun => /\ said.parts = << >> /\ said.reason = None
                      /\ asked.proto # "gemini" => said.missed = {}

(* Every block has an index already given out, and the block of the call that
   is open has the last one. *)
Numbers ==
  asked.proto = "anthropic" =>
    /\ \A b \in DOMAIN tr.index : tr.index[b] \in 0 .. tr.next - 1
    /\ ~Garbled(said.missed) /\ EndsWith("call") =>
         /\ Len(said.parts) - 1 \in DOMAIN tr.index
         /\ tr.index[Len(said.parts) - 1] = tr.next - 1

StreamInv ==
  /\ ~Answering => out = << >>
  /\ Answering =>
       /\ Told(out, said.parts, Written, said.missed)
       /\ "finish" \in Kinds(out) /\ asked.proto # "gemini" => Stopped

OpenInv ==
  phase = "open" /\ asked.streaming =>
    /\ Numbers
    /\ ~said.begun => out = << >>
    /\ said.begun => Begun(out, said.missed)
    /\ said.reason = None \/ asked.proto # "openai" => "finish" \notin Kinds(out)
    /\ asked.proto = "gemini" => tr.roleSent = said.begun

OutcomeInv == outcome = "ok" => phase = "ended" /\ (~asked.streaming => said.reason # None)

AnswerInv == Typed /\ SaidWell /\ StreamInv /\ OpenInv /\ OutcomeInv

(* The provers see Next's actions of an answer alike: the request stays. *)
LEMMA AnswerTyped ==
  ASSUME Typed, phase = "open", conv' = conv, params' = params, asked' = asked,
         phase' \in {"open", "ended"}, outcome' \in {"none", "ok", "failed"},
         used' \in [turns : 0 .. MaxTurns, parts : 0 .. MaxParts, lost : 0 .. MaxLost],
         said' \in SaidType, out' \in Seq(Chunk),
         IF asked.proto = "gemini" THEN tr' \in GeminiTr ELSE tr' \in AnthropicTr
  PROVE  Typed'
BY DEF Typed

LEMMA WrittenNat ==
  ASSUME Typed, phase = "open"
  PROVE  /\ Written \in Nat /\ out \in Seq(Chunk) /\ said \in SaidType
         /\ IF asked.proto = "gemini" THEN tr \in GeminiTr ELSE tr \in AnthropicTr
         /\ used \in [turns : 0 .. MaxTurns, parts : 0 .. MaxParts, lost : 0 .. MaxLost]
         /\ outcome \in {"none", "ok", "failed"}
         /\ CountCalls(said.parts) \in Nat
<1>1. /\ out \in Seq(Chunk) /\ said \in SaidType
      /\ IF asked.proto = "gemini" THEN tr \in GeminiTr ELSE tr \in AnthropicTr
      /\ used \in [turns : 0 .. MaxTurns, parts : 0 .. MaxParts, lost : 0 .. MaxLost]
      /\ outcome \in {"none", "ok", "failed"}
  BY DEF Typed
<1>2. CountCalls(said.parts) \in Nat
  <2>1. said.parts \in Seq(Part)
    BY SaidFields
  <2>2. RoleChunk \in Chunk
    BY SimpleChunks
  <2>3. PICK p : p \in Part
    <3>1. << >> \in Text
      BY DEF Text
    <3>2. [type |-> "text", text |-> << >>] \in Part
      BY <3>1 DEF Part, TextPartType
    <3> QED
      BY <3>2
  <2> QED
    BY <2>1, <2>3, CountOneMore
<1>3. tr.next \in Nat
  BY <1>1 DEF GeminiTr, AnthropicTr
<1> QED
  BY <1>1, <1>2, <1>3 DEF Written

(* What an open stream may still be ended with. *)
LEMMA NotEnded ==
  ASSUME AnswerInv, phase = "open", asked.streaming
  PROVE  /\ "done" \notin Kinds(out) /\ "error" \notin Kinds(out)
         /\ said.reason = None \/ asked.proto # "openai" => "finish" \notin Kinds(out)
         /\ Told(out, said.parts, Written, said.missed)
         /\ said.begun => Begun(out, said.missed)
         /\ ~said.begun => out = << >>
<1>1. OpenInv /\ StreamInv /\ Typed
  BY DEF AnswerInv
<1>2. /\ ~said.begun => out = << >>
      /\ said.begun => Begun(out, said.missed)
      /\ said.reason = None \/ asked.proto # "openai" => "finish" \notin Kinds(out)
  BY <1>1 DEF OpenInv
<1>3. said.begun \in BOOLEAN
  BY <1>1, SaidFields
<1>4. CASE said.begun
  BY <1>1, <1>2, <1>4 DEF Begun, StreamInv, Answering
<1>5. CASE ~said.begun
  <2>1. Kinds(out) = {}
    BY <1>2, <1>5, NothingWritten
  <2> QED
    BY <1>1, <1>2, <1>5, <2>1 DEF StreamInv, Answering
<1> QED
  BY <1>3, <1>4, <1>5

(* The first event of an answer keeps the invariant. *)
LEMMA BeginKeeps ==
  ASSUME AnswerInv, Begin
  PROVE  AnswerInv'
<1>1. Typed /\ SaidWell /\ StreamInv /\ OpenInv /\ OutcomeInv
  BY DEF AnswerInv
<1>2. phase = "open" /\ ~said.begun /\ asked.proto # "gemini"
  BY DEF Begin, Open
<1>3. conv' = conv /\ params' = params /\ phase' = phase /\ asked' = asked
      /\ outcome' = outcome /\ used' = used
  BY DEF Begin
<1>4. said.parts = << >> /\ said.reason = None /\ said.missed = {}
  BY <1>1, <1>2, SaidFields DEF SaidWell
<1>5. said' = [parts |-> << >>, reason |-> None, begun |-> TRUE, missed |-> {}]
  BY <1>1, <1>4, SaidFields DEF Begin
<1>6. /\ tr' = tr
      /\ asked.streaming => out' = Append(out, RoleChunk)
      /\ ~asked.streaming => out' = out
  BY <1>1, BeginEmits
<1>7. asked.streaming =>
        /\ Begun(out', said'.missed) /\ "finish" \notin Kinds(out') /\ Told(out', << >>, 0, said'.missed)
  <2> SUFFICES ASSUME asked.streaming
               PROVE  Begun(out', said'.missed) /\ "finish" \notin Kinds(out') /\ Told(out', << >>, 0, said'.missed)
    OBVIOUS
  <2>1. out = << >>
    BY <1>2, NotEnded
  <2> QED
    BY <1>6, <2>1, RoleTold
<1>8. asked.streaming => Written = 0 /\ Written' = 0
  <2> SUFFICES ASSUME asked.streaming
               PROVE  Written = 0 /\ Written' = 0
    OBVIOUS
  <2>1. Told(out, << >>, Written, said.missed) /\ Written \in Nat /\ out = << >>
    BY <1>1, <1>2, <1>4, NotEnded, WrittenNat
  <2>2. Indexes(out) = 0 .. Written - 1 /\ Indexes(out) = {}
    BY <2>1, NothingWritten DEF Told, Carries
  <2>3. Written = 0
    <3>1. Written # 0 => 0 \in 0 .. Written - 1
      BY <2>1
    <3> QED
      BY <2>2, <3>1
  <2>4. said'.parts = said.parts
    BY <1>4, <1>5
  <2> QED
    BY <1>3, <1>6, <2>3, <2>4 DEF Written
<1>9. Typed'
  <2>1. << >> \in Seq(Part)
    OBVIOUS
  <2>2. said' \in SaidType
    BY <1>5, <2>1 DEF SaidType
  <2>3. out' \in Seq(Chunk)
    BY <1>1, <1>2, <1>6, <1>7, WrittenNat, SaidFields DEF Told
  <2> QED
    BY <1>1, <1>2, <1>3, <1>6, <2>2, <2>3, AnswerTyped, WrittenNat
<1>10. SaidWell'
  BY <1>5 DEF SaidWell
<1>11. StreamInv'
  <2>1. Answering' <=> Answering
    BY <1>3 DEF Answering
  <2>2. ~Answering => out' = << >>
    BY <1>1, <1>2, <1>6 DEF StreamInv, Answering
  <2>3. Answering => Told(out', said'.parts, Written', said'.missed) /\ "finish" \notin Kinds(out')
    BY <1>5, <1>7, <1>8 DEF Answering
  <2> QED
    BY <2>1, <2>2, <2>3 DEF StreamInv
<1>12. OpenInv'
  <2>1. asked.streaming => Numbers'
    <3> SUFFICES ASSUME asked.streaming, asked.proto = "anthropic"
                 PROVE  /\ \A b \in DOMAIN tr.index : tr.index[b] \in 0 .. tr.next - 1
                        /\ ~EndsWith("call")'
      BY <1>3, <1>6 DEF Numbers
    <3>1. Numbers
      BY <1>1, <1>2 DEF OpenInv
    <3> QED
      BY <1>5, <3>1 DEF Numbers, EndsWith
  <2> QED
    BY <1>2, <1>3, <1>5, <1>7, <2>1 DEF OpenInv
<1>13. OutcomeInv'
  BY <1>1, <1>2, <1>3 DEF OutcomeInv
<1> QED
  BY <1>9, <1>10, <1>11, <1>12, <1>13 DEF AnswerInv

(* Text keeps the invariant. *)
LEMMA SayTextKeeps ==
  ASSUME AnswerInv, SayText
  PROVE  AnswerInv'
<1>1. Typed /\ SaidWell /\ StreamInv /\ OpenInv /\ OutcomeInv
  BY DEF AnswerInv
<1>2. /\ said'.reason = said.reason /\ said'.begun = said.begun
      /\ said'.missed = said.missed /\ said' \in SaidType
      /\ said.begun /\ said.reason = None /\ phase = "open" /\ asked.proto # "gemini"
      /\ Piece("model") \in TextPiece
      /\ said'.parts \in Seq(Part) /\ said'.parts # << >> /\ Last(said'.parts).type = "text"
      /\ TextSaid(said'.parts) = TextSaid(said.parts) \o << Piece("model") >>
      /\ CallsOf(said'.parts) = CallsOf(said.parts)
      /\ CountCalls(said'.parts) = CountCalls(said.parts)
  BY <1>1, SayTextParts
<1>3. conv' = conv /\ params' = params /\ phase' = phase /\ asked' = asked /\ outcome' = outcome
  BY DEF SayText
<1>4. /\ tr' = tr
      /\ asked.streaming => out' = Append(out, TextChunk(<< Piece("model") >>))
      /\ ~asked.streaming => out' = out
  BY <1>1, SayTextEmits
<1>5. said'.reason = said.reason /\ said'.begun = said.begun /\ said'.missed = said.missed
  BY <1>2
<1>6. Written' = Written /\ Written \in Nat
  BY <1>1, <1>2, <1>3, <1>4, WrittenNat DEF Written
<1>7. asked.streaming =>
        /\ Told(out', said'.parts, Written, said'.missed)
        /\ Begun(out', said'.missed) /\ "finish" \notin Kinds(out')
  <2> SUFFICES ASSUME asked.streaming
               PROVE  /\ Told(out', said'.parts, Written, said'.missed)
                      /\ Begun(out', said'.missed) /\ "finish" \notin Kinds(out')
    OBVIOUS
  <2> DEFINE t == << Piece("model") >>
  <2>1. t \in Seq(TextPiece)
    BY <1>2
  <2>2. TextSaid(said'.parts) = TextSaid(said.parts) \o t /\ out' = Append(out, TextChunk(t))
    BY <1>2, <1>4
  <2> HIDE DEF t
  <2>3. Begun(out, said.missed) /\ "finish" \notin Kinds(out) /\ Told(out, said.parts, Written, said.missed)
    BY <1>2, NotEnded
  <2> QED
    BY <1>2, <1>6, <2>1, <2>2, <2>3, TextTold
<1>8. Typed'
  <2>1. said' \in SaidType
    BY <1>2
  <2>2. out' \in Seq(Chunk)
    BY <1>1, <1>2, <1>4, <1>7, WrittenNat, SaidFields DEF Told
  <2>3. used' \in [turns : 0 .. MaxTurns, parts : 0 .. MaxParts, lost : 0 .. MaxLost]
    <3>1. used' = [turns |-> used.turns, parts |-> used.parts + 1, lost |-> used.lost]
      BY <1>1, UseParts DEF SayText
    <3>2. used \in [turns : 0 .. MaxTurns, parts : 0 .. MaxParts, lost : 0 .. MaxLost]
      BY <1>1 DEF Typed
    <3>3. used.parts < MaxParts
      BY DEF SayText, StillSaying
    <3> QED
      BY <3>1, <3>2, <3>3, Bounds
  <2> QED
    BY <1>1, <1>2, <1>3, <1>4, <2>1, <2>2, <2>3, AnswerTyped, WrittenNat
<1>9. SaidWell'
  BY <1>1, <1>2, <1>3, <1>5 DEF SaidWell
<1>10. StreamInv'
  <2>1. Answering' <=> Answering
    BY <1>3 DEF Answering
  <2>2. ~Answering => out' = << >>
    BY <1>1, <1>2, <1>4 DEF StreamInv, Answering
  <2>3. Answering => Told(out', said'.parts, Written', said'.missed) /\ "finish" \notin Kinds(out')
    BY <1>5, <1>6, <1>7 DEF Answering
  <2> QED
    BY <2>1, <2>2, <2>3 DEF StreamInv
<1>11. OpenInv'
  <2>1. asked.streaming => Numbers'
    <3> SUFFICES ASSUME asked.streaming, asked.proto = "anthropic"
                 PROVE  /\ \A b \in DOMAIN tr.index : tr.index[b] \in 0 .. tr.next - 1
                        /\ ~EndsWith("call")'
      BY <1>3, <1>4 DEF Numbers
    <3>1. Numbers
      BY <1>1, <1>2 DEF OpenInv
    <3> QED
      BY <1>2, <3>1 DEF Numbers, EndsWith
  <2> QED
    BY <1>2, <1>3, <1>5, <1>7, <2>1 DEF OpenInv
<1>12. OutcomeInv'
  BY <1>1, <1>2, <1>3 DEF OutcomeInv
<1> QED
  BY <1>8, <1>9, <1>10, <1>11, <1>12 DEF AnswerInv

(* What the answer misses after the beginning of a call. *)
Miss(readable) ==
  IF readable THEN said.missed ELSE said.missed \cup {"content_block_start"}

(* What SayCall adds to the answer: a call with an id of its own. *)
LEMMA SayCallParts ==
  ASSUME Typed, NEW name \in Name, NEW readable \in BOOLEAN, SayCall(name, readable)
  PROVE  LET p == CallPart(Piece("id"), name, << >>)
         IN /\ p \in CallPartType /\ p \in Part /\ p.type = "call" /\ p.id = Piece("id")
            /\ p.id \in Id /\ p.id # None /\ p.name = name /\ p.args = << >>
            /\ said' \in SaidType
            /\ said'.parts = Append(said.parts, p)
            /\ said'.reason = said.reason /\ said'.begun = said.begun
            /\ said'.missed = Miss(readable)
            /\ said.begun /\ said.reason = None /\ phase = "open" /\ asked.proto # "gemini"
            /\ used' \in [turns : 0 .. MaxTurns, parts : 0 .. MaxParts, lost : 0 .. MaxLost]
            /\ used'.parts = used.parts + 1 /\ used'.turns = used.turns
<1> DEFINE p == CallPart(Piece("id"), name, << >>)
<1>1. Piece("id") \in Id
  BY SaidFields DEF Piece, Id
<1>2. << >> \in Seq(ArgPiece)
  OBVIOUS
<1>3. p = [type |-> "call", id |-> Piece("id"), name |-> name, args |-> << >>]
  BY DEF CallPart
<1>4. p \in CallPartType /\ p.type = "call" /\ p.id = Piece("id") /\ p.name = name /\ p.args = << >>
  <2>1. p \in CallPartType
    <3> DEFINE i == Piece("id")
    <3>1. i \in Id \cup {None} /\ p = [type |-> "call", id |-> i, name |-> name, args |-> << >>]
      BY <1>1, <1>3
    <3> HIDE DEF i, p
    <3> QED
      BY <1>2, <3>1 DEF CallPartType
  <2> QED
    BY <1>3, <2>1
<1>5. p \in Part /\ p.id \in Id /\ p.id # None
  BY <1>1, <1>4, Bounds DEF Part
<1> HIDE DEF p
<1>6. said' = [parts |-> Append(said.parts, p), reason |-> said.reason, begun |-> said.begun,
               missed |-> Miss(readable)]
  BY SaidFields DEF SayCall, Miss, p
<1>7. said.begun /\ said.reason = None /\ phase = "open" /\ asked.proto # "gemini"
      /\ used.parts < MaxParts
  BY DEF SayCall, StillSaying, Stopped, Open
<1>8. said' \in SaidType
  <2>1. Append(said.parts, p) \in Seq(Part) /\ said.reason \in Reason \cup {None}
        /\ said.begun \in BOOLEAN /\ Miss(readable) \in SUBSET Event
    BY <1>5, SaidFields DEF Miss, Event
  <2> QED
    BY <1>6, <2>1 DEF SaidType
<1>9. used' = [turns |-> used.turns, parts |-> used.parts + 1,
               lost |-> IF readable THEN used.lost ELSE used.lost + 1]
  BY SaidFields DEF SayCall
<1>10. used' \in [turns : 0 .. MaxTurns, parts : 0 .. MaxParts, lost : 0 .. MaxLost]
  <2>1. used \in [turns : 0 .. MaxTurns, parts : 0 .. MaxParts, lost : 0 .. MaxLost]
    BY DEF Typed
  <2>2. ~readable => used.lost < MaxLost
    BY DEF SayCall, MayMiss
  <2> QED
    BY <1>7, <1>9, <2>1, <2>2, Bounds
<1> QED
  BY <1>4, <1>5, <1>6, <1>7, <1>8, <1>9, <1>10 DEF p

(* Only a stream of Anthropic misses the beginning of a call. *)
LEMMA GarbledIsAnthropic ==
  ASSUME AnswerInv, phase \in {"open", "ended"}
  PROVE  /\ said.missed \in SUBSET Event
         /\ asked.proto # "anthropic" \/ ~asked.streaming => ~Garbled(said.missed)
<1>1. SaidWell /\ said.missed \in SUBSET Event /\ asked.proto \in {"anthropic", "gemini", "openai"}
  BY SaidFields DEF AnswerInv
<1> QED
  BY <1>1 DEF SaidWell, Garbled

LEMMA NumberedNumbers ==
  ASSUME NEW t, NEW b, t \in AnthropicTr, b \in Nat,
         \A x \in DOMAIN t.index : t.index[x] \in 0 .. t.next - 1
  PROVE  /\ Numbered(t, b) \in AnthropicTr /\ Numbered(t, b).next = t.next + 1
         /\ b \in DOMAIN Numbered(t, b).index
         /\ Numbered(t, b).index[b] = t.next
         /\ \A x \in DOMAIN Numbered(t, b).index : Numbered(t, b).index[x] \in 0 .. t.next
<1>1. t.next \in Nat
  BY DEF AnthropicTr
<1>2. Numbered(t, b) \in AnthropicTr
  BY NumbersOneMore
<1>3. Numbered(t, b).next = t.next + 1 /\ b \in DOMAIN Numbered(t, b).index
      /\ Numbered(t, b).index[b] = t.next
  BY DEF Numbered
<1>4. \A x \in DOMAIN Numbered(t, b).index : Numbered(t, b).index[x] \in 0 .. t.next
  <2> SUFFICES ASSUME NEW x \in DOMAIN Numbered(t, b).index
               PROVE  Numbered(t, b).index[x] \in 0 .. t.next
    OBVIOUS
  <2>1. CASE x = b
    BY <1>1, <1>3, <2>1
  <2>2. CASE x # b
    <3>1. x \in DOMAIN t.index /\ Numbered(t, b).index[x] = t.index[x]
      BY <2>2 DEF Numbered
    <3> QED
      BY <1>1, <3>1
  <2> QED
    BY <2>1, <2>2
<1> QED
  BY <1>2, <1>3, <1>4

(* A call, readable or not, keeps the invariant. *)
LEMMA SayCallKeeps ==
  ASSUME AnswerInv, NEW name \in Name, NEW readable \in BOOLEAN, SayCall(name, readable)
  PROVE  AnswerInv'
<1> DEFINE p == CallPart(Piece("id"), name, << >>)
<1>1. Typed /\ SaidWell /\ StreamInv /\ OpenInv /\ OutcomeInv
  BY DEF AnswerInv
<1>2. /\ p \in CallPartType /\ p \in Part /\ p.type = "call" /\ p.id = Piece("id")
      /\ p.id \in Id /\ p.id # None /\ p.name = name /\ p.args = << >>
      /\ said' \in SaidType
      /\ said'.parts = Append(said.parts, p)
      /\ said'.reason = said.reason /\ said'.begun = said.begun
      /\ said'.missed = Miss(readable)
      /\ said.begun /\ said.reason = None /\ phase = "open" /\ asked.proto # "gemini"
      /\ used' \in [turns : 0 .. MaxTurns, parts : 0 .. MaxParts, lost : 0 .. MaxLost]
  BY <1>1, SayCallParts
<1>3. conv' = conv /\ params' = params /\ phase' = phase /\ asked' = asked /\ outcome' = outcome
  BY DEF SayCall
<1> HIDE DEF p
<1>4. LET index == IF asked.proto = "openai" THEN CountCalls(said.parts) ELSE tr.next
      IN /\ ~readable => asked.proto = "anthropic" /\ asked.streaming /\ tr' = tr /\ out' = out
         /\ readable /\ asked.streaming =>
              /\ tr' = IF asked.proto = "openai" THEN tr ELSE Numbered(tr, Len(said.parts))
              /\ out' = Append(out, CallChunk(index, Piece("id"), name, << >>))
         /\ ~asked.streaming => tr' = tr /\ out' = out
  BY <1>1, SayCallEmits
<1>5. said.parts \in Seq(Part) /\ said.missed \in SUBSET Event /\ asked.streaming \in BOOLEAN
      /\ asked.proto \in {"anthropic", "openai"} /\ Len(said.parts) \in Nat
  BY <1>1, <1>2, SaidFields
<1>6. /\ Written \in Nat /\ CountCalls(said.parts) \in Nat
      /\ asked.proto = "anthropic" => tr \in AnthropicTr /\ tr.next \in Nat /\ Written = tr.next
      /\ asked.proto = "openai" => Written = CountCalls(said.parts) /\ tr \in AnthropicTr
  BY <1>1, <1>2, <1>5, WrittenNat DEF Written, AnthropicTr
<1>7. CountCalls(said'.parts) = CountCalls(said.parts) + 1
      /\ Len(said'.parts) = Len(said.parts) + 1
      /\ TextSaid(said'.parts) = TextSaid(said.parts)
  <2>1. CountCalls(said'.parts) = CountCalls(said.parts) + 1
    BY <1>2, <1>5, CountOneMore
  <2>2. TextSaid(said'.parts) = TextSaid(said.parts) \o << >> /\ TextSaid(said.parts) \in Seq(TextPiece)
    BY <1>2, <1>5, SayOneMore
  <2> QED
    BY <1>2, <1>5, <2>1, <2>2
<1>8. OpenInv /\ (asked.streaming => Numbers)
  BY <1>1, <1>2 DEF OpenInv
<1>9. asked.streaming =>
        /\ Told(out', said'.parts, Written', said'.missed)
        /\ Begun(out', said'.missed) /\ "finish" \notin Kinds(out')
        /\ Numbers'
        /\ tr' \in AnthropicTr
  <2> SUFFICES ASSUME asked.streaming
               PROVE  /\ Told(out', said'.parts, Written', said'.missed)
                      /\ Begun(out', said'.missed) /\ "finish" \notin Kinds(out')
                      /\ Numbers'
                      /\ tr' \in AnthropicTr
    OBVIOUS
  <2>1. Begun(out, said.missed) /\ "finish" \notin Kinds(out) /\ Told(out, said.parts, Written, said.missed)
    BY <1>2, NotEnded
  <2>2. CASE ~readable
    <3> DEFINE more == said.missed \cup {"content_block_start"}
    <3>1. tr' = tr /\ out' = out /\ asked.proto = "anthropic" /\ said'.missed = more
      BY <1>2, <1>4, <2>2 DEF Miss
    <3>5. Garbled(more)
      BY MissingMore
    <3>6. Begun(out, more)
      BY <2>1, MissedBegun
    <3>2. Written' = Written
      BY <1>3, <1>6, <3>1 DEF Written
    <3>3. Told(out, said'.parts, Written, more)
      BY <1>7, <2>1, SkippedTold
    <3> HIDE DEF more
    <3>4. Numbers'
      BY <1>3, <1>8, <3>1, <3>5 DEF Numbers
    <3> QED
      BY <1>6, <2>1, <3>1, <3>2, <3>3, <3>4, <3>6
  <2>3. CASE readable
    <3> DEFINE c == CallChunk(Written, p.id, p.name, p.args)
    <3>1. out' = Append(out, c) /\ said'.missed = said.missed
      BY <1>2, <1>4, <1>5, <1>6, <2>3 DEF Miss
    <3>2. /\ Told(Append(out, c), Append(said.parts, p), Written + 1, said.missed)
          /\ Begun(Append(out, c), said.missed) /\ "finish" \notin Kinds(Append(out, c))
      BY <1>2, <1>5, <1>6, <2>1, Bounds, CallTold
    <3> HIDE DEF c
    <3>3. CASE asked.proto = "openai"
      <4>1. tr' = tr /\ Written' = Written + 1
        BY <1>3, <1>4, <1>6, <1>7, <2>3, <3>3 DEF Written
      <4>2. Numbers'
        BY <1>3, <3>3 DEF Numbers
      <4> QED
        BY <1>2, <1>6, <3>1, <3>2, <3>3, <4>1, <4>2
    <3>4. CASE asked.proto = "anthropic"
      <4>1. tr' = Numbered(tr, Len(said.parts))
        BY <1>4, <2>3, <3>4
      <4>2. \A x \in DOMAIN tr.index : tr.index[x] \in 0 .. tr.next - 1
        BY <1>8, <3>4 DEF Numbers
      <4>3. /\ tr' \in AnthropicTr /\ tr'.next = tr.next + 1
            /\ Len(said.parts) \in DOMAIN tr'.index
            /\ tr'.index[Len(said.parts)] = tr.next
            /\ \A x \in DOMAIN tr'.index : tr'.index[x] \in 0 .. tr.next
        BY <1>5, <1>6, <3>4, <4>1, <4>2, NumberedNumbers
      <4>4. Written' = Written + 1
        BY <1>3, <1>6, <3>4, <4>3 DEF Written
      <4>5. Len(said'.parts) - 1 = Len(said.parts) /\ tr'.next - 1 = tr.next
        BY <1>5, <1>6, <1>7, <3>4, <4>3
      <4>6. Numbers'
        BY <4>3, <4>5 DEF Numbers
      <4> QED
        BY <1>2, <3>1, <3>2, <4>3, <4>4, <4>6
    <3> QED
      BY <1>5, <3>3, <3>4
  <2> QED
    BY <2>2, <2>3
<1>10. Typed'
  <2>1. out' \in Seq(Chunk)
    BY <1>1, <1>2, <1>4, <1>5, <1>9, WrittenNat DEF Told
  <2>2. tr' \in AnthropicTr
    BY <1>4, <1>5, <1>6, <1>9
  <2> QED
    BY <1>1, <1>2, <1>3, <2>1, <2>2, AnswerTyped, WrittenNat
<1>11. SaidWell'
  <2>1. ~readable => asked.proto = "anthropic" /\ asked.streaming
    BY <1>4
  <2> QED
    BY <1>1, <1>2, <1>3, <2>1 DEF SaidWell, Miss
<1>12. StreamInv'
  <2>1. Answering' <=> Answering
    BY <1>3 DEF Answering
  <2>2. ~Answering => out' = << >>
    BY <1>1, <1>2, <1>4 DEF StreamInv, Answering
  <2>3. Answering => Told(out', said'.parts, Written', said'.missed) /\ "finish" \notin Kinds(out')
    BY <1>9 DEF Answering
  <2> QED
    BY <2>1, <2>2, <2>3 DEF StreamInv
<1>13. OpenInv'
  BY <1>2, <1>3, <1>9 DEF OpenInv
<1>14. OutcomeInv'
  BY <1>1, <1>2, <1>3 DEF OutcomeInv
<1> QED
  BY <1>10, <1>11, <1>12, <1>13, <1>14 DEF AnswerInv

LEMMA AppendLength ==
  ASSUME NEW U, NEW s, NEW x, s \in Seq(U), x \in U
  PROVE  Len(Append(s, x)) = Len(s) + 1 /\ Len(s) \in Nat /\ Append(s, x) \in Seq(U)
         /\ Last(Append(s, x)) = x /\ Append(s, x) # << >>
BY DEF Last

(* Arguments keep the invariant: they reach the call that is open, by its
   index. *)
LEMMA SayArgumentsKeeps ==
  ASSUME AnswerInv, NEW piece \in {Piece("args"), Closing}, SayArguments(piece)
  PROVE  AnswerInv'
<1> DEFINE f == Front(said.parts)
<1> DEFINE p == Last(said.parts)
<1> DEFINE q == [p EXCEPT !.args = @ \o << piece >>]
<1> DEFINE block == Len(said.parts) - 1
<1> DEFINE args == << piece >>
<1>1. Typed /\ SaidWell /\ StreamInv /\ OpenInv /\ OutcomeInv
  BY DEF AnswerInv
<1>2. /\ said' = [parts |-> Append(f, q), reason |-> said.reason, begun |-> said.begun,
                  missed |-> said.missed]
      /\ said.begun /\ said.reason = None /\ phase = "open" /\ asked.proto # "gemini"
      /\ EndsWith("call") /\ piece \in ArgPiece
      /\ p \in CallPartType /\ q \in CallPartType /\ f \in Seq(Part) /\ said.parts = Append(f, p)
      /\ q.id = p.id /\ q.name = p.name /\ q.type = "call"
  BY <1>1, SayArgumentsParts
<1>3. conv' = conv /\ params' = params /\ phase' = phase /\ asked' = asked /\ outcome' = outcome
  BY DEF SayArguments
<1>4. /\ asked.proto \in {"anthropic", "openai"} /\ block \in Nat
      /\ asked.streaming /\ asked.proto = "openai" =>
           /\ tr' = tr
           /\ out' = Append(out, CallChunk(CountCalls(said.parts) - 1, None, None, args))
      /\ asked.streaming /\ asked.proto = "anthropic" /\ block \in DOMAIN tr.index =>
           /\ tr' = tr
           /\ out' = Append(out, CallChunk(tr.index[block], None, None, args))
      /\ asked.streaming /\ asked.proto = "anthropic" /\ block \notin DOMAIN tr.index =>
           /\ tr' = Numbered(tr, block)
           /\ out' = Append(out, CallChunk(tr.next, None, None, args))
      /\ ~asked.streaming => tr' = tr /\ out' = out
  BY <1>1, SayArgumentsEmits
<1>5. args \in Seq(ArgPiece)
  BY <1>2
<1>6. q = [p EXCEPT !.args = @ \o args]
  OBVIOUS
<1>7. block = Len(said.parts) - 1 /\ EndsWith("call") /\ p \in Part /\ q \in Part
      /\ p.type = "call"
  BY <1>2 DEF Part, CallPartType
<1> HIDE DEF f, p, q, block, args
<1>8. said.parts \in Seq(Part) /\ said.missed \in SUBSET Event /\ asked.streaming \in BOOLEAN
      /\ said.reason \in Reason \cup {None} /\ said.begun \in BOOLEAN
  BY <1>1, SaidFields
<1>9. said'.parts = Append(f, q) /\ said'.reason = said.reason /\ said'.begun = said.begun
      /\ said'.missed = said.missed
  BY <1>2
<1>10. /\ Len(said'.parts) = Len(said.parts) /\ said'.parts \in Seq(Part)
       /\ Len(said.parts) = Len(f) + 1 /\ Len(f) \in Nat
  BY <1>2, <1>7, <1>9, AppendLength
<1>11. /\ Written \in Nat /\ CountCalls(said.parts) \in Nat
       /\ asked.proto = "anthropic" => tr \in AnthropicTr /\ tr.next \in Nat /\ Written = tr.next
       /\ asked.proto = "openai" => Written = CountCalls(said.parts) /\ tr \in AnthropicTr
  BY <1>1, <1>2, <1>4, WrittenNat DEF Written, AnthropicTr
<1>12. CountCalls(said'.parts) = CountCalls(said.parts) /\ TextSaid(said'.parts) = TextSaid(said.parts)
  <2>1. /\ CountCalls(Append(f, q)) = CountCalls(f) + 1 /\ CountCalls(Append(f, p)) = CountCalls(f) + 1
        /\ TextSaid(Append(f, q)) = TextSaid(f) \o << >> /\ TextSaid(Append(f, p)) = TextSaid(f) \o << >>
    BY <1>2, <1>7, CountOneMore, SayOneMore
  <2> QED
    BY <1>2, <1>9, <2>1
<1>13. OpenInv /\ (asked.streaming => Numbers)
  BY <1>1, <1>2 DEF OpenInv
<1>14. asked.streaming =>
         /\ Told(out', said'.parts, Written', said'.missed)
         /\ Begun(out', said'.missed) /\ "finish" \notin Kinds(out')
         /\ Numbers'
         /\ tr' \in AnthropicTr
  <2> SUFFICES ASSUME asked.streaming
               PROVE  /\ Told(out', said'.parts, Written', said'.missed)
                      /\ Begun(out', said'.missed) /\ "finish" \notin Kinds(out')
                      /\ Numbers'
                      /\ tr' \in AnthropicTr
    OBVIOUS
  <2>1. Begun(out, said.missed) /\ "finish" \notin Kinds(out) /\ Told(out, said.parts, Written, said.missed)
    BY <1>2, NotEnded
  <2>2. CASE ~Garbled(said.missed)
    <3> DEFINE c == CallChunk(Written - 1, None, None, args)
    <3>1. Told(out, Append(f, p), Written, said.missed)
      BY <1>2, <2>1
    <3>2. /\ Told(Append(out, c), Append(f, [p EXCEPT !.args = @ \o args]), Written, said.missed)
          /\ Begun(Append(out, c), said.missed) /\ "finish" \notin Kinds(Append(out, c))
      BY <1>2, <1>5, <1>11, <2>1, <2>2, <3>1, ArgumentsTold
    <3>3. CASE asked.proto = "openai"
      <4>1. tr' = tr /\ out' = Append(out, c)
        BY <1>4, <1>11, <3>3
      <4>2. Written' = Written
        BY <1>3, <1>11, <1>12, <3>3 DEF Written
      <4>3. Numbers'
        BY <1>3, <3>3 DEF Numbers
      <4> HIDE DEF c
      <4> QED
        BY <1>6, <1>9, <1>11, <2>2, <3>2, <3>3, <4>1, <4>2, <4>3
    <3>4. CASE asked.proto = "anthropic"
      <4>1. block \in DOMAIN tr.index /\ tr.index[block] = tr.next - 1
        BY <1>7, <1>13, <2>2, <3>4 DEF Numbers
      <4>2. tr' = tr /\ out' = Append(out, c)
        BY <1>4, <1>11, <3>4, <4>1
      <4>3. Written' = Written
        BY <1>3, <1>11, <3>4, <4>2 DEF Written
      <4>4. Numbers'
        BY <1>3, <1>9, <1>10, <1>13, <1>7, <4>1, <4>2 DEF Numbers
      <4> HIDE DEF c
      <4> QED
        BY <1>6, <1>9, <1>11, <2>2, <3>2, <3>4, <4>2, <4>3, <4>4
    <3> QED
      BY <1>4, <3>3, <3>4
  <2>3. CASE Garbled(said.missed)
    <3>0. asked.proto = "anthropic"
      BY <1>2, <1>4, <2>3, GarbledIsAnthropic
    <3>1. Told(out, said.parts, Written, said.missed)
      BY <2>1
    <3>2. \A x \in DOMAIN tr.index : tr.index[x] \in 0 .. tr.next - 1
      BY <1>13, <3>0 DEF Numbers
    <3>3. CASE block \in DOMAIN tr.index
      <4> DEFINE i == tr.index[block]
      <4> DEFINE c == CallChunk(i, None, None, args)
      <4>1. i \in 0 .. Written /\ i # Written
        BY <1>11, <3>0, <3>2, <3>3
      <4>2. tr' = tr /\ out' = Append(out, c)
        BY <1>4, <3>0, <3>3
      <4> HIDE DEF i
      <4>3. /\ Told(Append(out, c), said.parts, IF i = Written THEN Written + 1 ELSE Written, said.missed)
            /\ Begun(Append(out, c), said.missed) /\ "finish" \notin Kinds(Append(out, c))
        BY <1>5, <1>11, <2>1, <2>3, <3>1, <4>1, StrayTold
      <4> HIDE DEF c
      <4>4. Told(out', said.parts, Written, said.missed)
        BY <4>1, <4>2, <4>3
      <4>5. Told(out', said'.parts, Written, said.missed)
        BY <1>12, <2>3, <4>4, RetoldGarbled
      <4>6. Written' = Written
        BY <1>3, <3>0, <4>2 DEF Written
      <4>7. Numbers'
        BY <1>3, <1>9, <2>3, <3>0, <3>2, <4>2 DEF Numbers
      <4> QED
        BY <1>9, <1>11, <3>0, <4>2, <4>3, <4>5, <4>6, <4>7
    <3>4. CASE block \notin DOMAIN tr.index
      <4> DEFINE c == CallChunk(Written, None, None, args)
      <4>1. tr' = Numbered(tr, block) /\ out' = Append(out, c)
        BY <1>4, <1>11, <3>0, <3>4
      <4>2. /\ Told(Append(out, c), said.parts, IF Written = Written THEN Written + 1 ELSE Written, said.missed)
            /\ Begun(Append(out, c), said.missed) /\ "finish" \notin Kinds(Append(out, c))
        <5>1. Written \in 0 .. Written
          BY <1>11
        <5> DEFINE i == Written
        <5> DEFINE d == CallChunk(i, None, None, args)
        <5>2. i \in 0 .. Written
          BY <5>1
        <5> HIDE DEF i
        <5>3. /\ Told(Append(out, d), said.parts, IF i = Written THEN Written + 1 ELSE Written, said.missed)
              /\ Begun(Append(out, d), said.missed) /\ "finish" \notin Kinds(Append(out, d))
          BY <1>5, <1>11, <2>1, <2>3, <3>1, <5>2, StrayTold
        <5> QED
          BY <5>3 DEF i
      <4> HIDE DEF c
      <4>3. Told(out', said.parts, Written + 1, said.missed)
        BY <4>1, <4>2
      <4>4. Told(out', said'.parts, Written + 1, said.missed)
        BY <1>12, <2>3, <4>3, RetoldGarbled
      <4>5. /\ tr' \in AnthropicTr /\ tr'.next = tr.next + 1
            /\ \A x \in DOMAIN tr'.index : tr'.index[x] \in 0 .. tr.next
        BY <1>4, <1>11, <3>0, <3>2, <4>1, NumberedNumbers
      <4>6. Written' = Written + 1
        BY <1>3, <1>11, <3>0, <4>5 DEF Written
      <4>7. tr'.next - 1 = tr.next
        BY <1>11, <3>0, <4>5
      <4>8. Numbers'
        BY <1>3, <1>9, <2>3, <3>0, <4>5, <4>7 DEF Numbers
      <4> QED
        BY <1>9, <3>0, <4>1, <4>2, <4>4, <4>5, <4>6, <4>8
    <3> QED
      BY <3>3, <3>4
  <2> QED
    BY <1>8, <2>2, <2>3
<1>15. Typed'
  <2>1. out' \in Seq(Chunk)
    BY <1>1, <1>2, <1>4, <1>8, <1>14, WrittenNat DEF Told
  <2>2. tr' \in AnthropicTr
    BY <1>4, <1>8, <1>11, <1>14
  <2>3. said' \in SaidType
    BY <1>2, <1>8, <1>9, <1>10 DEF SaidType
  <2>4. used' \in [turns : 0 .. MaxTurns, parts : 0 .. MaxParts, lost : 0 .. MaxLost]
    <3>1. used' = [turns |-> used.turns, parts |-> used.parts + 1, lost |-> used.lost]
      BY <1>1, UseParts DEF SayArguments
    <3>2. used \in [turns : 0 .. MaxTurns, parts : 0 .. MaxParts, lost : 0 .. MaxLost]
      BY <1>1 DEF Typed
    <3>3. used.parts < MaxParts
      BY DEF SayArguments, StillSaying
    <3> QED
      BY <3>1, <3>2, <3>3, Bounds
  <2> QED
    BY <1>1, <1>2, <1>3, <2>1, <2>2, <2>3, <2>4, AnswerTyped, WrittenNat
<1>16. SaidWell'
  BY <1>1, <1>2, <1>3, <1>9 DEF SaidWell
<1>17. StreamInv'
  <2>1. Answering' <=> Answering
    BY <1>3 DEF Answering
  <2>2. ~Answering => out' = << >>
    BY <1>1, <1>2, <1>4 DEF StreamInv, Answering
  <2>3. Answering => Told(out', said'.parts, Written', said'.missed) /\ "finish" \notin Kinds(out')
    BY <1>9, <1>14 DEF Answering
  <2> QED
    BY <2>1, <2>2, <2>3 DEF StreamInv
<1>18. OpenInv'
  BY <1>2, <1>3, <1>9, <1>14 DEF OpenInv
<1>19. OutcomeInv'
  BY <1>1, <1>2, <1>3 DEF OutcomeInv
<1> QED
  BY <1>15, <1>16, <1>17, <1>18, <1>19 DEF AnswerInv

(* So does the reason. *)
LEMMA SayReasonKeeps ==
  ASSUME AnswerInv, NEW reason \in {"end_turn", "max_tokens", "tool_use"}, SayReason(reason)
  PROVE  AnswerInv'
<1>1. Typed /\ SaidWell /\ StreamInv /\ OpenInv /\ OutcomeInv
  BY DEF AnswerInv
<1>2. said.begun /\ said.reason = None /\ phase = "open" /\ asked.proto # "gemini"
  BY DEF SayReason, Stopped, Open
<1>3. conv' = conv /\ params' = params /\ phase' = phase /\ asked' = asked /\ outcome' = outcome
      /\ used' = used
  BY DEF SayReason
<1>4. said' = [parts |-> said.parts, reason |-> reason, begun |-> said.begun,
               missed |-> said.missed]
  BY <1>1, SaidFields DEF SayReason
<1> DEFINE r == A!MapStopReason(reason)
<1>5. /\ asked.proto \in {"anthropic", "openai"} /\ r \in Reason
      /\ asked.streaming /\ asked.proto = "anthropic" => tr' = [tr EXCEPT !.finish = r] /\ out' = out
      /\ asked.streaming /\ asked.proto = "openai" => tr' = tr /\ out' = Append(out, FinishChunk(r))
      /\ ~asked.streaming => tr' = tr /\ out' = out
  BY <1>1, SayReasonEmits
<1> HIDE DEF r
<1>6. reason \in Reason /\ reason # None
  <2>1. reason \in Reason
    BY DEF Reason
  <2> QED
    BY <2>1, Bounds
<1>7. said.parts \in Seq(Part) /\ said.begun \in BOOLEAN /\ said.missed \in SUBSET Event
      /\ asked.streaming \in BOOLEAN
  BY <1>1, SaidFields
<1>8. tr \in AnthropicTr /\ out \in Seq(Chunk) /\ Written \in Nat
  BY <1>1, <1>2, WrittenNat
<1>9. asked.streaming =>
        /\ Told(out', said.parts, Written, said.missed)
        /\ Begun(out', said.missed)
        /\ asked.proto # "openai" => "finish" \notin Kinds(out')
  <2> SUFFICES ASSUME asked.streaming
               PROVE  /\ Told(out', said.parts, Written, said.missed)
                      /\ Begun(out', said.missed)
                      /\ asked.proto # "openai" => "finish" \notin Kinds(out')
    OBVIOUS
  <2>1. /\ Begun(out, said.missed) /\ "finish" \notin Kinds(out) /\ Told(out, said.parts, Written, said.missed)
        /\ "done" \notin Kinds(out) /\ "error" \notin Kinds(out)
    BY <1>2, NotEnded
  <2>2. CASE asked.proto = "anthropic"
    BY <1>5, <2>1, <2>2
  <2>3. CASE asked.proto = "openai"
    <3> DEFINE c == FinishChunk(r)
    <3>1. c \in Chunk /\ c.kind = "finish" /\ out' = Append(out, c)
      BY <1>5, <2>3, SimpleChunks
    <3> HIDE DEF c
    <3>2. Told(Append(out, c), said.parts, Written, said.missed)
      BY <1>7, <1>8, <2>1, <3>1, EndTold
    <3>3. Begun(Append(out, c), said.missed)
      BY <2>1, <3>1, StillBegun
    <3> QED
      BY <2>3, <3>1, <3>2, <3>3
  <2> QED
    BY <1>5, <2>2, <2>3
<1>10. tr' \in AnthropicTr /\ tr'.next = tr.next /\ tr'.index = tr.index
  <2>1. r \in Reason \cup {None}
    BY <1>5
  <2>2. [tr EXCEPT !.finish = r] \in AnthropicTr /\ [tr EXCEPT !.finish = r].next = tr.next
        /\ [tr EXCEPT !.finish = r].index = tr.index
    BY <1>8, <2>1 DEF AnthropicTr
  <2>3. tr' = tr \/ tr' = [tr EXCEPT !.finish = r]
    BY <1>5, <1>7
  <2> QED
    BY <1>8, <2>2, <2>3
<1>11. Written' = Written
  <2>1. said'.parts = said.parts
    BY <1>4
  <2> QED
    BY <1>3, <1>10, <2>1 DEF Written
<1>12. said'.parts = said.parts /\ said'.reason = reason /\ said'.begun = said.begun
       /\ said'.missed = said.missed /\ said' \in SaidType
  BY <1>4, <1>6, <1>7 DEF SaidType
<1>13. Typed'
  <2>1. out' \in Seq(Chunk)
    BY <1>5, <1>7, <1>8, <1>9 DEF Told
  <2> QED
    BY <1>1, <1>2, <1>3, <1>10, <1>12, <2>1, AnswerTyped, WrittenNat
<1>14. SaidWell'
  BY <1>1, <1>2, <1>3, <1>12 DEF SaidWell
<1>15. StreamInv'
  <2>1. Answering' <=> Answering
    BY <1>3 DEF Answering
  <2>2. ~Answering => out' = << >>
    BY <1>1, <1>2, <1>5 DEF StreamInv, Answering
  <2>3. Answering => Told(out', said'.parts, Written', said'.missed)
    BY <1>9, <1>11, <1>12 DEF Answering
  <2> QED
    BY <1>6, <1>12, <2>1, <2>2, <2>3 DEF StreamInv, Stopped
<1>16. OpenInv'
  <2>1. asked.streaming => Numbers'
    <3>1. asked.streaming => Numbers
      BY <1>1, <1>2 DEF OpenInv
    <3> QED
      BY <1>3, <1>10, <1>12, <3>1 DEF Numbers, EndsWith
  <2> QED
    BY <1>2, <1>3, <1>6, <1>9, <1>12, <2>1 DEF OpenInv
<1>17. OutcomeInv'
  BY <1>1, <1>2, <1>3 DEF OutcomeInv
<1> QED
  BY <1>13, <1>14, <1>15, <1>16, <1>17 DEF AnswerInv

(* However an answer ends, what was told stays told. *)
LEMMA EndKeeps ==
  ASSUME AnswerInv, phase = "open", phase' = "ended", conv' = conv, params' = params,
         asked' = asked, said' = said, used' = used, tr' = tr,
         outcome' \in {"ok", "failed"}, outcome' = "ok" /\ ~asked.streaming => said.reason # None,
         out' \in Seq(Chunk), ~asked.streaming => out' = out,
         asked.streaming => Told(out', said.parts, Written, said.missed),
         asked.streaming /\ asked.proto # "gemini" /\ "finish" \in Kinds(out') => Stopped
  PROVE  AnswerInv'
<1>1. Typed /\ SaidWell /\ StreamInv /\ OpenInv /\ OutcomeInv
  BY DEF AnswerInv
<1>2. Typed'
  BY <1>1, AnswerTyped, WrittenNat
<1>3. SaidWell'
  BY <1>1 DEF SaidWell
<1>4. StreamInv'
  <2>1. Written' = Written
    BY DEF Written
  <2>2. Answering' <=> Answering
    BY DEF Answering
  <2>3. ~Answering => out' = << >>
    BY <1>1 DEF StreamInv, Answering
  <2>4. Answering => asked.streaming
    BY DEF Answering
  <2> QED
    BY <2>1, <2>2, <2>3, <2>4 DEF StreamInv, Stopped
<1>5. OpenInv' /\ OutcomeInv'
  BY DEF OpenInv, OutcomeInv
<1> QED
  BY <1>2, <1>3, <1>4, <1>5 DEF AnswerInv

(* A finish, or an error, and [DONE]. *)
LEMMA TwoTold ==
  ASSUME NEW o, NEW parts, NEW n, NEW missed, NEW c, Told(o, parts, n, missed),
         parts \in Seq(Part), n \in Nat, c \in Chunk, c.kind \in {"finish", "error"},
         "done" \notin Kinds(o), "finish" \notin Kinds(o), "error" \notin Kinds(o)
  PROVE  /\ Told(Append(Append(o, c), Done), parts, n, missed)
         /\ Append(Append(o, c), Done) \in Seq(Chunk)
         /\ Kinds(Append(Append(o, c), Done)) = Kinds(o) \cup {c.kind, "done"}
<1> DEFINE a == Append(o, c)
<1>1. Told(a, parts, n, missed) /\ Kinds(a) = Kinds(o) \cup {c.kind}
  BY EndTold
<1> HIDE DEF a
<1> DEFINE d == Done
<1>2. d \in Chunk /\ d.kind = "done"
  BY SimpleChunks
<1> HIDE DEF d
<1>4. "done" \notin Kinds(a)
  BY <1>1
<1>3. Told(Append(a, d), parts, n, missed) /\ Kinds(Append(a, d)) = Kinds(a) \cup {d.kind}
  <2>1. /\ d.kind \in {"finish", "error", "done"}
        /\ d.kind # "done" => "finish" \notin Kinds(a) /\ "error" \notin Kinds(a)
    BY <1>2
  <2>2. Told(Append(a, d), parts, n, missed)
    BY <1>1, <1>2, <1>4, <2>1, EndTold
  <2>3. Kinds(Append(a, d)) = Kinds(a) \cup {d.kind}
    BY <1>1, <1>2, WriteSets DEF Told
  <2> QED
    BY <2>2, <2>3
<1> QED
  BY <1>1, <1>2, <1>3 DEF a, d, Told

(* The end of an answer keeps the invariant. *)
LEMMA AnswerEndsKeeps ==
  ASSUME AnswerInv, AnswerEnds
  PROVE  AnswerInv'
<1>1. Typed /\ SaidWell /\ StreamInv /\ OpenInv /\ OutcomeInv
  BY DEF AnswerInv
<1>2. said.begun /\ Stopped /\ phase = "open" /\ phase' = "ended" /\ outcome' = "ok"
      /\ conv' = conv /\ params' = params /\ asked' = asked /\ said' = said /\ used' = used
  BY DEF AnswerEnds, Open
<1>3. /\ tr' = tr
      /\ ~asked.streaming => out' = out
      /\ asked.streaming /\ asked.proto = "openai" => out' = Append(out, Done)
      /\ asked.streaming /\ asked.proto # "openai" =>
           \E r \in Reason \cup {None} : out' = Append(Append(out, FinishChunk(r)), Done)
  BY <1>1, AnswerEndsEmits
<1>4. said.parts \in Seq(Part) /\ asked.streaming \in BOOLEAN /\ Written \in Nat /\ out \in Seq(Chunk)
  BY <1>1, <1>2, SaidFields, WrittenNat
<1>5. asked.streaming => out' \in Seq(Chunk) /\ Told(out', said.parts, Written, said.missed)
  <2> SUFFICES ASSUME asked.streaming
               PROVE  out' \in Seq(Chunk) /\ Told(out', said.parts, Written, said.missed)
    OBVIOUS
  <2>1. /\ "done" \notin Kinds(out) /\ "error" \notin Kinds(out)
        /\ asked.proto # "openai" => "finish" \notin Kinds(out)
        /\ Told(out, said.parts, Written, said.missed)
    BY <1>2, NotEnded
  <2>2. CASE asked.proto = "openai"
    <3> DEFINE d == Done
    <3>1. d \in Chunk /\ d.kind = "done" /\ out' = Append(out, d)
      BY <1>3, <2>2, SimpleChunks
    <3> HIDE DEF d
    <3>2. Told(Append(out, d), said.parts, Written, said.missed)
      BY <1>4, <2>1, <3>1, EndTold
    <3> QED
      BY <3>1, <3>2 DEF Told
  <2>3. CASE asked.proto # "openai"
    <3>1. PICK r \in Reason \cup {None} : out' = Append(Append(out, FinishChunk(r)), Done)
      BY <1>3, <2>3
    <3> DEFINE c == FinishChunk(r)
    <3>2. c \in Chunk /\ c.kind = "finish" /\ out' = Append(Append(out, c), Done)
      BY <3>1, SimpleChunks
    <3> HIDE DEF c
    <3> QED
      BY <1>4, <2>1, <2>3, <3>2, TwoTold
  <2> QED
    BY <2>2, <2>3
<1>6. ~asked.streaming => said.reason # None
  BY <1>1, <1>2 DEF SaidWell, Stopped
<1> QED
  BY <1>2, <1>3, <1>4, <1>5, <1>6, EndKeeps

(* So do an error event, a stream that ends early and one that breaks. *)
LEMMA ErrorEventKeeps ==
  ASSUME AnswerInv, ErrorEvent
  PROVE  AnswerInv'
<1>1. Typed /\ SaidWell /\ StreamInv /\ OpenInv /\ OutcomeInv
  BY DEF AnswerInv
<1>2. asked.proto = "anthropic" /\ asked.streaming
      /\ phase = "open" /\ phase' = "ended" /\ outcome' = "ok"
      /\ conv' = conv /\ params' = params /\ asked' = asked /\ said' = said /\ used' = used
  BY DEF ErrorEvent, Streaming, Open
<1>3. said.parts \in Seq(Part) /\ Written \in Nat /\ out \in Seq(Chunk)
  BY <1>1, <1>2, SaidFields, WrittenNat
<1>4. /\ "done" \notin Kinds(out) /\ "error" \notin Kinds(out) /\ "finish" \notin Kinds(out)
      /\ Told(out, said.parts, Written, said.missed)
  BY <1>2, NotEnded
<1> DEFINE c == ErrorChunk
<1>5. tr' = tr /\ out' = Append(Append(out, c), Done)
  BY <1>1, ErrorEventEmits
<1>6. c \in Chunk /\ c.kind = "error"
  BY SimpleChunks
<1> HIDE DEF c
<1>7. Told(out', said.parts, Written, said.missed) /\ out' \in Seq(Chunk)
      /\ Kinds(out') = Kinds(out) \cup {"error", "done"}
  <2> DEFINE all == Append(Append(out, c), Done)
  <2>1. /\ Told(all, said.parts, Written, said.missed) /\ all \in Seq(Chunk)
        /\ Kinds(all) = Kinds(out) \cup {c.kind, "done"}
    BY <1>3, <1>4, <1>6, TwoTold
  <2> HIDE DEF all
  <2>2. out' = all
    BY <1>5 DEF all
  <2> QED
    BY <1>6, <2>1, <2>2
<1> QED
  BY <1>2, <1>4, <1>5, <1>7, EndKeeps

LEMMA EndsEarlyKeeps ==
  ASSUME AnswerInv, EndsEarly
  PROVE  AnswerInv'
<1>1. Typed /\ SaidWell /\ StreamInv /\ OpenInv /\ OutcomeInv
  BY DEF AnswerInv
<1>2. asked.streaming
      /\ phase = "open" /\ phase' = "ended" /\ outcome' = "ok"
      /\ conv' = conv /\ params' = params /\ asked' = asked /\ said' = said /\ used' = used
  BY DEF EndsEarly, Open
<1>3. said.parts \in Seq(Part) /\ Written \in Nat /\ out \in Seq(Chunk)
  BY <1>1, <1>2, SaidFields, WrittenNat
<1>4. /\ "done" \notin Kinds(out) /\ "error" \notin Kinds(out)
      /\ asked.proto = "gemini" => "finish" \notin Kinds(out)
      /\ Told(out, said.parts, Written, said.missed)
  BY <1>2, NotEnded
<1>8. asked.proto # "gemini" /\ "finish" \in Kinds(out) => Stopped
  BY <1>1, <1>2 DEF StreamInv, Answering
<1>5. /\ tr' = tr
      /\ asked.proto # "gemini" => out' = out
      /\ asked.proto = "gemini" =>
           \E r \in Reason \cup {None} : out' = Append(Append(out, FinishChunk(r)), Done)
  BY <1>1, EndsEarlyEmits
<1>6. CASE asked.proto # "gemini"
  BY <1>2, <1>3, <1>4, <1>5, <1>6, <1>8, EndKeeps
<1>7. CASE asked.proto = "gemini"
  <2>1. PICK r \in Reason \cup {None} : out' = Append(Append(out, FinishChunk(r)), Done)
    BY <1>5, <1>7
  <2> DEFINE c == FinishChunk(r)
  <2>2. c \in Chunk /\ c.kind = "finish" /\ out' = Append(Append(out, c), Done)
    BY <2>1, SimpleChunks
  <2> HIDE DEF c
  <2>3. Told(out', said.parts, Written, said.missed) /\ out' \in Seq(Chunk)
    BY <1>3, <1>4, <1>7, <2>2, TwoTold
  <2> QED
    BY <1>2, <1>5, <1>7, <2>3, EndKeeps
<1> QED
  BY <1>6, <1>7

LEMMA BreaksKeeps ==
  ASSUME AnswerInv, Breaks
  PROVE  AnswerInv'
<1>1. Typed /\ StreamInv
  BY DEF AnswerInv
<1>2. phase = "open" /\ phase' = "ended" /\ outcome' = "failed"
      /\ conv' = conv /\ params' = params /\ asked' = asked /\ said' = said /\ used' = used
      /\ tr' = tr /\ out' = out
  BY DEF Breaks, Open
<1>3. out \in Seq(Chunk)
  BY <1>1, <1>2, WrittenNat
<1>4. asked.streaming =>
        /\ Told(out', said.parts, Written, said.missed)
        /\ asked.proto # "gemini" /\ "finish" \in Kinds(out') => Stopped
  BY <1>1, <1>2 DEF StreamInv, Answering
<1> QED
  BY <1>2, <1>3, <1>4, EndKeeps

LEMMA ConcatFew ==
  ASSUME NEW s, s \in Seq(Part)
  PROVE  /\ s \o << >> = s
         /\ \A p \in Part : s \o << p >> = Append(s, p)
         /\ \A p, q \in Part : s \o << p, q >> = Append(Append(s, p), q)
OBVIOUS

(* A chunk of Gemini with its parts keeps the invariant. *)
LEMMA GeminiSaysKeeps ==
  ASSUME AnswerInv, NEW parts \in GeminiParts, NEW reason \in GeminiReasons, GeminiSays(parts, reason)
  PROVE  AnswerInv'
<1>1. Typed /\ SaidWell /\ StreamInv /\ OpenInv /\ OutcomeInv
  BY DEF AnswerInv
<1>2. /\ asked.proto = "gemini" /\ phase = "open"
      /\ ~asked.streaming => tr' = tr /\ out' = out
      /\ asked.streaming =>
           /\ \E r \in Reason \cup {None} :
                tr' = [roleSent |-> TRUE, next |-> tr.next + CountCalls(parts), finish |-> r]
           /\ parts = << >> => out' = RoleFirst
           /\ \A p \in Part : parts = << p >> => out' = Append(RoleFirst, PartWritten(tr.next, p))
           /\ \A p, q \in Part : parts = << p, q >> =>
                out' = Append(Append(RoleFirst, PartWritten(tr.next, p)),
                              PartWritten(tr.next + Counted(p), q))
  BY <1>1, GeminiSaysEmits
<1>3. /\ conv' = conv /\ params' = params /\ phase' = phase /\ asked' = asked /\ outcome' = outcome
      /\ said.reason = None
  BY DEF GeminiSays
<1>4. said' = [parts |-> said.parts \o parts, reason |-> reason, begun |-> TRUE,
               missed |-> said.missed]
  BY <1>1, SaidFields DEF GeminiSays
<1>5. /\ \A i \in DOMAIN parts : parts[i] \in Part /\ (parts[i].type = "call" => parts[i].id = None)
      /\ \/ parts = << >>
         \/ \E p \in Part : parts = << p >>
         \/ \E p, q \in Part : parts = << p, q >>
  BY <1>1, GeminiPartsAre
<1>6. /\ said.parts \in Seq(Part) /\ asked.streaming \in BOOLEAN
      /\ said.begun \in BOOLEAN
  BY <1>1, SaidFields
<1>7. /\ tr \in GeminiTr /\ tr.next \in Nat /\ tr.roleSent \in BOOLEAN /\ Written = tr.next
      /\ out \in Seq(Chunk)
  BY <1>1, <1>2, WrittenNat DEF Written, GeminiTr
<1>8. reason \in Reason \cup {None}
  BY DEF GeminiReasons, Reason
<1>9. parts \in Seq(Part) /\ CountCalls(parts) \in Nat /\ said.parts \o parts \in Seq(Part)
  <2>1. parts \in Seq(Part)
    <3>1. << >> \in Seq(Part)
      OBVIOUS
    <3>2. \A p \in Part : << p >> \in Seq(Part)
      OBVIOUS
    <3>3. \A p, q \in Part : << p, q >> \in Seq(Part)
      OBVIOUS
    <3> QED
      BY <1>5, <3>1, <3>2, <3>3, Zenon
  <2>2. PICK p : p \in Part
    <3>1. << >> \in Text
      BY DEF Text
    <3>2. [type |-> "text", text |-> << >>] \in Part
      BY <3>1 DEF Part, TextPartType
    <3> QED
      BY <3>2
  <2>3. CountCalls(parts) \in Nat
    BY <2>1, <2>2, CountOneMore
  <2> QED
    BY <1>6, <2>1, <2>3
<1>10. said'.parts = said.parts \o parts /\ said'.reason = reason /\ said'.begun = TRUE
       /\ said'.missed = said.missed /\ said' \in SaidType
  BY <1>1, <1>4, <1>6, <1>8, <1>9, SaidFields DEF SaidType
<1>11. asked.streaming =>
         /\ Begun(RoleFirst, said.missed) /\ "finish" \notin Kinds(RoleFirst) /\ Told(RoleFirst, said.parts, tr.next, said.missed)
  <2> SUFFICES ASSUME asked.streaming
               PROVE  /\ Begun(RoleFirst, said.missed) /\ "finish" \notin Kinds(RoleFirst)
                      /\ Told(RoleFirst, said.parts, tr.next, said.missed)
    OBVIOUS
  <2>1. tr.roleSent = said.begun
    BY <1>1, <1>2 DEF OpenInv
  <2>2. CASE said.begun
    <3>1. RoleFirst = out
      BY <1>7, <2>1, <2>2 DEF RoleFirst
    <3>2. Begun(out, said.missed) /\ "finish" \notin Kinds(out) /\ Told(out, said.parts, tr.next, said.missed)
      BY <1>2, <1>3, <1>6, <1>7, <2>2, NotEnded
    <3> QED
      BY <3>1, <3>2
  <2>3. CASE ~said.begun
    <3>1. RoleFirst = Append(out, RoleChunk)
      BY <2>1, <2>3 DEF RoleFirst
    <3>2. said.parts = << >> /\ out = << >> /\ Told(out, << >>, tr.next, said.missed)
      BY <1>1, <1>2, <1>6, <1>7, <2>3, NotEnded DEF SaidWell
    <3>3. tr.next = 0
      <4>1. Indexes(out) = 0 .. tr.next - 1 /\ Indexes(out) = {}
        BY <3>2, NothingWritten DEF Told, Carries
      <4>2. tr.next # 0 => 0 \in 0 .. tr.next - 1
        BY <1>7
      <4> QED
        BY <4>1, <4>2
    <3>4. /\ Begun(Append(out, RoleChunk), said.missed) /\ "finish" \notin Kinds(Append(out, RoleChunk))
          /\ Told(Append(out, RoleChunk), << >>, 0, said.missed)
      BY <3>2, RoleTold
    <3> QED
      BY <3>1, <3>2, <3>3, <3>4
  <2> QED
    BY <1>6, <2>2, <2>3
<1>12. asked.streaming =>
         /\ Begun(out', said.missed) /\ "finish" \notin Kinds(out')
         /\ Told(out', said.parts \o parts, tr.next + CountCalls(parts), said.missed)
  <2> SUFFICES ASSUME asked.streaming
               PROVE  /\ Begun(out', said.missed) /\ "finish" \notin Kinds(out')
                      /\ Told(out', said.parts \o parts, tr.next + CountCalls(parts), said.missed)
    OBVIOUS
  <2>1. CASE parts = << >>
    <3>1. said.parts \o parts = said.parts /\ tr.next + CountCalls(parts) = tr.next
      BY <1>6, <1>7, <2>1, NothingSaid, ConcatFew
    <3> QED
      BY <1>2, <1>11, <2>1, <3>1
  <2>2. CASE \E p \in Part : parts = << p >>
    <3>1. PICK p \in Part : parts = << p >>
      BY <2>2
    <3>2. p.type = "call" => p.id = None
      BY <1>5, <3>1
    <3>3. said.parts \o parts = Append(said.parts, p) /\ CountCalls(parts) = Counted(p)
      BY <1>6, <3>1, ConcatFew, CountFew
    <3>4. out' = Append(RoleFirst, PartWritten(tr.next, p))
      BY <1>2, <3>1
    <3>5. LET c == PartWritten(tr.next, p)
          IN /\ Told(Append(RoleFirst, c), Append(said.parts, p), tr.next + Counted(p), said.missed)
             /\ Begun(Append(RoleFirst, c), said.missed) /\ "finish" \notin Kinds(Append(RoleFirst, c))
      BY <1>6, <1>7, <1>11, <3>2, Bounds, PartTold
    <3> QED
      BY <3>3, <3>4, <3>5
  <2>3. CASE \E p, q \in Part : parts = << p, q >>
    <3>1. PICK p \in Part, q \in Part : parts = << p, q >>
      BY <2>3
    <3>2. /\ p.type = "call" => p.id = None
          /\ q.type = "call" => q.id = None
      <4>1. 1 \in DOMAIN parts /\ 2 \in DOMAIN parts /\ parts[1] = p /\ parts[2] = q
        BY <3>1
      <4> QED
        BY <1>5, <4>1
    <3>3. said.parts \o parts = Append(Append(said.parts, p), q)
          /\ CountCalls(parts) = Counted(p) + Counted(q) /\ Counted(p) \in Nat /\ Counted(q) \in Nat
      <4>1. CountCalls(<< p, q >>) = Counted(p) + Counted(q)
        BY CountFew
      <4>2. said.parts \o << p, q >> = Append(Append(said.parts, p), q)
        BY <1>6, ConcatFew
      <4> QED
        BY <3>1, <4>1, <4>2 DEF Counted
    <3> DEFINE c == PartWritten(tr.next, p)
    <3> DEFINE o == Append(RoleFirst, c)
    <3> DEFINE n == tr.next + Counted(p)
    <3> DEFINE d == PartWritten(n, q)
    <3> DEFINE s == Append(said.parts, p)
    <3>4. Told(o, s, n, said.missed) /\ Begun(o, said.missed) /\ "finish" \notin Kinds(o)
      BY <1>6, <1>7, <1>11, <3>2, Bounds, PartTold
    <3>5. out' = Append(o, d)
      BY <1>2, <3>1
    <3>6. n \in Nat /\ s \in Seq(Part)
      BY <1>6, <1>7, <3>3
    <3> HIDE DEF o, n, s
    <3>7. /\ Told(Append(o, d), Append(s, q), n + Counted(q), said.missed)
          /\ Begun(Append(o, d), said.missed) /\ "finish" \notin Kinds(Append(o, d))
      BY <3>2, <3>4, <3>6, Bounds, PartTold
    <3>8. tr.next + CountCalls(parts) = n + Counted(q)
      BY <1>7, <3>3 DEF n
    <3> HIDE DEF d
    <3> QED
      BY <3>3, <3>5, <3>7, <3>8 DEF s
  <2> QED
    BY <1>5, <2>1, <2>2, <2>3
<1>13. asked.streaming =>
         tr' \in GeminiTr /\ tr'.next = tr.next + CountCalls(parts) /\ tr'.roleSent = TRUE
  <2> SUFFICES ASSUME asked.streaming
               PROVE  tr' \in GeminiTr /\ tr'.next = tr.next + CountCalls(parts) /\ tr'.roleSent = TRUE
    OBVIOUS
  <2>1. PICK r \in Reason \cup {None} :
          tr' = [roleSent |-> TRUE, next |-> tr.next + CountCalls(parts), finish |-> r]
    BY <1>2
  <2>2. tr.next + CountCalls(parts) \in Nat
    BY <1>7, <1>9
  <2> QED
    BY <2>1, <2>2 DEF GeminiTr
<1>14. Typed'
  <2>1. out' \in Seq(Chunk) /\ tr' \in GeminiTr
    BY <1>2, <1>6, <1>7, <1>12, <1>13 DEF Told
  <2>2. used' \in [turns : 0 .. MaxTurns, parts : 0 .. MaxParts, lost : 0 .. MaxLost]
    <3>1. used' = [turns |-> used.turns, parts |-> used.parts + Len(parts), lost |-> used.lost]
      BY <1>1, SaidFields DEF GeminiSays
    <3>2. used \in [turns : 0 .. MaxTurns, parts : 0 .. MaxParts, lost : 0 .. MaxLost]
      BY <1>1 DEF Typed
    <3>3. used.parts + Len(parts) <= MaxParts
      BY DEF GeminiSays
    <3>4. Len(parts) \in Nat
      BY <1>9
    <3> QED
      BY <3>1, <3>2, <3>3, <3>4, Bounds
  <2> QED
    BY <1>1, <1>2, <1>3, <1>10, <2>1, <2>2, AnswerTyped, WrittenNat
<1>15. SaidWell'
  BY <1>1, <1>2, <1>3, <1>10 DEF SaidWell
<1>16. Written' = tr'.next
  BY <1>2, <1>3 DEF Written
<1>17. StreamInv'
  <2>1. Answering' <=> Answering
    BY <1>3 DEF Answering
  <2>2. ~Answering => out' = << >>
    BY <1>1, <1>2 DEF StreamInv, Answering
  <2>3. Answering => Told(out', said'.parts, Written', said'.missed)
    BY <1>10, <1>12, <1>13, <1>16 DEF Answering
  <2> QED
    BY <1>2, <1>3, <2>1, <2>2, <2>3 DEF StreamInv
<1>18. OpenInv'
  <2>1. Numbers'
    BY <1>2, <1>3 DEF Numbers
  <2> QED
    BY <1>2, <1>3, <1>10, <1>12, <1>13, <2>1 DEF OpenInv
<1>19. OutcomeInv'
  BY <1>1, <1>2, <1>3 DEF OutcomeInv
<1> QED
  BY <1>14, <1>15, <1>17, <1>18, <1>19 DEF AnswerInv

(* An event that cannot be read leaves what was written. *)
LEMMA SkipEventParts ==
  ASSUME Typed, NEW kind \in Event, SkipEvent(kind)
  PROVE  /\ phase = "open" /\ asked.streaming /\ kind # "content_block_start"
         /\ IF kind = "chunk" THEN asked.proto = "gemini" ELSE asked.proto = "anthropic"
         /\ kind \notin {"chunk", "message_start"} => said.begun
         /\ conv' = conv /\ params' = params /\ phase' = phase /\ asked' = asked
         /\ tr' = tr /\ out' = out /\ outcome' = outcome
         /\ said' \in SaidType /\ said'.parts = said.parts /\ said'.reason = said.reason
         /\ said'.begun = (said.begun \/ kind = "message_start")
         /\ said'.missed = said.missed \cup {kind}
         /\ used' = [turns |-> used.turns, parts |-> used.parts, lost |-> used.lost + 1]
         /\ used.lost < MaxLost
<1>1. /\ phase = "open" /\ asked.streaming /\ used.lost < MaxLost
      /\ IF kind = "chunk" THEN asked.proto = "gemini" ELSE asked.proto = "anthropic"
      /\ conv' = conv /\ params' = params /\ phase' = phase /\ asked' = asked
      /\ tr' = tr /\ out' = out /\ outcome' = outcome
  BY DEF SkipEvent, MayMiss, Open
<1>2. kind # "content_block_start" /\ (kind \notin {"chunk", "message_start"} => said.begun)
  BY DEF SkipEvent, StillSaying, Event
<1>3. said' = [parts |-> said.parts, reason |-> said.reason,
               begun |-> said.begun \/ kind = "message_start", missed |-> said.missed \cup {kind}]
  BY SaidFields DEF SkipEvent
<1>4. said.parts \in Seq(Part) /\ said.reason \in Reason \cup {None}
      /\ (said.begun \/ kind = "message_start") \in BOOLEAN /\ said.missed \cup {kind} \in SUBSET Event
  BY SaidFields
<1>5. used' = [turns |-> used.turns, parts |-> used.parts, lost |-> used.lost + 1]
  BY SaidFields DEF SkipEvent, Use
<1> QED
  BY <1>1, <1>2, <1>3, <1>4, <1>5 DEF SaidType

(* So it keeps the invariant: less is promised of the stream. *)
LEMMA SkipEventKeeps ==
  ASSUME AnswerInv, NEW kind \in Event, SkipEvent(kind)
  PROVE  AnswerInv'
<1>1. Typed /\ SaidWell /\ StreamInv /\ OpenInv /\ OutcomeInv
  BY DEF AnswerInv
<1>2. /\ phase = "open" /\ asked.streaming /\ kind # "content_block_start"
      /\ IF kind = "chunk" THEN asked.proto = "gemini" ELSE asked.proto = "anthropic"
      /\ kind \notin {"chunk", "message_start"} => said.begun
      /\ conv' = conv /\ params' = params /\ phase' = phase /\ asked' = asked
      /\ tr' = tr /\ out' = out /\ outcome' = outcome
      /\ said' \in SaidType /\ said'.parts = said.parts /\ said'.reason = said.reason
      /\ said'.begun = (said.begun \/ kind = "message_start")
      /\ said'.missed = said.missed \cup {kind}
      /\ used' = [turns |-> used.turns, parts |-> used.parts, lost |-> used.lost + 1]
      /\ used.lost < MaxLost
  BY <1>1, SkipEventParts
<1>3. said.begun \in BOOLEAN /\ said.missed \in SUBSET Event
  BY <1>1, SaidFields
<1>4. /\ "done" \notin Kinds(out) /\ "error" \notin Kinds(out)
      /\ said.reason = None \/ asked.proto # "openai" => "finish" \notin Kinds(out)
      /\ Told(out, said.parts, Written, said.missed)
      /\ said.begun => Begun(out, said.missed)
      /\ ~said.begun => out = << >>
  BY <1>2, NotEnded
<1>5. Written' = Written
  BY <1>2 DEF Written
<1>6. Told(out', said'.parts, Written', said'.missed)
  <2>1. Told(out, said.parts, Written, said.missed)
    BY <1>4
  <2>2. Told(out, said.parts, Written, said.missed \cup {kind})
    BY <2>1, MissedTold
  <2> QED
    BY <1>2, <1>5, <2>2
<1>7. "finish" \notin Kinds(out')
  BY <1>2, <1>4
<1>8. said'.begun => Begun(out', said'.missed)
  <2>1. CASE said.begun
    <3>1. Begun(out, said.missed)
      BY <1>4, <2>1
    <3>2. Begun(out, said.missed \cup {kind})
      BY <3>1, MissedBegun
    <3> QED
      BY <1>2, <3>2
  <2>2. CASE kind = "message_start"
    <3>1. Headless(said.missed \cup {kind})
      BY <2>2, MissingMore
    <3>2. out \in Seq(Chunk)
      BY <1>1 DEF Typed
    <3> QED
      BY <1>2, <1>4, <3>1, <3>2 DEF Begun
  <2> QED
    BY <1>2, <2>1, <2>2
<1>9. Typed'
  <2>1. used' \in [turns : 0 .. MaxTurns, parts : 0 .. MaxParts, lost : 0 .. MaxLost]
    <3>1. used \in [turns : 0 .. MaxTurns, parts : 0 .. MaxParts, lost : 0 .. MaxLost]
      BY <1>1 DEF Typed
    <3> QED
      BY <1>2, <3>1, Bounds
  <2> QED
    BY <1>1, <1>2, <2>1, AnswerTyped, WrittenNat
<1>10. SaidWell'
  BY <1>1, <1>2, <1>3 DEF SaidWell
<1>11. StreamInv'
  <2>1. Answering' <=> Answering
    BY <1>2 DEF Answering
  <2>2. ~Answering => out' = << >>
    BY <1>1, <1>2 DEF StreamInv, Answering
  <2> QED
    BY <1>6, <1>7, <2>1, <2>2 DEF StreamInv
<1>12. OpenInv'
  <2>1. Numbers
    BY <1>1, <1>2 DEF OpenInv
  <2>2. ~Garbled(said'.missed) => ~Garbled(said.missed)
    BY <1>2, MissingMore
  <2>3. Numbers'
    BY <1>2, <2>1, <2>2 DEF Numbers, EndsWith
  <2>4. ~said'.begun => out' = << >>
    BY <1>2, <1>4
  <2>5. asked.proto = "gemini" => tr.roleSent = said.begun
    BY <1>1, <1>2 DEF OpenInv
  <2>6. asked'.proto = "gemini" => tr'.roleSent = said'.begun
    BY <1>2, <1>3, <2>5
  <2> QED
    BY <1>2, <1>7, <1>8, <2>3, <2>4, <2>6 DEF OpenInv
<1>13. OutcomeInv'
  BY <1>1, <1>2 DEF OutcomeInv
<1> QED
  BY <1>9, <1>10, <1>11, <1>12, <1>13 DEF AnswerInv

(* Before the first event: no translator wrote anything. *)
LEMMA Starts ==
  /\ A!StreamStart \in AnthropicTr /\ A!StreamStart.next = 0 /\ DOMAIN A!StreamStart.index = {}
  /\ G!StreamStart \in GeminiTr /\ G!StreamStart.next = 0 /\ G!StreamStart.roleSent = FALSE
  /\ Silence \in SaidType /\ Silence.parts = << >> /\ Silence.reason = None
  /\ Silence.begun = FALSE /\ Silence.missed = {}
<1>1. << >> \in Numbering
  <2>1. << >> \in [{} -> Nat]
    OBVIOUS
  <2> QED
    BY <2>1 DEF Numbering
<1>2. A!StreamStart = [index |-> << >>, next |-> 0, finish |-> None]
  BY DEF A!StreamStart
<1>3. A!StreamStart \in AnthropicTr /\ A!StreamStart.next = 0 /\ DOMAIN A!StreamStart.index = {}
  BY <1>1, <1>2 DEF AnthropicTr
<1>4. G!StreamStart \in GeminiTr /\ G!StreamStart.next = 0 /\ G!StreamStart.roleSent = FALSE
  BY DEF G!StreamStart, GeminiTr
<1>5. Silence \in SaidType /\ Silence.parts = << >> /\ Silence.reason = None
      /\ Silence.begun = FALSE /\ Silence.missed = {}
  <2>1. << >> \in Seq(Part)
    OBVIOUS
  <2> QED
    BY <2>1 DEF Silence, SaidType
<1> QED
  BY <1>3, <1>4, <1>5

(* A request begins an answer with nothing said and nothing written. *)
LEMMA SendKeeps ==
  ASSUME AnswerInv, NEW proto \in Protocol, NEW streaming \in BOOLEAN, Send(proto, streaming)
  PROVE  AnswerInv'
<1>1. Typed
  BY DEF AnswerInv
<1>2. /\ asked' = [proto |-> proto, streaming |-> streaming]
      /\ phase' \in {"open", "refused"} /\ said' = Silence /\ out' = << >>
      /\ tr' = IF proto = "gemini" THEN G!StreamStart ELSE A!StreamStart
      /\ outcome' \in {"none", "failed"} /\ conv' = conv /\ params' = params
  BY DEF Send
<1>3. asked'.proto = proto /\ asked'.streaming = streaming
      /\ asked' \in [proto : Protocol, streaming : BOOLEAN]
  BY <1>2
<1>4. used' \in [turns : 0 .. MaxTurns, parts : 0 .. MaxParts, lost : 0 .. MaxLost]
  <2>1. used' = [turns |-> used.turns + 1, parts |-> used.parts, lost |-> used.lost]
    BY <1>1, SaidFields DEF Send, Use
  <2>2. used \in [turns : 0 .. MaxTurns, parts : 0 .. MaxParts, lost : 0 .. MaxLost]
    BY <1>1 DEF Typed
  <2>3. used.turns < MaxTurns
    BY DEF Send
  <2> QED
    BY <2>1, <2>2, <2>3, Bounds
<1>5. /\ proto = "gemini" => tr' \in GeminiTr /\ tr'.next = 0 /\ tr'.roleSent = FALSE
      /\ proto # "gemini" => tr' \in AnthropicTr /\ tr'.next = 0 /\ DOMAIN tr'.index = {}
  BY <1>2, Starts
<1>6. said' \in SaidType /\ said'.parts = << >> /\ said'.reason = None
      /\ said'.begun = FALSE /\ said'.missed = {}
  BY <1>2, Starts
<1>7. Typed'
  <2>1. << >> \in Seq(Chunk)
    OBVIOUS
  <2> QED
    BY <1>1, <1>2, <1>3, <1>4, <1>5, <1>6, <2>1 DEF Typed
<1>8. SaidWell'
  BY <1>6 DEF SaidWell
<1>9. StreamInv'
  <2>1. Written' = 0
    BY <1>3, <1>5, <1>6, NothingSaid DEF Written
  <2>2. Told(<< >>, << >>, 0, {}) /\ Kinds(<< >>) = {}
    <3>1. << >> \in Seq(Chunk)
      OBVIOUS
    <3>2. Kinds(<< >>) = {} /\ WellFormed(<< >>, {}) /\ Carries(<< >>, << >>, 0, {})
      BY NothingWritten, WellFormedNothing, CarriesNothing, Zenon
    <3> QED
      BY <3>1, <3>2 DEF Told
  <2> QED
    BY <1>2, <1>6, <2>1, <2>2 DEF StreamInv
<1>10. OpenInv'
  <2>1. Numbers'
    BY <1>3, <1>5, <1>6 DEF Numbers, EndsWith
  <2>2. Kinds(<< >>) = {}
    BY NothingWritten
  <2> QED
    BY <1>2, <1>3, <1>5, <1>6, <2>1, <2>2 DEF OpenInv
<1>11. OutcomeInv'
  BY <1>2 DEF OutcomeInv
<1> QED
  BY <1>7, <1>8, <1>9, <1>10, <1>11 DEF AnswerInv

----------------------------------------------------------------------------
(* What the client hears. *)

LEMMA TextOfOne ==
  ASSUME NEW t, t \in Text
  PROVE  TextOf(<< t >>) = t /\ TextOf(None) = << >> /\ << t >> \in Content
<1> DEFINE c == << t >>
<1>1. c \in Seq(Text \cup {Image, Unknown})
  OBVIOUS
<1>2. c # None /\ t # Unknown
  BY <1>1, Bounds
<1>3. [i \in DOMAIN c |-> IF c[i] = Unknown THEN Blank ELSE c[i]] = << t >>
  BY <1>2
<1>4. FlattenSeq(<< t >>) = t
  <2>1. t \in Seq(TextPiece)
    BY DEF Text
  <2> QED
    BY <2>1, FlatOne
<1> HIDE DEF c
<1>5. TextOf(c) = t
  BY <1>2, <1>3, <1>4 DEF TextOf
<1> QED
  BY <1>1, <1>5 DEF c, TextOf, Blank, Content

(* The call a client puts together is one. *)
LEMMA CallAtType ==
  ASSUME NEW o, NEW i, o \in Seq(Chunk), i \in Indexes(o)
  PROVE  CallAt(o, i) \in Call
<1> DEFINE k == FirstOf(OfCall(o, i))
<1>1. OfCall(o, i) # {}
  BY HasIndex
<1>2. PICK c : c \in Chunk
  BY SimpleChunks
<1>3. OfCall(o, i) \subseteq 1 .. Len(o) /\ Len(o) \in Nat
  BY <1>2, OfCallOneMore
<1>4. k \in OfCall(o, i)
  BY <1>1, <1>3, FirstExists
<1>5. k \in 1 .. Len(o) /\ o[k].kind = "call"
  BY <1>3, <1>4 DEF OfCall
<1>6. CallAt(o, i) = ToolCall(o[k].id, o[k].name, ArgsAt(o, i))
  BY CallParts
<1>7. ArgsAt(o, i) \in Seq(ArgPiece)
  BY <1>2, WriteArgs
<1> HIDE DEF k
<1>8. o[k].id \in Id \cup {None} /\ o[k].name \in Name \cup {None}
  BY <1>5, ChunkOfCall
<1> QED
  BY <1>6, <1>7, <1>8 DEF ToolCall, Call

(* The k-th of the indexes is k - 1. *)
LEMMA NthIndex ==
  ASSUME NEW n, NEW k, n \in Nat, k \in 1 .. n
  PROVE  Nth(0 .. n - 1, k) = k - 1
<1>1. ASSUME NEW i \in 0 .. n - 1
      PROVE  Cardinality({j \in 0 .. n - 1 : j <= i}) = i + 1
  <2>1. {j \in 0 .. n - 1 : j <= i} = 0 .. i
    OBVIOUS
  <2>2. Cardinality(0 .. i) = IF 0 > i THEN 0 ELSE i - 0 + 1
    BY FS_Interval
  <2>3. ~(0 > i) /\ i - 0 + 1 = i + 1
    OBVIOUS
  <2>4. Cardinality(0 .. i) = i + 1
    BY <2>2, <2>3
  <2> QED
    BY <2>1, <2>4, Zenon
<1>2. k - 1 \in 0 .. n - 1 /\ Cardinality({j \in 0 .. n - 1 : j <= k - 1}) = k
  BY <1>1
<1>3. \E i \in 0 .. n - 1 : Cardinality({j \in 0 .. n - 1 : j <= i}) = k
  BY <1>2
<1>4. Nth(0 .. n - 1, k) \in 0 .. n - 1
      /\ Cardinality({j \in 0 .. n - 1 : j <= Nth(0 .. n - 1, k)}) = k
  BY <1>3, Zenon DEF Nth
<1>5. Nth(0 .. n - 1, k) + 1 = k
  BY <1>1, <1>4
<1> QED
  BY <1>4, <1>5

(* The calls of a whole answer, and of a stream. *)
Matches(heard, calls) ==
  /\ heard \in Seq(Call) /\ Len(heard) = Len(calls)
  /\ \A i \in 1 .. Len(calls) :
       /\ heard[i].name = calls[i].name
       /\ SameArguments(heard[i].args, calls[i].args)
       /\ calls[i].id # None => heard[i].id = calls[i].id
       /\ heard[i].id \in Id

DistinctIds(calls) ==
  \A i, j \in 1 .. Len(calls) : calls[i].id = calls[j].id => i = j

(* Every call of the model has an id of its own (Anthropic and OpenAI), made
   from the turn and the parts said before it, or none (Gemini). *)
OwnIds(calls, turn, n) ==
  /\ DistinctIds(calls)
  /\ \A i \in 1 .. Len(calls) : \E k \in 0 .. n - 1 : calls[i].id = << "id", turn, k >>

NoIds(calls) == \A i \in 1 .. Len(calls) : calls[i].id = None

IdsInv ==
  phase \in {"open", "ended"} =>
    IF asked.proto = "gemini" THEN NoIds(CallsOf(said.parts))
    ELSE OwnIds(CallsOf(said.parts), used.turns, used.parts)

(* The translators read the chat format the same way. *)
LEMMA SameDefs ==
  /\ \A p : A!CallsOf(p) = CallsOf(p)
  /\ \A p : A!TextSaid(p) = TextSaid(p) /\ G!TextSaid(p) = TextSaid(p)
  /\ \A i, n, x : A!ToolCall(i, n, x) = ToolCall(i, n, x) /\ G!ToolCall(i, n, x) = ToolCall(i, n, x)
  /\ \A c, d : A!AssistantMessage(c, d) = AssistantMessage(c, d)
               /\ G!AssistantMessage(c, d) = AssistantMessage(c, d)
  /\ \A s : G!FlattenSeq(s) = FlattenSeq(s) /\ A!FlattenSeq(s) = FlattenSeq(s)
  /\ \A c : A!TextOf(c) = TextOf(c) /\ G!TextOf(c) = TextOf(c)
  /\ \A c : A!HasImage(c) = HasImage(c) /\ G!HasImage(c) = HasImage(c)
  /\ \A c : A!HasUnknown(c) = HasUnknown(c) /\ G!HasUnknown(c) = HasUnknown(c)
  /\ \A s : A!ToSet(s) = ToSet(s) /\ G!ToSet(s) = ToSet(s)
  /\ A!Blank = << >> /\ G!Blank = << >> /\ Blank = << >>
BY DEF A!CallsOf, CallsOf, A!TextSaid, TextSaid, G!TextSaid, A!ToolCall, ToolCall, G!ToolCall,
       A!AssistantMessage, AssistantMessage, G!AssistantMessage, A!Message, Message, G!Message,
       G!FlattenSeq, A!FlattenSeq, FlattenSeq, A!TextOf, TextOf, G!TextOf, A!HasImage, HasImage,
       G!HasImage, A!HasUnknown, HasUnknown, G!HasUnknown, A!ToSet, ToSet, G!ToSet,
       A!Blank, G!Blank, Blank

LEMMA CallIs ==
  ASSUME NEW id, NEW name, NEW args, id \in Id \cup {None}, name \in Name \cup {None},
         args \in Seq(ArgPiece)
  PROVE  /\ ToolCall(id, name, args) \in Call /\ ToolCall(id, name, args).id = id
         /\ ToolCall(id, name, args).name = name /\ ToolCall(id, name, args).args = args
BY DEF ToolCall, Call

(* The calls of an answer are among its parts. *)
LEMMA CallsType ==
  ASSUME NEW parts, parts \in Seq(Part)
  PROVE  CallsOf(parts) \in Seq(CallPartType)
<1>1. PICK p : p \in Part
  <2>1. << >> \in Text
    BY DEF Text
  <2>2. [type |-> "text", text |-> << >>] \in Part
    BY <2>1 DEF Part, TextPartType
  <2> QED
    BY <2>2
<1> QED
  BY <1>1, CallOneMore

(* The ids a model gives are numbered by the turn and the parts used so far,
   so no two calls share one; Gemini gives none. *)
LEMMA MoreIds ==
  ASSUME NEW calls, NEW t, NEW n, n \in Nat, OwnIds(calls, t, n)
  PROVE  OwnIds(calls, t, n + 1)
BY DEF OwnIds

LEMMA OneId ==
  ASSUME NEW calls, NEW t, NEW n, NEW p, n \in Nat, calls \in Seq(CallPartType),
         p \in CallPartType, OwnIds(calls, t, n), p.id = << "id", t, n >>
  PROVE  OwnIds(calls \o << p >>, t, n + 1)
<1> DEFINE all == calls \o << p >>
<1>1. /\ Len(all) = Len(calls) + 1 /\ Len(calls) \in Nat /\ all[Len(calls) + 1] = p
      /\ \A i \in 1 .. Len(calls) : all[i] = calls[i]
  OBVIOUS
<1> HIDE DEF all
<1>2. \A i \in 1 .. Len(calls) : \E k \in 0 .. n - 1 : calls[i].id = << "id", t, k >>
  BY DEF OwnIds
<1>3. \A k \in 0 .. n - 1 : << "id", t, k >> # << "id", t, n >>
  OBVIOUS
<1>4. \A i \in 1 .. Len(calls) : calls[i].id # p.id
  BY <1>2, <1>3
<1>5. \A i \in 1 .. Len(all) : \E k \in 0 .. n + 1 - 1 : all[i].id = << "id", t, k >>
  <2> SUFFICES ASSUME NEW i \in 1 .. Len(all)
               PROVE  \E k \in 0 .. n + 1 - 1 : all[i].id = << "id", t, k >>
    OBVIOUS
  <2>1. CASE i \in 1 .. Len(calls)
    <3>1. PICK k \in 0 .. n - 1 : calls[i].id = << "id", t, k >>
      BY <1>2, <2>1
    <3>2. k \in 0 .. n + 1 - 1 /\ all[i].id = << "id", t, k >>
      BY <1>1, <2>1, <3>1
    <3> QED
      BY <3>2
  <2>2. CASE i = Len(calls) + 1
    <3>1. n \in 0 .. n + 1 - 1 /\ all[i].id = << "id", t, n >>
      BY <1>1, <2>2
    <3> QED
      BY <3>1
  <2> QED
    BY <1>1, <2>1, <2>2
<1>6. DistinctIds(all)
  <2>1. DistinctIds(calls)
    BY DEF OwnIds
  <2>2. ASSUME NEW i \in 1 .. Len(all), NEW j \in 1 .. Len(all), all[i].id = all[j].id
        PROVE  i = j
    <3>1. CASE i \in 1 .. Len(calls) /\ j \in 1 .. Len(calls)
      <4>1. calls[i].id = calls[j].id
        BY <1>1, <2>2, <3>1
      <4> QED
        BY <2>1, <3>1, <4>1 DEF DistinctIds
    <3>2. CASE i \in 1 .. Len(calls) /\ j = Len(calls) + 1
      BY <1>1, <1>4, <2>2, <3>2
    <3>3. CASE i = Len(calls) + 1 /\ j \in 1 .. Len(calls)
      BY <1>1, <1>4, <2>2, <3>3
    <3> QED
      BY <1>1, <3>1, <3>2, <3>3
  <2> QED
    BY <2>2 DEF DistinctIds
<1>7. OwnIds(all, t, n + 1)
  BY <1>5, <1>6 DEF OwnIds
<1> QED
  BY <1>7 DEF all

LEMMA SameIds ==
  ASSUME NEW calls, NEW t, NEW n, NEW p, NEW q, n \in Nat, calls \in Seq(CallPartType),
         p \in CallPartType, q \in CallPartType, q.id = p.id, OwnIds(calls \o << p >>, t, n)
  PROVE  OwnIds(calls \o << q >>, t, n)
<1> DEFINE a == calls \o << p >>
<1> DEFINE b == calls \o << q >>
<1>1. /\ Len(a) = Len(calls) + 1 /\ Len(b) = Len(calls) + 1 /\ Len(calls) \in Nat
      /\ a[Len(calls) + 1] = p /\ b[Len(calls) + 1] = q
      /\ \A i \in 1 .. Len(calls) : a[i] = b[i]
  OBVIOUS
<1>2. OwnIds(a, t, n)
  OBVIOUS
<1> HIDE DEF a, b
<1>3. Len(b) = Len(a) /\ \A i \in 1 .. Len(a) : b[i].id = a[i].id
  BY <1>1
<1>4. OwnIds(b, t, n)
  <2>1. DistinctIds(b)
    <3>1. DistinctIds(a)
      BY <1>2 DEF OwnIds
    <3> QED
      BY <1>3, <3>1 DEF DistinctIds
  <2>2. \A i \in 1 .. Len(a) : \E k \in 0 .. n - 1 : a[i].id = << "id", t, k >>
    BY <1>2 DEF OwnIds
  <2>3. \A i \in 1 .. Len(b) : \E k \in 0 .. n - 1 : b[i].id = << "id", t, k >>
    BY <1>3, <2>2
  <2> QED
    BY <2>1, <2>3 DEF OwnIds
<1> QED
  BY <1>4 DEF b

LEMMA NoMoreIds ==
  ASSUME NEW calls, NEW p, calls \in Seq(CallPartType), p \in CallPartType,
         NoIds(calls), p.id = None
  PROVE  NoIds(calls \o << p >>)
<1> DEFINE all == calls \o << p >>
<1>1. /\ Len(all) = Len(calls) + 1 /\ Len(calls) \in Nat /\ all[Len(calls) + 1] = p
      /\ \A i \in 1 .. Len(calls) : all[i] = calls[i]
  OBVIOUS
<1> HIDE DEF all
<1>2. NoIds(all)
  BY <1>1 DEF NoIds
<1> QED
  BY <1>2 DEF all

(* A part of a Gemini answer brings no id. *)
LEMMA PartNoIds ==
  ASSUME NEW parts, NEW p, parts \in Seq(Part), p \in Part, NoIds(CallsOf(parts)),
         p.type = "call" => p.id = None
  PROVE  NoIds(CallsOf(Append(parts, p)))
<1>1. CallsOf(parts) \in Seq(CallPartType)
      /\ CallsOf(Append(parts, p)) = CallsOf(parts) \o (IF p.type = "call" THEN << p >> ELSE << >>)
  BY CallOneMore
<1>2. CASE p.type = "call"
  <2>1. p \in CallPartType
    BY <1>2, PartCases
  <2> QED
    BY <1>1, <1>2, <2>1, NoMoreIds
<1>3. CASE p.type # "call"
  <2>1. CallsOf(Append(parts, p)) = CallsOf(parts)
    BY <1>1, <1>3
  <2> QED
    BY <2>1
<1> QED
  BY <1>2, <1>3

(* What adds no part leaves the ids alone. *)
LEMMA IdsKept ==
  ASSUME Typed, IdsInv, phase = "open", phase' \in {"open", "ended"}, asked' = asked,
         said'.parts = said.parts,
         used'.turns = used.turns, used'.parts = used.parts
  PROVE  IdsInv'
BY DEF IdsInv

(* Every action keeps the invariant of the ids. *)
LEMMA NextKeepsIds ==
  ASSUME AnswerInv, IdsInv, Next
  PROVE  IdsInv'
<1>1. Typed
  BY DEF AnswerInv
<1>2. ASSUME NEW proto \in Protocol, NEW s \in BOOLEAN, Send(proto, s)
      PROVE  IdsInv'
  <2>1. CallsOf(said'.parts) = << >>
    BY <1>2, Starts, NothingSaid DEF Send
  <2> QED
    BY <2>1 DEF IdsInv, NoIds, OwnIds, DistinctIds
<1>3. CASE Begin
  <2>1. said'.parts = said.parts
    BY <1>1, <1>3, SaidFields DEF Begin
  <2> QED
    BY <1>1, <1>3, <2>1, IdsKept DEF Begin, Open
<1>4. CASE SayText
  <2>1. /\ phase = "open" /\ phase' = phase /\ asked' = asked
        /\ CallsOf(said'.parts) = CallsOf(said.parts) /\ asked.proto # "gemini"
    BY <1>1, <1>4, SayTextParts DEF SayText
  <2>2. used'.turns = used.turns /\ used'.parts = used.parts + 1 /\ used.parts \in Nat
    BY <1>1, <1>4, UseParts, SaidFields DEF SayText
  <2>3. OwnIds(CallsOf(said.parts), used.turns, used.parts)
    BY <2>1 DEF IdsInv
  <2>4. OwnIds(CallsOf(said.parts), used.turns, used.parts + 1)
    BY <2>2, <2>3, MoreIds
  <2> QED
    BY <2>1, <2>2, <2>4 DEF IdsInv
<1>5. ASSUME NEW n \in Name, NEW readable \in BOOLEAN, SayCall(n, readable)
      PROVE  IdsInv'
  <2> DEFINE p == CallPart(Piece("id"), n, << >>)
  <2>1. /\ p \in CallPartType /\ p \in Part /\ p.type = "call" /\ p.id = Piece("id")
        /\ said'.parts = Append(said.parts, p) /\ phase = "open" /\ asked.proto # "gemini"
        /\ used'.parts = used.parts + 1 /\ used'.turns = used.turns
    BY <1>1, <1>5, SayCallParts
  <2> HIDE DEF p
  <2>2. p.id = << "id", used.turns, used.parts >>
    BY <2>1 DEF Piece
  <2>3. phase' = phase /\ asked' = asked
    BY <1>5 DEF SayCall
  <2>4. said.parts \in Seq(Part) /\ used.parts \in Nat
    BY <1>1, SaidFields
  <2>5. CallsOf(said.parts) \in Seq(CallPartType) /\ CallsOf(said'.parts) = CallsOf(said.parts) \o << p >>
    BY <2>1, <2>4, CallOneMore
  <2>6. OwnIds(CallsOf(said.parts), used.turns, used.parts)
    BY <2>1 DEF IdsInv
  <2>7. OwnIds(CallsOf(said.parts) \o << p >>, used.turns, used.parts + 1)
    BY <2>1, <2>2, <2>4, <2>5, <2>6, OneId
  <2> QED
    BY <2>1, <2>3, <2>5, <2>7 DEF IdsInv
<1>6. ASSUME NEW piece \in {Piece("args"), Closing}, SayArguments(piece)
      PROVE  IdsInv'
  <2> DEFINE f == Front(said.parts)
  <2> DEFINE p == Last(said.parts)
  <2> DEFINE q == [p EXCEPT !.args = @ \o << piece >>]
  <2>1. /\ said' = [parts |-> Append(f, q), reason |-> said.reason, begun |-> said.begun,
                    missed |-> said.missed]
        /\ phase = "open" /\ asked.proto # "gemini"
        /\ p \in CallPartType /\ q \in CallPartType /\ f \in Seq(Part) /\ said.parts = Append(f, p)
        /\ q.id = p.id /\ q.type = "call"
    BY <1>1, <1>6, SayArgumentsParts
  <2> HIDE DEF f, p, q
  <2>2. phase' = phase /\ asked' = asked
    BY <1>6 DEF SayArguments
  <2>3. used'.turns = used.turns /\ used'.parts = used.parts + 1 /\ used.parts \in Nat
    BY <1>1, <1>6, UseParts, SaidFields DEF SayArguments
  <2>4. p.type = "call" /\ p \in Part /\ q \in Part
    BY <2>1 DEF CallPartType, Part
  <2>5. /\ CallsOf(f) \in Seq(CallPartType)
        /\ CallsOf(Append(f, p)) = CallsOf(f) \o << p >>
        /\ CallsOf(Append(f, q)) = CallsOf(f) \o << q >>
    BY <2>1, <2>4, CallOneMore
  <2>6. OwnIds(CallsOf(f) \o << p >>, used.turns, used.parts)
    BY <2>1, <2>5 DEF IdsInv
  <2>7. OwnIds(CallsOf(f) \o << q >>, used.turns, used.parts)
    BY <2>1, <2>3, <2>5, <2>6, SameIds
  <2>8. OwnIds(CallsOf(f) \o << q >>, used.turns, used.parts + 1)
    BY <2>3, <2>7, MoreIds
  <2>9. CallsOf(said'.parts) = CallsOf(f) \o << q >>
    BY <2>1, <2>5
  <2> QED
    BY <2>1, <2>2, <2>3, <2>8, <2>9 DEF IdsInv
<1>7. ASSUME NEW reason \in {"end_turn", "max_tokens", "tool_use"}, SayReason(reason)
      PROVE  IdsInv'
  <2>1. said'.parts = said.parts
    BY <1>1, <1>7, SaidFields DEF SayReason
  <2> QED
    BY <1>1, <1>7, <2>1, IdsKept DEF SayReason, Open
<1>8. ASSUME NEW parts \in GeminiParts, NEW reason \in GeminiReasons, GeminiSays(parts, reason)
      PROVE  IdsInv'
  <2>1. said' = [parts |-> said.parts \o parts, reason |-> reason, begun |-> TRUE,
                 missed |-> said.missed]
    BY <1>1, <1>8, SaidFields DEF GeminiSays
  <2>2. phase = "open" /\ phase' = phase /\ asked' = asked /\ asked.proto = "gemini"
    BY <1>8 DEF GeminiSays, Streaming, Open
  <2>3. said.parts \in Seq(Part)
    BY <1>1, SaidFields
  <2>4. /\ \A i \in DOMAIN parts : parts[i] \in Part /\ (parts[i].type = "call" => parts[i].id = None)
        /\ \/ parts = << >>
           \/ \E p \in Part : parts = << p >>
           \/ \E p, q \in Part : parts = << p, q >>
    BY <1>1, GeminiPartsAre
  <2>5. NoIds(CallsOf(said.parts))
    BY <2>2 DEF IdsInv
  <2>6. NoIds(CallsOf(said.parts \o parts))
    <3>1. CASE parts = << >>
      BY <2>3, <2>5, <3>1, ConcatFew
    <3>2. CASE \E p \in Part : parts = << p >>
      <4>1. PICK p \in Part : parts = << p >>
        BY <3>2
      <4>2. p.type = "call" => p.id = None
        BY <2>4, <4>1
      <4>3. said.parts \o parts = Append(said.parts, p)
        BY <2>3, <4>1, ConcatFew
      <4> QED
        BY <2>3, <2>5, <4>2, <4>3, PartNoIds
    <3>3. CASE \E p, q \in Part : parts = << p, q >>
      <4>1. PICK p \in Part, q \in Part : parts = << p, q >>
        BY <3>3
      <4>2. /\ p.type = "call" => p.id = None
            /\ q.type = "call" => q.id = None
        <5>1. 1 \in DOMAIN parts /\ 2 \in DOMAIN parts /\ parts[1] = p /\ parts[2] = q
          BY <4>1
        <5> QED
          BY <2>4, <5>1
      <4> DEFINE s == Append(said.parts, p)
      <4>3. said.parts \o parts = Append(s, q) /\ s \in Seq(Part)
        BY <2>3, <4>1, ConcatFew
      <4>4. NoIds(CallsOf(s))
        BY <2>3, <2>5, <4>2, PartNoIds
      <4> HIDE DEF s
      <4> QED
        BY <4>2, <4>3, <4>4, PartNoIds
    <3> QED
      BY <2>4, <3>1, <3>2, <3>3
  <2>7. said'.parts = said.parts \o parts
    BY <2>1
  <2> QED
    BY <2>2, <2>6, <2>7 DEF IdsInv
<1>9. CASE AnswerEnds
  BY <1>1, <1>9, IdsKept DEF AnswerEnds, Open
<1>10. CASE ErrorEvent
  BY <1>1, <1>10, IdsKept DEF ErrorEvent, Streaming, Open
<1>11. CASE EndsEarly
  BY <1>1, <1>11, IdsKept DEF EndsEarly, Open
<1>12. CASE Breaks
  BY <1>1, <1>12, IdsKept DEF Breaks, Open
<1>13. CASE GoOn
  BY <1>13 DEF GoOn, IdsInv
<1>14. ASSUME NEW kind \in Event, SkipEvent(kind)
       PROVE  IdsInv'
  <2>1. /\ phase = "open" /\ phase' = phase /\ asked' = asked /\ said'.parts = said.parts
        /\ used'.turns = used.turns /\ used'.parts = used.parts
    BY <1>1, <1>14, SkipEventParts
  <2> QED
    BY <1>1, <2>1, IdsKept
<1> QED
  BY <1>2, <1>3, <1>4, <1>5, <1>6, <1>7, <1>8, <1>9, <1>10, <1>11, <1>12, <1>13, <1>14 DEF Next

----------------------------------------------------------------------------
(* The calls of a whole Gemini answer. *)

Given(args) == IF args = << >> THEN << EmptyObject >> ELSE args

CallGiven(p, i) == IF p.type = "call" THEN << ToolCall(<< "call", i - 1 >>, p.name, Given(p.args)) >> ELSE << >>

GeminiCalls(parts) == FlattenSeq([i \in DOMAIN parts |-> CallGiven(parts[i], i)])

(* The arguments of a call, {} when it has none. *)
LEMMA GivenArgs ==
  ASSUME NEW x, x \in Seq(ArgPiece)
  PROVE  Given(x) \in Seq(ArgPiece) /\ SameArguments(Given(x), x)
<1>1. << EmptyObject >> \in Seq(ArgPiece)
  <2>1. EmptyObject \in ArgPiece
    BY DEF ArgPiece
  <2> QED
    BY <2>1
<1>2. CASE x = << >>
  BY <1>1, <1>2 DEF Given, SameArguments
<1>3. CASE x # << >>
  BY <1>3 DEF Given, SameArguments
<1> QED
  BY <1>2, <1>3

LEMMA CallGivenIs ==
  ASSUME NEW p, NEW i, p \in Part, i \in Nat, i # 0
  PROVE  /\ CallGiven(p, i) \in Seq(Call)
         /\ p.type # "call" => CallGiven(p, i) = << >>
         /\ p.type = "call" =>
              \E c \in Call :
                /\ CallGiven(p, i) = << c >> /\ c.id = << "call", i - 1 >> /\ c.id \in Id
                /\ c.name = p.name /\ SameArguments(c.args, p.args)
<1>1. CASE p.type # "call"
  BY <1>1 DEF CallGiven
<1>2. CASE p.type = "call"
  <2> DEFINE c == ToolCall(<< "call", i - 1 >>, p.name, Given(p.args))
  <2>1. p \in CallPartType /\ p.args \in Seq(ArgPiece)
    BY <1>2, PartCases
  <2>2. p.name \in Name
    BY <2>1 DEF CallPartType
  <2>3. << "call", i - 1 >> \in Id
    BY DEF Id
  <2>4. Given(p.args) \in Seq(ArgPiece) /\ SameArguments(Given(p.args), p.args)
    BY <2>1, GivenArgs
  <2>5. c \in Call /\ c.id = << "call", i - 1 >> /\ c.name = p.name /\ c.args = Given(p.args)
    BY <2>2, <2>3, <2>4, CallIs
  <2>6. CallGiven(p, i) = << c >>
    BY <1>2 DEF CallGiven
  <2> HIDE DEF c
  <2>7. CallGiven(p, i) \in Seq(Call)
    BY <2>5, <2>6
  <2> QED
    BY <1>2, <2>3, <2>4, <2>5, <2>6, <2>7
<1> QED
  BY <1>1, <1>2

(* What one more part adds to the calls of an answer. *)
LEMMA GeminiOneMore ==
  ASSUME NEW parts, NEW p, parts \in Seq(Part), p \in Part
  PROVE  /\ GeminiCalls(parts) \in Seq(Call)
         /\ GeminiCalls(Append(parts, p)) = GeminiCalls(parts) \o CallGiven(p, Len(parts) + 1)
<1> DEFINE all == Append(parts, p)
<1> DEFINE s == [i \in DOMAIN parts |-> CallGiven(parts[i], i)]
<1> DEFINE m == [i \in DOMAIN all |-> CallGiven(all[i], i)]
<1> DEFINE x == CallGiven(p, Len(parts) + 1)
<1>1. /\ DOMAIN parts = 1 .. Len(parts) /\ Len(parts) \in Nat
      /\ DOMAIN all = 1 .. Len(parts) + 1 /\ all[Len(parts) + 1] = p
      /\ \A i \in 1 .. Len(parts) : all[i] = parts[i] /\ parts[i] \in Part
  OBVIOUS
<1> HIDE DEF all
<1>2. \A i \in 1 .. Len(parts) : CallGiven(parts[i], i) \in Seq(Call)
  BY <1>1, CallGivenIs
<1>3. s \in Seq(Seq(Call)) /\ Len(s) = Len(parts)
  BY <1>1, <1>2
<1>4. x \in Seq(Call)
  BY <1>1, CallGivenIs
<1>5. Extends(m, s, x)
  <2>1. IsFun(m, Len(s) + 1) /\ \A k \in 1 .. Len(s) : m[k] = s[k]
    BY <1>1, <1>3 DEF IsFun
  <2>2. m[Len(s) + 1] = x
    BY <1>1, <1>3
  <2> QED
    BY <2>1, <2>2 DEF Same, Extends
<1>6. GeminiCalls(all) = FlattenSeq(m) /\ GeminiCalls(parts) = FlattenSeq(s)
  BY DEF GeminiCalls
<1> HIDE DEF s, m, x
<1>7. FlattenSeq(m) = FlattenSeq(s) \o x /\ FlattenSeq(s) \in Seq(Call)
  BY <1>3, <1>4, <1>5, FlatOneMore
<1> QED
  BY <1>6, <1>7 DEF all, x

WellCalled(parts) ==
  /\ Matches(GeminiCalls(parts), CallsOf(parts))
  /\ DistinctIds(GeminiCalls(parts))
  /\ \A i \in 1 .. Len(GeminiCalls(parts)) :
       \E k \in 0 .. Len(parts) - 1 : GeminiCalls(parts)[i].id = << "call", k >>

LEMMA NoIdsBefore ==
  ASSUME NEW calls, NEW more, calls \in Seq(CallPartType), more \in Seq(CallPartType),
         NoIds(calls \o more)
  PROVE  NoIds(calls)
<1> DEFINE all == calls \o more
<1>1. /\ Len(all) = Len(calls) + Len(more) /\ Len(calls) \in Nat /\ Len(more) \in Nat
      /\ \A i \in 1 .. Len(calls) : all[i] = calls[i]
  OBVIOUS
<1>2. NoIds(all)
  OBVIOUS
<1> HIDE DEF all
<1> QED
  BY <1>1, <1>2 DEF NoIds

(* Gemini gives the ids of a whole answer by the position of the part: they
   differ, and each call is the one that was said. *)
LEMMA WholeStep ==
  ASSUME NEW parts, NEW p, parts \in Seq(Part), p \in Part, WellCalled(parts),
         NoIds(CallsOf(Append(parts, p)))
  PROVE  WellCalled(Append(parts, p))
<1> DEFINE all == Append(parts, p)
<1> DEFINE n == Len(parts)
<1> DEFINE g == GeminiCalls(parts)
<1> DEFINE h == GeminiCalls(all)
<1> DEFINE c == CallsOf(parts)
<1> DEFINE d == CallsOf(all)
<1>1. n \in Nat /\ Len(all) = n + 1
  OBVIOUS
<1>2. g \in Seq(Call) /\ h = g \o CallGiven(p, n + 1)
  BY GeminiOneMore
<1>3. c \in Seq(CallPartType) /\ d = c \o (IF p.type = "call" THEN << p >> ELSE << >>)
  BY CallOneMore
<1>4. /\ Matches(g, c) /\ DistinctIds(g)
      /\ \A i \in 1 .. Len(g) : \E k \in 0 .. n - 1 : g[i].id = << "call", k >>
  BY DEF WellCalled
<1>5. NoIds(d)
  OBVIOUS
<1>6. \/ CallGiven(p, n + 1) = << >> /\ p.type # "call"
      \/ /\ p.type = "call"
         /\ \E x \in Call :
              /\ CallGiven(p, n + 1) = << x >> /\ x.id = << "call", n + 1 - 1 >> /\ x.id \in Id
              /\ x.name = p.name /\ SameArguments(x.args, p.args)
  BY <1>1, CallGivenIs
<1> HIDE DEF all, n, g, h, c, d
<1>7. CASE p.type # "call"
  <2>1. h = g /\ d = c
    BY <1>2, <1>3, <1>6, <1>7
  <2>2. \A i \in 1 .. Len(h) : \E k \in 0 .. n + 1 - 1 : h[i].id = << "call", k >>
    <3> SUFFICES ASSUME NEW i \in 1 .. Len(h)
                 PROVE  \E k \in 0 .. n + 1 - 1 : h[i].id = << "call", k >>
      OBVIOUS
    <3>1. PICK k \in 0 .. n - 1 : g[i].id = << "call", k >>
      BY <1>4, <2>1
    <3>2. k \in 0 .. n + 1 - 1
      BY <1>1
    <3> QED
      BY <2>1, <3>1, <3>2
  <2>3. Matches(h, d) /\ DistinctIds(h)
    BY <1>4, <2>1
  <2>4. \A i \in 1 .. Len(h) : \E k \in 0 .. Len(all) - 1 : h[i].id = << "call", k >>
    BY <1>1, <2>2
  <2> QED
    BY <2>3, <2>4 DEF WellCalled, all, h, d
<1>8. CASE p.type = "call"
  <2>1. PICK x \in Call :
          /\ CallGiven(p, n + 1) = << x >> /\ x.id = << "call", n + 1 - 1 >> /\ x.id \in Id
          /\ x.name = p.name /\ SameArguments(x.args, p.args)
    BY <1>6, <1>8
  <2>2. x.id = << "call", n >>
    <3>1. n + 1 - 1 = n
      BY <1>1
    <3> QED
      BY <2>1, <3>1
  <2>3. h = g \o << x >> /\ d = c \o << p >>
    BY <1>2, <1>3, <1>8, <2>1
  <2>4. Len(g) = Len(c)
    BY <1>4 DEF Matches
  <2>5. /\ Len(h) = Len(g) + 1 /\ Len(g) \in Nat /\ h[Len(g) + 1] = x
        /\ \A i \in 1 .. Len(g) : h[i] = g[i]
        /\ h \in Seq(Call)
    BY <1>2, <2>1, <2>3
  <2>6. /\ Len(d) = Len(g) + 1 /\ d[Len(g) + 1] = p
        /\ \A i \in 1 .. Len(g) : d[i] = c[i]
    <3>1. p \in CallPartType
      BY <1>8, PartCases
    <3> QED
      BY <1>3, <2>3, <2>4, <3>1
  <2>7. Matches(h, d)
    <3> SUFFICES ASSUME NEW i \in 1 .. Len(d)
                 PROVE  /\ h[i].name = d[i].name
                        /\ SameArguments(h[i].args, d[i].args)
                        /\ d[i].id # None => h[i].id = d[i].id
                        /\ h[i].id \in Id
      BY <2>5, <2>6 DEF Matches
    <3>1. d[i].id = None
      BY <1>5 DEF NoIds
    <3>2. CASE i \in 1 .. Len(g)
      <4>1. h[i] = g[i] /\ d[i] = c[i] /\ i \in 1 .. Len(c)
        BY <2>4, <2>5, <2>6, <3>2
      <4>2. /\ g[i].name = c[i].name /\ SameArguments(g[i].args, c[i].args) /\ g[i].id \in Id
        BY <1>4, <4>1 DEF Matches
      <4> QED
        BY <3>1, <4>1, <4>2
    <3>3. CASE i = Len(g) + 1
      BY <2>1, <2>5, <2>6, <3>1, <3>3
    <3> QED
      BY <2>5, <2>6, <3>2, <3>3
  <2>8. \A i \in 1 .. Len(h) : \E k \in 0 .. n + 1 - 1 : h[i].id = << "call", k >>
    <3> SUFFICES ASSUME NEW i \in 1 .. Len(h)
                 PROVE  \E k \in 0 .. n + 1 - 1 : h[i].id = << "call", k >>
      OBVIOUS
    <3>1. CASE i \in 1 .. Len(g)
      <4>1. PICK k \in 0 .. n - 1 : g[i].id = << "call", k >>
        BY <1>4, <3>1
      <4>2. k \in 0 .. n + 1 - 1
        BY <1>1
      <4> QED
        BY <2>5, <3>1, <4>1, <4>2
    <3>2. CASE i = Len(g) + 1
      <4>1. n \in 0 .. n + 1 - 1 /\ h[i].id = << "call", n >>
        BY <1>1, <2>2, <2>5, <3>2
      <4> QED
        BY <4>1
    <3> QED
      BY <2>5, <3>1, <3>2
  <2>9. \A i \in 1 .. Len(g) : g[i].id # << "call", n >>
    <3> SUFFICES ASSUME NEW i \in 1 .. Len(g)
                 PROVE  g[i].id # << "call", n >>
      OBVIOUS
    <3>1. PICK k \in 0 .. n - 1 : g[i].id = << "call", k >>
      BY <1>4
    <3>2. k # n
      BY <1>1
    <3> QED
      BY <3>1, <3>2
  <2>10. DistinctIds(h)
    <3> SUFFICES ASSUME NEW i \in 1 .. Len(h), NEW j \in 1 .. Len(h), h[i].id = h[j].id
                 PROVE  i = j
      BY DEF DistinctIds
    <3>1. CASE i \in 1 .. Len(g) /\ j \in 1 .. Len(g)
      <4>1. g[i].id = g[j].id
        BY <2>5, <3>1
      <4> QED
        BY <1>4, <3>1, <4>1 DEF DistinctIds
    <3>2. CASE i \in 1 .. Len(g) /\ j = Len(g) + 1
      BY <2>2, <2>5, <2>9, <3>2
    <3>3. CASE i = Len(g) + 1 /\ j \in 1 .. Len(g)
      BY <2>2, <2>5, <2>9, <3>3
    <3> QED
      BY <2>5, <3>1, <3>2, <3>3
  <2> QED
    BY <1>1, <2>7, <2>8, <2>10 DEF WellCalled, all, n, g, h, c, d
<1> QED
  BY <1>7, <1>8

LEMMA WholeGemini ==
  ASSUME NEW parts, parts \in Seq(Part), NoIds(CallsOf(parts))
  PROVE  WellCalled(parts)
<1> DEFINE S == {n \in Nat : \A s \in Seq(Part) : Len(s) = n /\ NoIds(CallsOf(s)) => WellCalled(s)}
<1>1. 0 \in S
  <2> SUFFICES ASSUME NEW s \in Seq(Part), Len(s) = 0
               PROVE  WellCalled(s)
    OBVIOUS
  <2>1. s = << >>
    OBVIOUS
  <2>2. CallsOf(<< >>) = << >>
    BY NothingSaid
  <2>3. GeminiCalls(<< >>) = << >>
    <3>1. [i \in DOMAIN << >> |-> CallGiven(<< >>[i], i)] = << >>
      OBVIOUS
    <3> QED
      BY <3>1, FlatEmpty DEF GeminiCalls
  <2>4. << >> \in Seq(Call)
    OBVIOUS
  <2>5. Matches(<< >>, << >>) /\ DistinctIds(<< >>)
    BY <2>4 DEF Matches, DistinctIds
  <2> QED
    BY <2>1, <2>2, <2>3, <2>5 DEF WellCalled
<1>2. \A n \in Nat : n \in S => n + 1 \in S
  <2> SUFFICES ASSUME NEW n \in Nat, n \in S
               PROVE  n + 1 \in S
    OBVIOUS
  <2>1. \A s \in Seq(Part) : Len(s) = n /\ NoIds(CallsOf(s)) => WellCalled(s)
    OBVIOUS
  <2> SUFFICES ASSUME NEW s \in Seq(Part), Len(s) = n + 1, NoIds(CallsOf(s))
               PROVE  WellCalled(s)
    OBVIOUS
  <2> DEFINE f == Front(s)
  <2> DEFINE p == Last(s)
  <2>2. f \in Seq(Part) /\ p \in Part /\ s = Append(f, p) /\ Len(f) = Len(s) - 1
    <3>1. s # << >>
      OBVIOUS
    <3> QED
      BY <3>1, FrontLast
  <2> HIDE DEF f, p
  <2>3. CallsOf(f) \in Seq(CallPartType)
        /\ CallsOf(Append(f, p)) = CallsOf(f) \o (IF p.type = "call" THEN << p >> ELSE << >>)
    BY <2>2, CallOneMore
  <2>4. NoIds(CallsOf(f))
    <3> DEFINE more == IF p.type = "call" THEN << p >> ELSE << >>
    <3>1. more \in Seq(CallPartType)
      BY <2>2, PartCases
    <3>2. NoIds(CallsOf(f) \o more)
      BY <2>2, <2>3
    <3> HIDE DEF more
    <3> QED
      BY <2>3, <3>1, <3>2, NoIdsBefore
  <2>5. WellCalled(f)
    BY <2>1, <2>2, <2>4
  <2>6. NoIds(CallsOf(Append(f, p)))
    BY <2>2
  <2> QED
    BY <2>2, <2>5, <2>6, WholeStep
<1>3. Nat \subseteq S
  BY <1>1, <1>2, Induct
<1>4. Len(parts) \in Nat
  OBVIOUS
<1> QED
  BY <1>3, <1>4

----------------------------------------------------------------------------
(* What the client hears is what the model said. *)

LEMMA SaidTypes ==
  ASSUME NEW parts, parts \in Seq(Part)
  PROVE  /\ TextSaid(parts) \in Text /\ CallsOf(parts) \in Seq(CallPartType)
         /\ DOMAIN CallsOf(parts) = 1 .. Len(CallsOf(parts)) /\ Len(CallsOf(parts)) \in Nat
<1>1. << >> \in Seq(TextPiece)
  OBVIOUS
<1>2. << >> \in Text
  BY <1>1 DEF Text
<1>3. PICK p : p \in Part
  <2>1. [type |-> "text", text |-> << >>] \in Part
    BY <1>2 DEF Part, TextPartType
  <2> QED
    BY <2>1
<1>4. TextSaid(parts) \in Seq(TextPiece)
  BY <1>3, SayOneMore
<1>5. CallsOf(parts) \in Seq(CallPartType)
  BY CallsType
<1> QED
  BY <1>4, <1>5 DEF Text

(* A stream. *)
StreamCalls(o) ==
  [k \in 1 .. Cardinality(Indexes(o)) |-> CallAt(o, Nth(Indexes(o), k))]

StreamContent(o) == IF "text" \notin Kinds(o) THEN None ELSE << TextWritten(o) >>

(* A client of a stream puts its message together from the text and the calls
   of the chunks. *)
LEMMA AssembledIs ==
  ASSUME NEW o
  PROVE  Assembled(o) = AssistantMessage(StreamContent(o), StreamCalls(o))
BY DEF Assembled, StreamContent, StreamCalls, TextWritten

(* Indexes without a gap give a call for each. *)
LEMMA StreamCallAt ==
  ASSUME NEW o, NEW n, o \in Seq(Chunk), n \in Nat, Indexes(o) = 0 .. n - 1
  PROVE  /\ StreamCalls(o) \in Seq(Call) /\ Len(StreamCalls(o)) = n
         /\ \A k \in 1 .. n : StreamCalls(o)[k] = CallAt(o, k - 1)
<1> DEFINE ix == Indexes(o)
<1>1. Cardinality(ix) = n
  BY Interval
<1>2. \A k \in 1 .. n : Nth(ix, k) = k - 1 /\ k - 1 \in ix
  <2> SUFFICES ASSUME NEW k \in 1 .. n
               PROVE  Nth(ix, k) = k - 1 /\ k - 1 \in ix
    OBVIOUS
  <2>1. Nth(0 .. n - 1, k) = k - 1
    BY NthIndex
  <2>2. k - 1 \in 0 .. n - 1
    OBVIOUS
  <2> QED
    BY <2>1, <2>2
<1>3. \A k \in 1 .. n : CallAt(o, Nth(ix, k)) \in Call
  BY <1>2, CallAtType
<1>4. StreamCalls(o) = [k \in 1 .. n |-> CallAt(o, Nth(ix, k))]
  BY <1>1 DEF StreamCalls
<1> HIDE DEF ix
<1> QED
  BY <1>2, <1>3, <1>4

(* A call is heard by the id it was given, or by its number. *)
LEMMA HeardCallIs ==
  ASSUME NEW c, NEW i, c \in CallPartType, i \in Nat, i # 0
  PROVE  /\ HeardCall(c, i).name = c.name /\ HeardCall(c, i).args = c.args
         /\ HeardCall(c, i).id \in Id
         /\ c.id # None => HeardCall(c, i).id = c.id
         /\ c.id = None => HeardCall(c, i).id = << "call", i - 1 >>
<1>1. << "call", i - 1 >> \in Id
  BY DEF Id
<1>2. c.id \in Id \cup {None} /\ c.name \in Name /\ c.args \in Seq(ArgPiece)
  BY DEF CallPartType
<1> QED
  BY <1>1, <1>2 DEF HeardCall, ToolCall

(* The ids of a stream's calls, and of the calls the model made. *)
LEMMA StreamMatches ==
  ASSUME NEW o, NEW calls, o \in Seq(Chunk), calls \in Seq(CallPartType),
         Indexes(o) = 0 .. Len(calls) - 1, CarriesCalls(o, calls),
         NoIds(calls) \/ \E t \in Nat, n \in Nat : OwnIds(calls, t, n)
  PROVE  Matches(StreamCalls(o), calls) /\ DistinctIds(StreamCalls(o))
<1> DEFINE h == StreamCalls(o)
<1> DEFINE n == Len(calls)
<1>1. n \in Nat /\ \A k \in 1 .. n : calls[k] \in CallPartType
  OBVIOUS
<1>2. h \in Seq(Call) /\ Len(h) = n /\ \A k \in 1 .. n : h[k] = CallAt(o, k - 1)
  BY <1>1, StreamCallAt
<1>3. \A k \in 1 .. n : h[k] = HeardCall(calls[k], k)
  BY <1>2 DEF CarriesCalls
<1>4. \A k \in 1 .. n :
        /\ h[k].name = calls[k].name /\ h[k].args = calls[k].args /\ h[k].id \in Id
        /\ calls[k].id # None => h[k].id = calls[k].id
        /\ calls[k].id = None => h[k].id = << "call", k - 1 >>
  BY <1>1, <1>3, HeardCallIs
<1> HIDE DEF h, n
<1>5. Matches(h, calls)
  BY <1>2, <1>4 DEF Matches, SameArguments, n
<1>6. DistinctIds(h)
  <2> SUFFICES ASSUME NEW i \in 1 .. n, NEW j \in 1 .. n, h[i].id = h[j].id
               PROVE  i = j
    BY <1>2 DEF DistinctIds
  <2>1. CASE NoIds(calls)
    <3>1. h[i].id = << "call", i - 1 >> /\ h[j].id = << "call", j - 1 >>
      BY <1>4, <2>1 DEF NoIds, n
    <3>2. i - 1 = j - 1
      <4>1. << "call", i - 1 >> = << "call", j - 1 >>
        BY <3>1
      <4>2. << "call", i - 1 >>[2] = i - 1 /\ << "call", j - 1 >>[2] = j - 1
        OBVIOUS
      <4> QED
        BY <4>1, <4>2
    <3> QED
      BY <1>1, <3>2
  <2>2. CASE \E t \in Nat, m \in Nat : OwnIds(calls, t, m)
    <3>1. PICK t \in Nat, m \in Nat : OwnIds(calls, t, m)
      BY <2>2
    <3>2. \A k \in 1 .. n : calls[k].id # None
      <4> SUFFICES ASSUME NEW k \in 1 .. n
                   PROVE  calls[k].id # None
        OBVIOUS
      <4>1. PICK l \in 0 .. m - 1 : calls[k].id = << "id", t, l >>
        BY <3>1 DEF OwnIds, n
      <4>2. << "id", t, l >> \in Id
        BY DEF Id
      <4> QED
        BY <4>1, <4>2, Bounds
    <3>3. calls[i].id = calls[j].id
      BY <1>4, <3>2
    <3> QED
      BY <3>1, <3>3 DEF OwnIds, DistinctIds, n
  <2> QED
    BY <2>1, <2>2
<1> QED
  BY <1>5, <1>6 DEF h

----------------------------------------------------------------------------
(* A whole answer. *)
WholeCalls(calls) ==
  [i \in 1 .. Len(calls) |-> ToolCall(calls[i].id, calls[i].name, Given(calls[i].args))]

(* The calls of a whole answer of Anthropic or OpenAI are those that were
   said, under ids that differ. *)
LEMMA WholeMatches ==
  ASSUME NEW calls, calls \in Seq(CallPartType), NEW t \in Nat, NEW m \in Nat,
         OwnIds(calls, t, m)
  PROVE  Matches(WholeCalls(calls), calls) /\ DistinctIds(WholeCalls(calls))
<1> DEFINE h == WholeCalls(calls)
<1> DEFINE n == Len(calls)
<1>1. n \in Nat /\ \A k \in 1 .. n : calls[k] \in CallPartType
  OBVIOUS
<1>2. \A k \in 1 .. n : h[k] = ToolCall(calls[k].id, calls[k].name, Given(calls[k].args))
  BY DEF WholeCalls
<1>3. \A k \in 1 .. n :
        /\ h[k] \in Call /\ h[k].name = calls[k].name
        /\ SameArguments(h[k].args, calls[k].args)
        /\ h[k].id = calls[k].id /\ h[k].id \in Id
  <2> SUFFICES ASSUME NEW k \in 1 .. n
               PROVE  /\ h[k] \in Call /\ h[k].name = calls[k].name
                      /\ SameArguments(h[k].args, calls[k].args)
                      /\ h[k].id = calls[k].id /\ h[k].id \in Id
    OBVIOUS
  <2> DEFINE c == calls[k]
  <2>1. c \in CallPartType
    BY <1>1
  <2>2. c.id \in Id \cup {None} /\ c.name \in Name \cup {None} /\ c.args \in Seq(ArgPiece)
    BY <2>1 DEF CallPartType
  <2>3. Given(c.args) \in Seq(ArgPiece) /\ SameArguments(Given(c.args), c.args)
    BY <2>2, GivenArgs
  <2>4. h[k] = ToolCall(c.id, c.name, Given(c.args))
    BY <1>2
  <2>5. c.id \in Id
    <3>1. PICK l \in 0 .. m - 1 : c.id = << "id", t, l >>
      BY DEF OwnIds
    <3> QED
      BY <3>1 DEF Id
  <2> HIDE DEF c, h
  <2>6. h[k] \in Call /\ h[k].id = c.id /\ h[k].name = c.name /\ h[k].args = Given(c.args)
    BY <2>2, <2>3, <2>4, CallIs
  <2> QED
    BY <2>3, <2>5, <2>6 DEF c
<1>4. h \in Seq(Call) /\ Len(h) = n
  <2>1. h = [k \in 1 .. n |-> h[k]]
    BY DEF WholeCalls
  <2> HIDE DEF h
  <2> QED
    BY <1>1, <1>3, <2>1
<1> HIDE DEF h, n
<1>5. Matches(h, calls)
  BY <1>3, <1>4 DEF Matches, n
<1>6. DistinctIds(h)
  BY <1>3, <1>4 DEF DistinctIds, OwnIds, n
<1> QED
  BY <1>5, <1>6 DEF h

(* A whole answer is its text and its calls. *)
LEMMA WholeIs ==
  ASSUME Typed
  PROVE  Whole.message =
           AssistantMessage(<< TextSaid(said.parts) >>,
             IF asked.proto = "gemini" THEN GeminiCalls(said.parts)
             ELSE WholeCalls(CallsOf(said.parts)))
<1>1. said.parts \in Seq(Part)
  BY SaidFields
<1>2. DOMAIN CallsOf(said.parts) = 1 .. Len(CallsOf(said.parts))
  BY <1>1, SaidTypes
<1>3. CASE asked.proto = "gemini"
  <2>1. GeminiCalls(said.parts)
          = FlattenSeq([i \in DOMAIN said.parts |->
              LET p == said.parts[i]
              IN IF p.type = "call"
                 THEN << ToolCall(<< "call", i - 1 >>, p.name, Given(p.args)) >> ELSE << >>])
    BY DEF GeminiCalls, CallGiven
  <2>2. G!GeminiToOpenAI(said).message
          = AssistantMessage(<< TextSaid(said.parts) >>, GeminiCalls(said.parts))
    BY <2>1, SameDefs DEF G!GeminiToOpenAI, G!CallId, Given
  <2> QED
    BY <1>3, <2>2 DEF Whole
<1>4. CASE asked.proto # "gemini"
  <2>1. A!AnthropicToOpenAI(said).message
          = AssistantMessage(<< TextSaid(said.parts) >>, WholeCalls(CallsOf(said.parts)))
    BY <1>2, SameDefs DEF A!AnthropicToOpenAI, WholeCalls, Given
  <2> QED
    BY <1>4, <2>1 DEF Whole
<1> QED
  BY <1>3, <1>4

LEMMA AssistantIs ==
  ASSUME NEW c, NEW calls, c \in Content, calls \in Seq(Call)
  PROVE  /\ AssistantMessage(c, calls) \in Msg
         /\ AssistantMessage(c, calls).content = c /\ AssistantMessage(c, calls).calls = calls
         /\ AssistantMessage(c, calls).role = "assistant"
BY DEF AssistantMessage, Message, Msg, Role

(* The message: the model's text, and unless an event was not readable the
   model's calls under ids of their own. *)
SaysWell(m) ==
  /\ m \in Msg /\ m.role = "assistant" /\ TextOf(m.content) = TextSaid(said.parts)
  /\ ~Garbled(said.missed) => Matches(m.calls, CallsOf(said.parts)) /\ DistinctIds(m.calls)

(* The ids of an answer under the two ways to give them. *)
LEMMA IdsAre ==
  ASSUME AnswerInv, IdsInv, phase \in {"open", "ended"}
  PROVE  \/ asked.proto = "gemini" /\ NoIds(CallsOf(said.parts))
         \/ asked.proto # "gemini" /\ used.turns \in Nat /\ used.parts \in Nat
            /\ OwnIds(CallsOf(said.parts), used.turns, used.parts)
BY SaidFields DEF AnswerInv, IdsInv

(* What a client hears from a whole answer is what the model said. *)
LEMMA WholeSaysWell ==
  ASSUME AnswerInv, IdsInv, phase = "ended", ~asked.streaming
  PROVE  SaysWell(Heard)
<1>1. Typed /\ said.parts \in Seq(Part)
  BY SaidFields DEF AnswerInv
<1>2. TextSaid(said.parts) \in Text /\ CallsOf(said.parts) \in Seq(CallPartType)
  BY <1>1, SaidTypes
<1> DEFINE calls == IF asked.proto = "gemini" THEN GeminiCalls(said.parts)
                    ELSE WholeCalls(CallsOf(said.parts))
<1>3. Heard = AssistantMessage(<< TextSaid(said.parts) >>, calls)
  BY <1>1, WholeIs DEF Heard
<1>4. Matches(calls, CallsOf(said.parts)) /\ DistinctIds(calls)
  <2>1. CASE asked.proto = "gemini" /\ NoIds(CallsOf(said.parts))
    BY <1>1, <2>1, WholeGemini DEF WellCalled
  <2>2. CASE asked.proto # "gemini" /\ used.turns \in Nat /\ used.parts \in Nat
             /\ OwnIds(CallsOf(said.parts), used.turns, used.parts)
    BY <1>2, <2>2, WholeMatches
  <2> QED
    BY <2>1, <2>2, IdsAre
<1> HIDE DEF calls
<1>5. calls \in Seq(Call)
  BY <1>4 DEF Matches
<1>6. TextOf(<< TextSaid(said.parts) >>) = TextSaid(said.parts) /\ << TextSaid(said.parts) >> \in Content
  BY <1>2, TextOfOne
<1> QED
  BY <1>3, <1>4, <1>5, <1>6, AssistantIs DEF SaysWell

(* What a client puts together from a stream is what the model said. *)
LEMMA StreamSaysWell ==
  ASSUME AnswerInv, IdsInv, phase = "ended", asked.streaming
  PROVE  SaysWell(Heard)
<1>1. Typed /\ said.parts \in Seq(Part) /\ said.missed \in SUBSET Event
  BY SaidFields DEF AnswerInv
<1>2. TextSaid(said.parts) \in Text /\ CallsOf(said.parts) \in Seq(CallPartType)
  BY <1>1, SaidTypes
<1>3. Told(out, said.parts, Written, said.missed) /\ out \in Seq(Chunk)
  BY DEF AnswerInv, StreamInv, Answering, Told
<1>4. Written \in Nat
  <2>1. tr.next \in Nat
    BY <1>1 DEF Typed, GeminiTr, AnthropicTr
  <2>2. CountCalls(said.parts) \in Nat
    <3>1. << >> \in Text
      BY DEF Text
    <3>2. [type |-> "text", text |-> << >>] \in Part
      BY <3>1 DEF Part, TextPartType
    <3>3. PICK p : p \in Part
      BY <3>2
    <3> QED
      BY <1>1, <3>3, CountOneMore
  <2> QED
    BY <2>1, <2>2 DEF Written
<1>5. /\ Indexes(out) = 0 .. Written - 1 /\ TextWritten(out) = TextSaid(said.parts)
      /\ "text" \notin Kinds(out) => TextWritten(out) = << >>
      /\ ~Garbled(said.missed) => Written = Len(CallsOf(said.parts)) /\ CarriesCalls(out, CallsOf(said.parts))
  BY <1>3 DEF Told, Carries
<1>6. Heard = AssistantMessage(StreamContent(out), StreamCalls(out))
  BY AssembledIs DEF Heard
<1>7. TextOf(StreamContent(out)) = TextSaid(said.parts) /\ StreamContent(out) \in Content
  <2>1. CASE "text" \notin Kinds(out)
    <3>1. StreamContent(out) = None
      BY <2>1 DEF StreamContent
    <3>2. TextOf(None) = << >> /\ None \in Content
      BY DEF TextOf, Blank, Content
    <3> QED
      BY <1>5, <2>1, <3>1, <3>2
  <2>2. CASE "text" \in Kinds(out)
    <3>1. StreamContent(out) = << TextSaid(said.parts) >>
      BY <1>5, <2>2 DEF StreamContent
    <3> QED
      BY <1>2, <3>1, TextOfOne
  <2> QED
    BY <2>1, <2>2
<1>8. StreamCalls(out) \in Seq(Call)
  BY <1>3, <1>4, <1>5, StreamCallAt
<1>9. ~Garbled(said.missed) =>
        Matches(StreamCalls(out), CallsOf(said.parts)) /\ DistinctIds(StreamCalls(out))
  <2>1. NoIds(CallsOf(said.parts)) \/ \E t \in Nat, n \in Nat : OwnIds(CallsOf(said.parts), t, n)
    BY IdsAre
  <2> QED
    BY <1>2, <1>3, <1>5, <2>1, StreamMatches
<1> QED
  BY <1>6, <1>7, <1>8, <1>9, AssistantIs DEF SaysWell

(* Either way, a complete answer says what was said. *)
LEMMA HeardWell ==
  ASSUME AnswerInv, IdsInv, Complete
  PROVE  /\ SaysWell(Heard) /\ phase = "ended"
         /\ asked.proto # "gemini" => Stopped
<1>1. phase = "ended" /\ (~asked.streaming => said.reason # None)
  BY DEF AnswerInv, OutcomeInv, Complete
<1>2. asked.streaming \in BOOLEAN
  BY SaidFields DEF AnswerInv
<1>3. asked.streaming /\ asked.proto # "gemini" => Stopped
  BY <1>1 DEF AnswerInv, StreamInv, Answering, Complete, Finished
<1> QED
  BY <1>1, <1>2, <1>3, WholeSaysWell, StreamSaysWell DEF Stopped

----------------------------------------------------------------------------
(* The client goes on. *)

LEMMA MessagesAre ==
  ASSUME NEW t, t \in Text
  PROVE  /\ UserMessage(<< t >>) \in Msg /\ SystemMessage(t) \in Msg
         /\ \A id \in Id \cup {None}, n \in Name \cup {None} : ToolMessage(id, n, t) \in Msg
<1>1. << t >> \in Content
  BY TextOfOne
<1>2. << >> \in Seq(Call)
  OBVIOUS
<1> QED
  BY <1>1, <1>2 DEF UserMessage, SystemMessage, ToolMessage, Message, Msg, Role

(* The results a client appends are messages. *)
LEMMA ResultTyped ==
  ASSUME Typed, NEW c, c \in Call, NEW k, k \in Nat, NEW style
  PROVE  Result(c, k, style) \in Msg
<1> DEFINE t == << << "result", used.turns, k >> >>
<1>1. t \in Text
  <2>1. << "result", used.turns, k >> \in TextPiece
    BY SaidFields DEF TextPiece
  <2> QED
    BY <2>1 DEF Text
<1>2. Result(c, k, style) = ToolMessage(c.id, IF style = "named" THEN c.name ELSE None, t)
  BY DEF Result
<1> HIDE DEF t
<1>3. c.id \in Id \cup {None} /\ (IF style = "named" THEN c.name ELSE None) \in Name \cup {None}
  BY DEF Call
<1> QED
  BY <1>1, <1>2, <1>3, MessagesAre

LEMMA InsertTyped ==
  ASSUME NEW s, NEW m, NEW U, s \in Seq(U), m \in U, s # << >>
  PROVE  InsertAt(s, Len(s), m) \in Seq(U)
<1>1. SubSeq(s, 1, Len(s) - 1) \in Seq(U) /\ SubSeq(s, Len(s), Len(s)) \in Seq(U)
  OBVIOUS
<1> QED
  BY <1>1 DEF InsertAt

LEMMA ResultsTyped ==
  ASSUME Typed, NEW calls, calls \in Seq(Call), NEW order \in Orders, NEW style,
         Len(order) = Len(calls), calls # << >>
  PROVE  Results(calls, order, style) \in Seq(Msg)
<1> DEFINE all == [i \in DOMAIN order |-> Result(calls[order[i]], order[i], style)]
<1> DEFINE n == Len(order)
<1>1. n \in Nat /\ DOMAIN order = 1 .. n /\ n # 0 /\ \A i \in 1 .. n : order[i] \in 1 .. n
  BY DEF Orders
<1>2. \A i \in 1 .. n : all[i] \in Msg
  <2> SUFFICES ASSUME NEW i \in 1 .. n
               PROVE  all[i] \in Msg
    OBVIOUS
  <2> DEFINE k == order[i]
  <2> DEFINE c == calls[k]
  <2>1. k \in 1 .. n /\ k \in Nat
    BY <1>1
  <2>2. c \in Call
    BY <2>1
  <2>3. all[i] = Result(c, k, style)
    BY <1>1
  <2> HIDE DEF c, k
  <2> QED
    BY <2>1, <2>2, <2>3, ResultTyped
<1>3. all \in Seq(Msg) /\ all # << >>
  <2>1. all = [i \in 1 .. n |-> all[i]]
    BY <1>1
  <2> HIDE DEF all
  <2> QED
    BY <1>1, <1>2, <2>1
<1>4. SystemMessage(<< << "reminder", used.turns >> >>) \in Msg
  <2>1. << "reminder", used.turns >> \in TextPiece
    BY SaidFields DEF TextPiece
  <2>2. << << "reminder", used.turns >> >> \in Text
    BY <2>1 DEF Text
  <2> QED
    BY <2>2, MessagesAre
<1>5. Results(calls, order, style) =
        IF style # "reminder" THEN all
        ELSE InsertAt(all, Len(all), SystemMessage(<< << "reminder", used.turns >> >>))
  BY DEF Results
<1> HIDE DEF all
<1> QED
  BY <1>3, <1>4, <1>5, InsertTyped

LEMMA NotAskedIs == NotAsked \in [proto : Protocol, streaming : BOOLEAN]
<1>1. \E p \in Protocol : TRUE
  BY Bounds
<1>2. (CHOOSE p \in Protocol : TRUE) \in Protocol
  BY <1>1
<1> QED
  BY <1>2 DEF NotAsked

(* A client that goes on keeps the invariant: its messages are well typed. *)
LEMMA GoOnKeeps ==
  ASSUME AnswerInv, IdsInv, GoOn
  PROVE  AnswerInv'
<1>1. Typed /\ conv \in Seq(Msg)
  BY DEF AnswerInv, Typed
<1>2. PICK order \in Orders, style \in Styles :
      /\ Complete /\ Len(order) = Len(Heard.calls) /\ phase' = "idle" /\ asked' = NotAsked
      /\ said' = Silence /\ out' = << >> /\ outcome' = "none" /\ params' = params /\ used' = used
      /\ conv' = conv \o << Heard >> \o
           IF Heard.calls = << >> THEN << UserMessage(<< << << "user", used.turns >> >> >>) >>
           ELSE Results(Heard.calls, order, style)
  BY DEF GoOn
<1>3. Heard \in Msg /\ Heard.calls \in Seq(Call)
  BY <1>2, HeardWell DEF SaysWell, Msg
<1>4. UserMessage(<< << << "user", used.turns >> >> >>) \in Msg
  <2>1. << "user", used.turns >> \in TextPiece
    BY <1>1, SaidFields DEF TextPiece
  <2>2. << << "user", used.turns >> >> \in Text
    BY <2>1 DEF Text
  <2> QED
    BY <2>2, MessagesAre
<1> DEFINE more == IF Heard.calls = << >> THEN << UserMessage(<< << << "user", used.turns >> >> >>) >>
                   ELSE Results(Heard.calls, order, style)
<1>5. more \in Seq(Msg)
  <2>1. CASE Heard.calls = << >>
    BY <1>4, <2>1
  <2>2. CASE Heard.calls # << >>
    BY <1>1, <1>2, <1>3, <2>2, ResultsTyped
  <2> QED
    BY <2>1, <2>2
<1>6. conv' = conv \o << Heard >> \o more
  BY <1>2
<1> HIDE DEF more
<1>7. conv' \in Seq(Msg)
  BY <1>1, <1>3, <1>5, <1>6
<1>8. Typed'
  <2>1. << >> \in Seq(Chunk)
    OBVIOUS
  <2> QED
    BY <1>1, <1>2, <1>7, <2>1, Starts, NotAskedIs DEF Typed
<1>9. SaidWell' /\ StreamInv' /\ OpenInv' /\ OutcomeInv'
  BY <1>2 DEF SaidWell, StreamInv, OpenInv, OutcomeInv, Answering
<1> QED
  BY <1>8, <1>9 DEF AnswerInv

(* Init. *)
LEMMA FirstTyped ==
  ASSUME NEW m, m \in FirstMessage
  PROVE  m \in Msg
<1>1. << >> \in Seq(Call)
  OBVIOUS
<1> QED
  BY <1>1 DEF FirstMessage, Msg, Role

(* The first state satisfies the invariant. *)
LEMMA InitAnswer ==
  ASSUME Init
  PROVE  AnswerInv /\ IdsInv
<1>1. PICK first \in Requests : conv = first.messages /\ params = [choice |-> first.choice, stop |-> first.stop]
  BY DEF Init
<1>2. first.messages \in Seq(FirstMessage)
  <2>1. Requests \subseteq
          [messages : Seq(FirstMessage),
           choice : [mode : Modes, name : Name \cup {None}], stop : BOOLEAN]
    BY TranslationAssumption DEF TranslationAssumption
  <2> QED
    BY <2>1
<1>3. conv \in Seq(Msg)
  <2>1. FirstMessage \subseteq Msg
    BY FirstTyped
  <2> QED
    BY <1>1, <1>2, <2>1
<1>4. /\ phase = "idle" /\ asked = NotAsked /\ said = Silence /\ out = << >> /\ outcome = "none"
      /\ used = [turns |-> 0, parts |-> 0, lost |-> 0]
  BY DEF Init
<1>5. used \in [turns : 0 .. MaxTurns, parts : 0 .. MaxParts, lost : 0 .. MaxLost]
  BY <1>4, Bounds
<1>6. params \in {[choice |-> r.choice, stop |-> r.stop] : r \in Requests}
  BY <1>1
<1>7. Typed
  <2>1. << >> \in Seq(Chunk)
    OBVIOUS
  <2> QED
    BY <1>3, <1>4, <1>5, <1>6, <2>1, Starts, NotAskedIs DEF Typed
<1>8. SaidWell /\ StreamInv /\ OpenInv /\ OutcomeInv /\ IdsInv
  BY <1>4 DEF SaidWell, StreamInv, OpenInv, OutcomeInv, Answering, IdsInv
<1> QED
  BY <1>7, <1>8 DEF AnswerInv

(* Every action keeps the invariant. *)
LEMMA NextKeeps ==
  ASSUME AnswerInv, IdsInv, Next
  PROVE  AnswerInv'
BY SendKeeps, BeginKeeps, SayTextKeeps, SayCallKeeps, SayArgumentsKeeps, SayReasonKeeps,
   GeminiSaysKeeps, AnswerEndsKeeps, ErrorEventKeeps, EndsEarlyKeeps, BreaksKeeps, GoOnKeeps,
   SkipEventKeeps
   DEF Next

(* So does a step that changes nothing. *)
LEMMA StillKeeps ==
  ASSUME AnswerInv, IdsInv, UNCHANGED vars
  PROVE  AnswerInv' /\ IdsInv'
<1>1. /\ conv' = conv /\ params' = params /\ phase' = phase /\ asked' = asked /\ said' = said
      /\ tr' = tr /\ out' = out /\ outcome' = outcome /\ used' = used
  BY DEF vars
<1>2. Typed'
  BY <1>1 DEF AnswerInv, Typed
<1>3. SaidWell' /\ OutcomeInv' /\ IdsInv'
  BY <1>1 DEF AnswerInv, SaidWell, OutcomeInv, IdsInv
<1>4. StreamInv'
  BY <1>1 DEF AnswerInv, StreamInv, Answering, Written, Stopped
<1>5. OpenInv'
  BY <1>1 DEF AnswerInv, OpenInv, Numbers, EndsWith
<1> QED
  BY <1>2, <1>3, <1>4, <1>5 DEF AnswerInv

(* The invariant of an answer holds always: the types, what was said and what
   was written of it, and how they stand to each other when it is open and
   when it ended. *)
THEOREM AnswerKept == Spec => [](AnswerInv /\ IdsInv)
<1>1. Init => AnswerInv /\ IdsInv
  BY InitAnswer
<1>2. (AnswerInv /\ IdsInv) /\ [Next]_vars => (AnswerInv /\ IdsInv)'
  BY NextKeeps, NextKeepsIds, StillKeeps
<1> QED
  BY <1>1, <1>2, PTL DEF Spec

(* Every variable keeps its type, whatever the upstream sends and wherever it
   stops. *)
THEOREM TypesKept == Spec => []TypeOK
<1>1. AnswerInv => TypeOK
  <2> SUFFICES ASSUME AnswerInv
               PROVE  TypeOK
    OBVIOUS
  <2>1. Typed
    BY DEF AnswerInv
  <2>2. \A c \in ToSet(out) : c.kind \in {"role", "text", "call", "finish", "error", "done"}
    <3>1. \A i \in DOMAIN out : out[i] \in Chunk
      BY <2>1 DEF Typed
    <3> QED
      BY <3>1, ChunkCases DEF ToSet
  <2>3. \A m \in ToSet(conv) : m.role \in Role \cup {Unknown}
    <3>1. \A i \in DOMAIN conv : conv[i] \in Msg
      BY <2>1 DEF Typed
    <3> QED
      BY <3>1 DEF ToSet, Msg
  <2> QED
    BY <2>1, <2>2, <2>3 DEF Typed, TypeOK
<1> QED
  BY <1>1, AnswerKept, PTL

(* What the client got of a stream is the beginning of a well-formed one
   (stream.go of both translators), for any number of parts and turns and any
   events that could not be read, with two rules that fall away when the event
   behind them was one of those: the role chunk first, and a call announced by
   its first chunk. *)
THEOREM StreamsAreWellFormed == Spec => []WellFormedStream
<1>1. AnswerInv => WellFormedStream
  <2> SUFFICES ASSUME AnswerInv
               PROVE  WellFormedStream
    OBVIOUS
  <2>1. WellFormed(out, said.missed)
    BY WellFormedNothing DEF AnswerInv, StreamInv, Told, WellFormed
  <2> QED
    BY <2>1 DEF WellFormed, Rules, WellFormedStream, Headless, Garbled
<1> QED
  BY <1>1, AnswerKept, PTL

(* A client that has its answer heard what the readable events said: the text,
   and, unless the beginning of a call was unreadable, every call with its name,
   its arguments and an id no other call has (response.go and stream.go of both).
   A stream of Anthropic or OpenAI that it took for complete had its reason or
   lost the event of it; of Gemini's streams that is not said, as the code
   ends them normally wherever they stop (docs/translation-gaps.md:91-93). *)
THEOREM AnswersAreHeard == Spec => []HeardIsSaid
<1>1. AnswerInv /\ IdsInv => HeardIsSaid
  <2> SUFFICES ASSUME AnswerInv, IdsInv, Complete
               PROVE  /\ TextOf(Heard.content) = TextSaid(said.parts)
                      /\ asked.proto # "gemini" => Stopped
                      /\ ~Garbled(said.missed) =>
                           /\ Len(Heard.calls) = Len(CallsOf(said.parts))
                           /\ \A i \in DOMAIN CallsOf(said.parts) :
                                /\ Heard.calls[i].name = CallsOf(said.parts)[i].name
                                /\ SameArguments(Heard.calls[i].args, CallsOf(said.parts)[i].args)
                                /\ CallsOf(said.parts)[i].id # None =>
                                     Heard.calls[i].id = CallsOf(said.parts)[i].id
                           /\ \A i, j \in DOMAIN CallsOf(said.parts) :
                                Heard.calls[i].id = Heard.calls[j].id => i = j
    BY DEF HeardIsSaid, Garbled
  <2>1. said.parts \in Seq(Part)
    BY SaidFields DEF AnswerInv
  <2>2. DOMAIN CallsOf(said.parts) = 1 .. Len(CallsOf(said.parts))
    BY <2>1, SaidTypes
  <2>3. SaysWell(Heard) /\ (asked.proto # "gemini" => Stopped)
    BY HeardWell
  <2> QED
    BY <2>2, <2>3 DEF SaysWell, Matches, DistinctIds
<1> QED
  BY <1>1, AnswerKept, PTL

----------------------------------------------------------------------------
(* The calls of an answer are calls the model may make. *)
Called(calls) == {calls[i].name : i \in 1 .. Len(calls)}

ChosenInv == \A n \in Called(CallsOf(said.parts)) : MayCall(n)

(* The names that were called, with one more part. *)
LEMMA CalledOneMore ==
  ASSUME NEW parts, NEW p, parts \in Seq(Part), p \in Part
  PROVE  /\ p.type # "call" => Called(CallsOf(Append(parts, p))) = Called(CallsOf(parts))
         /\ p.type = "call" => Called(CallsOf(Append(parts, p))) = Called(CallsOf(parts)) \cup {p.name}
<1> DEFINE c == CallsOf(parts)
<1>1. c \in Seq(CallPartType)
      /\ CallsOf(Append(parts, p)) = c \o (IF p.type = "call" THEN << p >> ELSE << >>)
  BY CallOneMore
<1> HIDE DEF c
<1>2. CASE p.type = "call"
  <2> DEFINE d == c \o << p >>
  <2>1. p \in CallPartType
    BY <1>2, PartCases
  <2>2. /\ Len(d) = Len(c) + 1 /\ Len(c) \in Nat /\ d[Len(c) + 1] = p
        /\ \A i \in 1 .. Len(c) : d[i] = c[i]
    BY <1>1, <2>1
  <2>3. CallsOf(Append(parts, p)) = d
    BY <1>1, <1>2
  <2> HIDE DEF d
  <2>4. Called(d) = Called(c) \cup {p.name}
    <3>1. 1 .. Len(d) = 1 .. Len(c) \cup {Len(c) + 1}
      BY <2>2
    <3> QED
      BY <2>2, <3>1 DEF Called
  <2> QED
    BY <1>2, <2>3, <2>4 DEF c
<1>3. CASE p.type # "call"
  BY <1>1, <1>3 DEF c
<1> QED
  BY <1>2, <1>3

(* Every call the model made is among its calls. *)
LEMMA CallsAreCalled ==
  ASSUME NEW parts, parts \in Seq(Part), NEW i \in 1 .. Len(parts), parts[i].type = "call"
  PROVE  parts[i].name \in Called(CallsOf(parts))
<1> DEFINE All(s) == \A k \in 1 .. Len(s) : s[k].type = "call" => s[k].name \in Called(CallsOf(s))
<1> DEFINE S == {n \in Nat : \A s \in Seq(Part) : Len(s) = n => All(s)}
<1>1. 0 \in S
  OBVIOUS
<1>2. \A n \in Nat : n \in S => n + 1 \in S
  <2> SUFFICES ASSUME NEW n \in Nat, n \in S, NEW s \in Seq(Part), Len(s) = n + 1
               PROVE  All(s)
    OBVIOUS
  <2> DEFINE f == Front(s)
  <2> DEFINE p == Last(s)
  <2>1. f \in Seq(Part) /\ p \in Part /\ s = Append(f, p) /\ Len(f) = Len(s) - 1
    <3>1. s # << >>
      OBVIOUS
    <3> QED
      BY <3>1, FrontLast
  <2> HIDE DEF f, p
  <2>2. All(f)
    BY <2>1
  <2>3. /\ \A k \in 1 .. n : s[k] = f[k]
        /\ s[n + 1] = p
    BY <2>1
  <2>4. /\ p.type # "call" => Called(CallsOf(s)) = Called(CallsOf(f))
        /\ p.type = "call" => Called(CallsOf(s)) = Called(CallsOf(f)) \cup {p.name}
    BY <2>1, CalledOneMore
  <2> SUFFICES ASSUME NEW k \in 1 .. n + 1, s[k].type = "call"
               PROVE  s[k].name \in Called(CallsOf(s))
    OBVIOUS
  <2>5. CASE k \in 1 .. n
    BY <2>1, <2>2, <2>3, <2>4, <2>5
  <2>6. CASE k = n + 1
    BY <2>3, <2>4, <2>6
  <2> QED
    BY <2>5, <2>6
<1>3. Nat \subseteq S
  BY <1>1, <1>2, Induct
<1>4. Len(parts) \in Nat
  OBVIOUS
<1> QED
  BY <1>3, <1>4

(* What may be called depends on the request and the protocol only. *)
LEMMA SameMay ==
  ASSUME asked' = asked, params' = params, NEW n
  PROVE  MayCall(n)' = MayCall(n)
BY DEF MayCall, ChoiceSent

(* What adds no call keeps the choice respected. *)
LEMMA ChosenKept ==
  ASSUME ChosenInv, asked' = asked, params' = params,
         CallsOf(said'.parts) = CallsOf(said.parts)
  PROVE  ChosenInv'
BY SameMay DEF ChosenInv

(* Once more what the actions add, in terms of the tools called. *)
LEMMA NextKeepsChosen ==
  ASSUME AnswerInv, ChosenInv, Next
  PROVE  ChosenInv'
<1>1. Typed /\ said.parts \in Seq(Part)
  BY SaidFields DEF AnswerInv
<1>2. Called(<< >>) = {}
  BY DEF Called
<1>3. ASSUME NEW proto \in Protocol, NEW s \in BOOLEAN, Send(proto, s)
      PROVE  ChosenInv'
  <2>1. CallsOf(said'.parts) = << >>
    BY <1>3, Starts, NothingSaid DEF Send
  <2> QED
    BY <1>2, <2>1 DEF ChosenInv
<1>4. CASE Begin
  <2>1. said'.parts = said.parts
    BY <1>1, <1>4, SaidFields DEF Begin
  <2> QED
    BY <1>4, <2>1, ChosenKept DEF Begin
<1>5. CASE SayText
  <2>1. CallsOf(said'.parts) = CallsOf(said.parts)
    BY <1>1, <1>5, SayTextParts
  <2> QED
    BY <1>5, <2>1, ChosenKept DEF SayText
<1>6. ASSUME NEW n \in Name, NEW readable \in BOOLEAN, SayCall(n, readable)
      PROVE  ChosenInv'
  <2> DEFINE p == CallPart(Piece("id"), n, << >>)
  <2>1. p \in Part /\ p.type = "call" /\ p.name = n /\ said'.parts = Append(said.parts, p)
    BY <1>1, <1>6, SayCallParts
  <2> HIDE DEF p
  <2>2. Called(CallsOf(said'.parts)) = Called(CallsOf(said.parts)) \cup {n}
    BY <1>1, <2>1, CalledOneMore
  <2>3. MayCall(n) /\ asked' = asked /\ params' = params
    BY <1>6 DEF SayCall
  <2>4. \A m \in Called(CallsOf(said'.parts)) : MayCall(m)'
    BY <2>2, <2>3, SameMay DEF ChosenInv
  <2> QED
    BY <2>4 DEF ChosenInv
<1>7. ASSUME NEW piece \in {Piece("args"), Closing}, SayArguments(piece)
      PROVE  ChosenInv'
  <2> DEFINE f == Front(said.parts)
  <2> DEFINE p == Last(said.parts)
  <2> DEFINE q == [p EXCEPT !.args = @ \o << piece >>]
  <2>1. /\ said' = [parts |-> Append(f, q), reason |-> said.reason, begun |-> said.begun,
                    missed |-> said.missed]
        /\ p \in CallPartType /\ q \in CallPartType /\ f \in Seq(Part) /\ said.parts = Append(f, p)
        /\ q.name = p.name /\ q.type = "call"
    BY <1>1, <1>7, SayArgumentsParts
  <2> HIDE DEF f, p, q
  <2>2. p.type = "call" /\ p \in Part /\ q \in Part
    BY <2>1 DEF CallPartType, Part
  <2>3. Called(CallsOf(said'.parts)) = Called(CallsOf(said.parts))
    <3>1. Called(CallsOf(Append(f, p))) = Called(CallsOf(f)) \cup {p.name}
      BY <2>1, <2>2, CalledOneMore
    <3>2. Called(CallsOf(Append(f, q))) = Called(CallsOf(f)) \cup {p.name}
      BY <2>1, <2>2, CalledOneMore
    <3> QED
      BY <2>1, <3>1, <3>2
  <2>4. asked' = asked /\ params' = params
    BY <1>7 DEF SayArguments
  <2>5. \A m \in Called(CallsOf(said'.parts)) : MayCall(m)'
    BY <2>3, <2>4, SameMay DEF ChosenInv
  <2> QED
    BY <2>5 DEF ChosenInv
<1>8. ASSUME NEW reason \in {"end_turn", "max_tokens", "tool_use"}, SayReason(reason)
      PROVE  ChosenInv'
  <2>1. said'.parts = said.parts
    BY <1>1, <1>8, SaidFields DEF SayReason
  <2> QED
    BY <1>8, <2>1, ChosenKept DEF SayReason
<1>9. ASSUME NEW parts \in GeminiParts, NEW reason \in GeminiReasons, GeminiSays(parts, reason)
      PROVE  ChosenInv'
  <2>1. said'.parts = said.parts \o parts
    BY <1>1, <1>9, SaidFields DEF GeminiSays
  <2>2. asked' = asked /\ params' = params
        /\ \A p \in ToSet(parts) : p.type = "call" => MayCall(p.name)
    BY <1>9 DEF GeminiSays
  <2>3. \/ parts = << >>
        \/ \E p \in Part : parts = << p >>
        \/ \E p, q \in Part : parts = << p, q >>
    BY <1>1, GeminiPartsAre
  <2>4. \A i \in DOMAIN parts : parts[i].type = "call" => MayCall(parts[i].name)
    BY <2>2 DEF ToSet
  <2>5. \A m \in Called(CallsOf(said.parts \o parts)) : MayCall(m)
    <3>1. CASE parts = << >>
      <4>1. said.parts \o parts = said.parts
        BY <1>1, <3>1, ConcatFew
      <4> QED
        BY <4>1 DEF ChosenInv
    <3>2. CASE \E p \in Part : parts = << p >>
      <4>1. PICK p \in Part : parts = << p >>
        BY <3>2
      <4>2. p.type = "call" => MayCall(p.name)
        BY <2>4, <4>1
      <4>3. said.parts \o parts = Append(said.parts, p)
        BY <1>1, <4>1, ConcatFew
      <4>4. /\ p.type # "call" => Called(CallsOf(said.parts \o parts)) = Called(CallsOf(said.parts))
            /\ p.type = "call" =>
                 Called(CallsOf(said.parts \o parts)) = Called(CallsOf(said.parts)) \cup {p.name}
        BY <1>1, <4>3, CalledOneMore
      <4> QED
        BY <4>2, <4>4 DEF ChosenInv
    <3>3. CASE \E p, q \in Part : parts = << p, q >>
      <4>1. PICK p \in Part, q \in Part : parts = << p, q >>
        BY <3>3
      <4>2. /\ p.type = "call" => MayCall(p.name)
            /\ q.type = "call" => MayCall(q.name)
        <5>1. 1 \in DOMAIN parts /\ 2 \in DOMAIN parts /\ parts[1] = p /\ parts[2] = q
          BY <4>1
        <5> QED
          BY <2>4, <5>1
      <4> DEFINE s == Append(said.parts, p)
      <4>3. said.parts \o parts = Append(s, q) /\ s \in Seq(Part)
        BY <1>1, <4>1, ConcatFew
      <4>4. /\ p.type # "call" => Called(CallsOf(s)) = Called(CallsOf(said.parts))
            /\ p.type = "call" => Called(CallsOf(s)) = Called(CallsOf(said.parts)) \cup {p.name}
        BY <1>1, CalledOneMore
      <4> HIDE DEF s
      <4>5. /\ q.type # "call" => Called(CallsOf(said.parts \o parts)) = Called(CallsOf(s))
            /\ q.type = "call" =>
                 Called(CallsOf(said.parts \o parts)) = Called(CallsOf(s)) \cup {q.name}
        BY <4>3, CalledOneMore
      <4> QED
        BY <4>2, <4>4, <4>5 DEF ChosenInv
    <3> QED
      BY <2>3, <3>1, <3>2, <3>3
  <2>6. \A m \in Called(CallsOf(said'.parts)) : MayCall(m)'
    BY <2>1, <2>2, <2>5, SameMay
  <2> QED
    BY <2>6 DEF ChosenInv
<1>10. CASE AnswerEnds
  BY <1>10, ChosenKept DEF AnswerEnds
<1>11. CASE ErrorEvent
  BY <1>11, ChosenKept DEF ErrorEvent
<1>12. CASE EndsEarly
  BY <1>12, ChosenKept DEF EndsEarly
<1>13. CASE Breaks
  BY <1>13, ChosenKept DEF Breaks
<1>14. CASE GoOn
  <2>1. CallsOf(said'.parts) = << >>
    BY <1>14, Starts, NothingSaid DEF GoOn
  <2> QED
    BY <1>2, <2>1 DEF ChosenInv
<1>15. ASSUME NEW kind \in Event, SkipEvent(kind)
       PROVE  ChosenInv'
  <2>1. said'.parts = said.parts /\ asked' = asked /\ params' = params
    BY <1>1, <1>15, SkipEventParts
  <2> QED
    BY <2>1, ChosenKept
<1> QED
  BY <1>3, <1>4, <1>5, <1>6, <1>7, <1>8, <1>9, <1>10, <1>11, <1>12, <1>13, <1>14,
     <1>15 DEF Next

(* The choice as it is sent to a provider rules out what the client ruled
   out, but for "none" to Anthropic. *)
LEMMA MayCallChosen ==
  ASSUME Typed, NEW n, MayCall(n)
  PROVE  /\ params.choice.mode = "none" => asked.proto = "anthropic"
         /\ params.choice.mode = "function" /\ params.choice.name # None => n = params.choice.name
<1>1. asked.proto \in {"anthropic", "gemini", "openai"}
  BY SaidFields
<1> DEFINE c == params.choice
<1>2. ChoiceSent.mode \notin {"none", "NONE"} /\ (ChoiceSent.name = None \/ ChoiceSent.name = n)
  BY DEF MayCall
<1>3. CASE asked.proto = "anthropic"
  <2>1. ChoiceSent = A!MapToolChoice(c)
    BY <1>3 DEF ChoiceSent
  <2>2. c.mode = "function" /\ c.name # None => ChoiceSent.name = c.name
    BY <2>1 DEF A!MapToolChoice, A!Choice
  <2> QED
    BY <1>2, <1>3, <2>2
<1>4. CASE asked.proto = "gemini"
  <2>1. ChoiceSent = G!MapToolChoice(c)
    BY <1>4 DEF ChoiceSent
  <2>2. c.mode = "function" /\ c.name # None => ChoiceSent.name = c.name
    BY <2>1 DEF G!MapToolChoice, G!Choice
  <2>3. c.mode = "none" => ChoiceSent.mode = "NONE"
    BY <2>1 DEF G!MapToolChoice, G!Choice
  <2> QED
    BY <1>2, <2>2, <2>3
<1>5. CASE asked.proto = "openai"
  <2>1. ChoiceSent = c
    BY <1>5 DEF ChoiceSent
  <2> QED
    BY <1>2, <2>1
<1> QED
  BY <1>1, <1>3, <1>4, <1>5

(* A client is told to call only what its tool_choice left, whatever protocol
   it is asked in, but for "none" to Anthropic (mapToolChoice of both). *)
THEOREM OnlyChosenAreCalled == Spec => []OnlyChosenTools
<1>1. Init => ChosenInv
  <2> SUFFICES ASSUME Init
               PROVE  ChosenInv
    OBVIOUS
  <2>1. CallsOf(said.parts) = << >>
    BY Starts, NothingSaid DEF Init
  <2> QED
    BY <2>1 DEF ChosenInv, Called
<1>2. AnswerInv /\ ChosenInv /\ [Next]_vars => ChosenInv'
  <2> SUFFICES ASSUME AnswerInv, ChosenInv, UNCHANGED vars
               PROVE  ChosenInv'
    BY NextKeepsChosen
  <2> QED
    BY ChosenKept DEF vars
<1>3. AnswerInv /\ ChosenInv => OnlyChosenTools
  <2> SUFFICES ASSUME AnswerInv, ChosenInv, NEW p \in ToSet(said.parts), p.type = "call"
               PROVE  /\ params.choice.mode = "none" => asked.proto = "anthropic"
                      /\ params.choice.mode = "function" /\ params.choice.name # None =>
                           p.name = params.choice.name
    BY DEF OnlyChosenTools
  <2>1. Typed /\ said.parts \in Seq(Part)
    BY SaidFields DEF AnswerInv
  <2>2. PICK i \in 1 .. Len(said.parts) : said.parts[i] = p
    BY <2>1 DEF ToSet
  <2>3. MayCall(p.name)
    BY <2>1, <2>2, CallsAreCalled DEF ChosenInv
  <2> QED
    BY <2>1, <2>3, MayCallChosen
<1> QED
  BY <1>1, <1>2, <1>3, AnswerKept, PTL DEF Spec
=============================================================================
