--------------------------- MODULE MCTranslation ---------------------------
(***************************************************************************)
(* Small conversations for TLC: two tools, and first messages that are     *)
(* translated or refused.                                                  *)
(***************************************************************************)
EXTENDS Translation

CONSTANTS f, g

Tools == {f, g}
AnyTool == Permutations(Tools)

Words == {<< "user", 0 >>, << "system", 0 >>}
Hello == << << "user", 0 >> >>
SystemText == << << "system", 0 >> >>

Plain == << SystemMessage(SystemText), UserMessage(<< Hello >>) >>
Unusual == << UserMessage(<< Hello, Blank >>), Message("assistant", None, << >>, None, None), UserMessage(None) >>

Odd == {<< SystemMessage(SystemText) >>,
        << UserMessage(<< Hello, Image >>) >>,
        << UserMessage(<< Unknown, Hello >>) >>,
        << UserMessage(<< Hello >>), Message(Unknown, None, << >>, None, None) >>}

Ordinary == Request(Plain, NoChoice, TRUE)
Refused ==
  {Request(messages, NoChoice, TRUE) : messages \in Odd}
    \cup {Request(Plain, Choice("unknown", None), TRUE), Request(Plain, NoChoice, FALSE)}
Choosing ==
  {Request(Plain, c, TRUE) :
     c \in {Choice("none", None)} \cup [mode : {"function"}, name : Tools]}

AllRequests == Refused \cup Choosing \cup {Request(Unusual, Choice("required", None), TRUE)}
OneRequest == {Ordinary}

AllProtocols == {"anthropic", "gemini", "openai"}
JustGemini == {"gemini"}
=============================================================================
