--------------------------- MODULE RequestProofs ---------------------------
(***************************************************************************)
(* Theorems about the requests of Translation for any conversation that    *)
(* can arise.                                                              *)
(*                                                                         *)
(* A request translator is a loop over the messages. Adds says what one    *)
(* message adds to what was translated, for either protocol; Tells, that   *)
(* the text is all there after each message; Alike, that both have turns   *)
(* and waiting results or neither has; Placed, where the results are.      *)
(*                                                                         *)
(* Where results belong is an invariant of the conversation: ConvInv says  *)
(* that a result is of a call of the answer before it, by its id, and that *)
(* call has a name; that it has one when the stream it came from lost      *)
(* events is NamedInv.                                                     *)
(***************************************************************************)
EXTENDS AnswerProofs

----------------------------------------------------------------------------
(* The accumulators of the loop over the messages, for Anthropic. *)
AfterA(s, n, f) ==
  f = [i \in 0 .. n |-> IF i = 0 THEN A!Nothing ELSE A!AddMessage(f[i - 1], s[i])]

StepsA(s, n, f) ==
  \A i \in 0 .. n : f[i] = IF i = 0 THEN A!Nothing ELSE A!AddMessage(f[i - 1], s[i])

(* The loop of a request translator takes one step a message: for Anthropic,
   then for Gemini. *)
LEMMA StepsOfA ==
  ASSUME NEW s, NEW n, NEW f, AfterA(s, n, f)
  PROVE  StepsA(s, n, f)
<1> DEFINE F == [j \in 0 .. n |-> IF j = 0 THEN A!Nothing ELSE A!AddMessage(f[j - 1], s[j])]
<1>1. \A i \in 0 .. n : F[i] = IF i = 0 THEN A!Nothing ELSE A!AddMessage(f[i - 1], s[i])
  BY Zenon
<1>2. f = F
  BY Zenon DEF AfterA
<1> HIDE DEF F
<1> QED
  BY <1>1, <1>2, Zenon DEF StepsA

LEMMA ExistsA ==
  ASSUME NEW s, NEW n \in Nat
  PROVE  \E f : AfterA(s, n, f)
<1> DEFINE S == {m \in Nat : \E f : AfterA(s, m, f)}
<1>1. 0 \in S
  <2> DEFINE h == [i \in 0 .. 0 |-> A!Nothing]
  <2>1. ASSUME NEW i \in 0 .. 0
        PROVE  h[i] = IF i = 0 THEN A!Nothing ELSE A!AddMessage(h[i - 1], s[i])
    <3>1. i = 0
      OBVIOUS
    <3>2. h[i] = A!Nothing
      BY Zenon
    <3> HIDE DEF h
    <3> QED
      BY <3>1, <3>2, Zenon
  <2>2. AfterA(s, 0, h)
    BY <2>1, Zenon DEF AfterA
  <2> HIDE DEF h
  <2> QED
    BY <2>2
<1>2. ASSUME NEW m \in Nat, m \in S
      PROVE  m + 1 \in S
  <2>1. PICK f : AfterA(s, m, f)
    BY <1>2
  <2>2. StepsA(s, m, f)
    BY <2>1, StepsOfA
  <2> DEFINE last == A!AddMessage(f[m], s[m + 1])
  <2> DEFINE h == [i \in 0 .. m + 1 |-> IF i = m + 1 THEN last ELSE f[i]]
  <2>3. ASSUME NEW i \in 0 .. m + 1
        PROVE  h[i] = IF i = 0 THEN A!Nothing ELSE A!AddMessage(h[i - 1], s[i])
    <3>1. CASE i = m + 1
      <4>1. h[i] = last
        BY <3>1, Zenon
      <4>2. m \in 0 .. m + 1 /\ m # m + 1 /\ i - 1 = m /\ i # 0
        BY <3>1
      <4>3. h[m] = f[m]
        BY <4>2, Zenon
      <4> HIDE DEF h
      <4> QED
        BY <3>1, <4>1, <4>2, <4>3, Zenon
    <3>2. CASE i # m + 1
      <4>1. i \in 0 .. m
        BY <3>2
      <4>2. h[i] = f[i]
        BY <3>2, Zenon
      <4>3. i # 0 => i - 1 \in 0 .. m + 1 /\ i - 1 # m + 1
        BY <3>2
      <4>4. i # 0 => h[i - 1] = f[i - 1]
        BY <4>3, Zenon
      <4> HIDE DEF h
      <4> QED
        BY <2>2, <4>1, <4>2, <4>4, Zenon DEF StepsA
    <3> QED
      BY <3>1, <3>2
  <2>4. AfterA(s, m + 1, h)
    BY <2>3, Zenon DEF AfterA
  <2> HIDE DEF h
  <2> QED
    BY <2>4
<1> HIDE DEF S
<1>3. n \in S
  BY <1>1, <1>2, Induct
<1> QED
  BY <1>3 DEF S

LEMMA TranslatedA ==
  ASSUME NEW s, Len(s) \in Nat
  PROVE  \E f : StepsA(s, Len(s), f) /\ A!Translated(s) = A!FlushToolResults(f[Len(s)])
<1> DEFINE c == CHOOSE f : AfterA(s, Len(s), f)
<1>1. AfterA(s, Len(s), c)
  BY ExistsA, Zenon
<1>2. A!Translated(s) = A!FlushToolResults(c[Len(s)])
  BY Zenon DEF A!Translated, AfterA
<1> HIDE DEF c
<1> QED
  BY <1>1, <1>2, StepsOfA, Zenon

(* The accumulators of the loop over the messages, and for Gemini. *)
AfterG(s, n, f) ==
  f = [i \in 0 .. n |-> IF i = 0 THEN G!Nothing ELSE G!AddMessage(f[i - 1], s[i])]

StepsG(s, n, f) ==
  \A i \in 0 .. n : f[i] = IF i = 0 THEN G!Nothing ELSE G!AddMessage(f[i - 1], s[i])

LEMMA StepsOfG ==
  ASSUME NEW s, NEW n, NEW f, AfterG(s, n, f)
  PROVE  StepsG(s, n, f)
<1> DEFINE F == [j \in 0 .. n |-> IF j = 0 THEN G!Nothing ELSE G!AddMessage(f[j - 1], s[j])]
<1>1. \A i \in 0 .. n : F[i] = IF i = 0 THEN G!Nothing ELSE G!AddMessage(f[i - 1], s[i])
  BY Zenon
<1>2. f = F
  BY Zenon DEF AfterG
<1> HIDE DEF F
<1> QED
  BY <1>1, <1>2, Zenon DEF StepsG

LEMMA ExistsG ==
  ASSUME NEW s, NEW n \in Nat
  PROVE  \E f : AfterG(s, n, f)
<1> DEFINE S == {m \in Nat : \E f : AfterG(s, m, f)}
<1>1. 0 \in S
  <2> DEFINE h == [i \in 0 .. 0 |-> G!Nothing]
  <2>1. ASSUME NEW i \in 0 .. 0
        PROVE  h[i] = IF i = 0 THEN G!Nothing ELSE G!AddMessage(h[i - 1], s[i])
    <3>1. i = 0
      OBVIOUS
    <3>2. h[i] = G!Nothing
      BY Zenon
    <3> HIDE DEF h
    <3> QED
      BY <3>1, <3>2, Zenon
  <2>2. AfterG(s, 0, h)
    BY <2>1, Zenon DEF AfterG
  <2> HIDE DEF h
  <2> QED
    BY <2>2
<1>2. ASSUME NEW m \in Nat, m \in S
      PROVE  m + 1 \in S
  <2>1. PICK f : AfterG(s, m, f)
    BY <1>2
  <2>2. StepsG(s, m, f)
    BY <2>1, StepsOfG
  <2> DEFINE last == G!AddMessage(f[m], s[m + 1])
  <2> DEFINE h == [i \in 0 .. m + 1 |-> IF i = m + 1 THEN last ELSE f[i]]
  <2>3. ASSUME NEW i \in 0 .. m + 1
        PROVE  h[i] = IF i = 0 THEN G!Nothing ELSE G!AddMessage(h[i - 1], s[i])
    <3>1. CASE i = m + 1
      <4>1. h[i] = last
        BY <3>1, Zenon
      <4>2. m \in 0 .. m + 1 /\ m # m + 1 /\ i - 1 = m /\ i # 0
        BY <3>1
      <4>3. h[m] = f[m]
        BY <4>2, Zenon
      <4> HIDE DEF h
      <4> QED
        BY <3>1, <4>1, <4>2, <4>3, Zenon
    <3>2. CASE i # m + 1
      <4>1. i \in 0 .. m
        BY <3>2
      <4>2. h[i] = f[i]
        BY <3>2, Zenon
      <4>3. i # 0 => i - 1 \in 0 .. m + 1 /\ i - 1 # m + 1
        BY <3>2
      <4>4. i # 0 => h[i - 1] = f[i - 1]
        BY <4>3, Zenon
      <4> HIDE DEF h
      <4> QED
        BY <2>2, <4>1, <4>2, <4>4, Zenon DEF StepsG
    <3> QED
      BY <3>1, <3>2
  <2>4. AfterG(s, m + 1, h)
    BY <2>3, Zenon DEF AfterG
  <2> HIDE DEF h
  <2> QED
    BY <2>4
<1> HIDE DEF S
<1>3. n \in S
  BY <1>1, <1>2, Induct
<1> QED
  BY <1>3 DEF S

LEMMA TranslatedG ==
  ASSUME NEW s, Len(s) \in Nat
  PROVE  \E f : StepsG(s, Len(s), f) /\ G!Translated(s) = G!FlushToolResults(f[Len(s)])
<1> DEFINE c == CHOOSE f : AfterG(s, Len(s), f)
<1>1. AfterG(s, Len(s), c)
  BY ExistsG, Zenon
<1>2. G!Translated(s) = G!FlushToolResults(c[Len(s)])
  BY Zenon DEF G!Translated, AfterG
<1> HIDE DEF c
<1> QED
  BY <1>1, <1>2, StepsOfG, Zenon

----------------------------------------------------------------------------
(* The text of what is sent. *)

IsList(s) == s \in Seq(ToSet(s))

(* A sequence of whatever it holds, and one more element. *)
LEMMA ListAppend ==
  ASSUME NEW s, NEW x, IsList(s)
  PROVE  /\ IsList(Append(s, x)) /\ ToSet(Append(s, x)) = ToSet(s) \cup {x}
         /\ Len(s) \in Nat /\ DOMAIN s = 1 .. Len(s)
         /\ Len(Append(s, x)) = Len(s) + 1 /\ DOMAIN Append(s, x) = 1 .. Len(s) + 1
         /\ Append(s, x)[Len(s) + 1] = x /\ \A i \in 1 .. Len(s) : Append(s, x)[i] = s[i]
         /\ Append(s, x) # << >>
<1> DEFINE U == ToSet(s) \cup {x}
<1> DEFINE t == Append(s, x)
<1>1. s \in Seq(U) /\ x \in U
  BY DEF IsList
<1>2. /\ t \in Seq(U) /\ Len(s) \in Nat /\ DOMAIN s = 1 .. Len(s)
      /\ Len(t) = Len(s) + 1 /\ DOMAIN t = 1 .. Len(s) + 1
      /\ t[Len(s) + 1] = x /\ \A i \in 1 .. Len(s) : t[i] = s[i]
  <2> HIDE DEF U
  <2> QED
    BY <1>1
<1> HIDE DEF t
<1>3. ToSet(t) = U
  BY <1>2 DEF ToSet
<1>4. t # << >>
  BY <1>2
<1> QED
  BY <1>2, <1>3, <1>4 DEF IsList, t

LEMMA EmptyList == IsList(<< >>) /\ ToSet(<< >>) = {}
BY DEF IsList, ToSet

(* A function on an interval is a list. *)
LEMMA ListOf ==
  ASSUME NEW n \in Nat, NEW s, IsFun(s, n)
  PROVE  IsList(s) /\ Len(s) = n /\ DOMAIN s = 1 .. n
<1>1. s = [i \in 1 .. n |-> s[i]]
  BY DEF IsFun
<1>2. DOMAIN s = 1 .. n
  BY <1>1
<1>3. \A i \in 1 .. n : s[i] \in ToSet(s)
  BY <1>2 DEF ToSet
<1> DEFINE U == ToSet(s)
<1>4. \A i \in 1 .. n : s[i] \in U
  BY <1>3
<1> HIDE DEF U
<1>5. s \in Seq(U)
  BY <1>1, <1>4
<1>6. Len(s) = n
  BY <1>2, <1>5
<1> QED
  BY <1>2, <1>5, <1>6 DEF IsList, U

PartsText(parts) == FlattenSeq([i \in DOMAIN parts |-> TextOfPart(parts[i])])

Worded(parts) == IsList(parts) /\ \A x \in ToSet(parts) : TextOfPart(x) \in Seq(TextPiece)

TurnsText(turns) == FlattenSeq([i \in DOMAIN turns |-> TextOfTurn(turns[i])])

WordedTurns(turns) == IsList(turns) /\ \A x \in ToSet(turns) : Worded(x.content)

(* The text of the parts of a turn, part by part. *)
LEMMA PartsFlat ==
  ASSUME NEW parts, Worded(parts)
  PROVE  /\ [i \in DOMAIN parts |-> TextOfPart(parts[i])] \in Seq(Seq(TextPiece))
         /\ Len([i \in DOMAIN parts |-> TextOfPart(parts[i])]) = Len(parts)
         /\ PartsText(parts) \in Seq(TextPiece)
<1> DEFINE f == [i \in DOMAIN parts |-> TextOfPart(parts[i])]
<1>1. parts \in Seq(ToSet(parts)) /\ DOMAIN parts = 1 .. Len(parts) /\ Len(parts) \in Nat
  BY DEF Worded, IsList
<1>2. \A i \in 1 .. Len(parts) : TextOfPart(parts[i]) \in Seq(TextPiece)
  BY <1>1 DEF Worded, ToSet
<1>3. f \in Seq(Seq(TextPiece)) /\ Len(f) = Len(parts)
  BY <1>1, <1>2
<1> HIDE DEF f
<1>4. FlattenSeq(f) \in Seq(TextPiece)
  BY <1>3, FlatType
<1> QED
  BY <1>3, <1>4 DEF f, PartsText

LEMMA PartsOneMore ==
  ASSUME NEW parts, NEW x, Worded(parts), TextOfPart(x) \in Seq(TextPiece)
  PROVE  /\ Worded(Append(parts, x)) /\ Append(parts, x) # << >>
         /\ PartsText(Append(parts, x)) = PartsText(parts) \o TextOfPart(x)
<1> DEFINE all == Append(parts, x)
<1> DEFINE s == [i \in DOMAIN parts |-> TextOfPart(parts[i])]
<1> DEFINE m == [i \in DOMAIN all |-> TextOfPart(all[i])]
<1> DEFINE t == TextOfPart(x)
<1>1. /\ IsList(all) /\ ToSet(all) = ToSet(parts) \cup {x} /\ Len(parts) \in Nat
      /\ DOMAIN parts = 1 .. Len(parts) /\ DOMAIN all = 1 .. Len(parts) + 1
      /\ all[Len(parts) + 1] = x /\ \A i \in 1 .. Len(parts) : all[i] = parts[i]
      /\ all # << >>
  BY ListAppend DEF Worded
<1>2. Worded(all)
  BY <1>1 DEF Worded
<1> HIDE DEF all
<1>3. s \in Seq(Seq(TextPiece)) /\ Len(s) = Len(parts)
  BY PartsFlat
<1>4. Extends(m, s, t)
  <2>1. IsFun(m, Len(s) + 1) /\ \A k \in 1 .. Len(s) : m[k] = s[k]
    BY <1>1, <1>3 DEF IsFun
  <2>2. m[Len(s) + 1] = t
    BY <1>1, <1>3
  <2> QED
    BY <2>1, <2>2 DEF Same, Extends
<1>5. t \in Seq(TextPiece)
  OBVIOUS
<1>6. PartsText(all) = FlattenSeq(m) /\ PartsText(parts) = FlattenSeq(s)
  BY DEF PartsText
<1> HIDE DEF s, m, t
<1>7. FlattenSeq(m) = FlattenSeq(s) \o t
  BY <1>3, <1>4, <1>5, FlatOneMore
<1> QED
  BY <1>1, <1>2, <1>6, <1>7 DEF all, t

(* The text of the turns, turn by turn. *)
LEMMA TurnIs == \A turn : TextOfTurn(turn) = PartsText(turn.content)
BY DEF TextOfTurn, PartsText

LEMMA TurnsFlat ==
  ASSUME NEW turns, WordedTurns(turns)
  PROVE  /\ [i \in DOMAIN turns |-> TextOfTurn(turns[i])] \in Seq(Seq(TextPiece))
         /\ Len([i \in DOMAIN turns |-> TextOfTurn(turns[i])]) = Len(turns)
         /\ TurnsText(turns) \in Seq(TextPiece)
<1> DEFINE f == [i \in DOMAIN turns |-> TextOfTurn(turns[i])]
<1>1. turns \in Seq(ToSet(turns)) /\ DOMAIN turns = 1 .. Len(turns) /\ Len(turns) \in Nat
  BY DEF WordedTurns, IsList
<1>2. \A i \in 1 .. Len(turns) : TextOfTurn(turns[i]) \in Seq(TextPiece)
  <2> SUFFICES ASSUME NEW i \in 1 .. Len(turns)
               PROVE  TextOfTurn(turns[i]) \in Seq(TextPiece)
    OBVIOUS
  <2>1. Worded(turns[i].content)
    BY <1>1 DEF WordedTurns, ToSet
  <2> QED
    BY <2>1, PartsFlat, TurnIs
<1>3. f \in Seq(Seq(TextPiece)) /\ Len(f) = Len(turns)
  BY <1>1, <1>2
<1> HIDE DEF f
<1>4. FlattenSeq(f) \in Seq(TextPiece)
  BY <1>3, FlatType
<1> QED
  BY <1>3, <1>4 DEF f, TurnsText

LEMMA TurnsOneMore ==
  ASSUME NEW turns, NEW x, WordedTurns(turns), Worded(x.content)
  PROVE  /\ WordedTurns(Append(turns, x)) /\ Append(turns, x) # << >>
         /\ TurnsText(Append(turns, x)) = TurnsText(turns) \o PartsText(x.content)
<1> DEFINE all == Append(turns, x)
<1> DEFINE s == [i \in DOMAIN turns |-> TextOfTurn(turns[i])]
<1> DEFINE m == [i \in DOMAIN all |-> TextOfTurn(all[i])]
<1> DEFINE t == TextOfTurn(x)
<1>1. /\ IsList(all) /\ ToSet(all) = ToSet(turns) \cup {x} /\ Len(turns) \in Nat
      /\ DOMAIN turns = 1 .. Len(turns) /\ DOMAIN all = 1 .. Len(turns) + 1
      /\ all[Len(turns) + 1] = x /\ \A i \in 1 .. Len(turns) : all[i] = turns[i]
      /\ all # << >>
  BY ListAppend DEF WordedTurns
<1>2. WordedTurns(all)
  BY <1>1 DEF WordedTurns
<1> HIDE DEF all
<1>3. s \in Seq(Seq(TextPiece)) /\ Len(s) = Len(turns)
  BY TurnsFlat
<1>4. Extends(m, s, t)
  <2>1. IsFun(m, Len(s) + 1) /\ \A k \in 1 .. Len(s) : m[k] = s[k]
    BY <1>1, <1>3 DEF IsFun
  <2>2. m[Len(s) + 1] = t
    BY <1>1, <1>3
  <2> QED
    BY <2>1, <2>2 DEF Same, Extends
<1>5. t \in Seq(TextPiece)
  BY PartsFlat, TurnIs
<1>6. t = PartsText(x.content)
  BY TurnIs
<1>7. TurnsText(all) = FlattenSeq(m) /\ TurnsText(turns) = FlattenSeq(s)
  BY DEF TurnsText
<1> HIDE DEF s, m, t
<1>8. FlattenSeq(m) = FlattenSeq(s) \o t
  BY <1>3, <1>4, <1>5, FlatOneMore
<1> QED
  BY <1>1, <1>2, <1>6, <1>7, <1>8 DEF all

(* Parts in a row. *)
LEMMA PartsConcat ==
  ASSUME NEW a, NEW b, Worded(a), Worded(b)
  PROVE  /\ Worded(a \o b) /\ PartsText(a \o b) = PartsText(a) \o PartsText(b)
         /\ DOMAIN (a \o b) = 1 .. Len(a) + Len(b) /\ Len(a) \in Nat /\ Len(b) \in Nat
         /\ \A i \in 1 .. Len(a) : (a \o b)[i] = a[i]
         /\ \A i \in 1 .. Len(b) : (a \o b)[Len(a) + i] = b[i]
<1> DEFINE U == ToSet(a) \cup ToSet(b)
<1> DEFINE c == a \o b
<1> DEFINE s == [i \in DOMAIN a |-> TextOfPart(a[i])]
<1> DEFINE t == [i \in DOMAIN b |-> TextOfPart(b[i])]
<1> DEFINE u == [i \in DOMAIN c |-> TextOfPart(c[i])]
<1>1. a \in Seq(U) /\ b \in Seq(U)
  BY DEF Worded, IsList
<1>2. \A x \in U : TextOfPart(x) \in Seq(TextPiece)
  BY DEF Worded
<1> HIDE DEF U
<1>3. /\ c \in Seq(U) /\ Len(c) = Len(a) + Len(b) /\ Len(a) \in Nat /\ Len(b) \in Nat
      /\ DOMAIN c = 1 .. Len(a) + Len(b) /\ DOMAIN a = 1 .. Len(a) /\ DOMAIN b = 1 .. Len(b)
      /\ \A i \in 1 .. Len(a) : c[i] = a[i]
      /\ \A i \in 1 .. Len(b) : c[Len(a) + i] = b[i]
  BY <1>1
<1> HIDE DEF c
<1>4. Worded(c)
  <2>1. c = [i \in 1 .. Len(c) |-> c[i]]
    BY <1>3
  <2>2. IsList(c)
    BY <1>3, <2>1, ListOf DEF IsFun
  <2>3. \A i \in DOMAIN c : c[i] \in U
    BY <1>3
  <2> QED
    BY <1>2, <2>2, <2>3 DEF Worded, ToSet
<1>5. s \in Seq(Seq(TextPiece)) /\ t \in Seq(Seq(TextPiece)) /\ Len(s) = Len(a) /\ Len(t) = Len(b)
  BY PartsFlat
<1>6. u = s \o t
  <2>1. DOMAIN (s \o t) = 1 .. Len(a) + Len(b) /\ s \o t = [i \in 1 .. Len(a) + Len(b) |-> (s \o t)[i]]
    BY <1>3, <1>5
  <2>2. ASSUME NEW i \in 1 .. Len(a) + Len(b)
        PROVE  (s \o t)[i] = TextOfPart(c[i])
    <3>1. CASE i \in 1 .. Len(a)
      <4>1. (s \o t)[i] = s[i]
        BY <1>5, <3>1
      <4> QED
        BY <1>3, <3>1, <4>1
    <3>2. CASE i \notin 1 .. Len(a)
      <4>1. i - Len(a) \in 1 .. Len(b) /\ Len(a) + (i - Len(a)) = i
        BY <1>3, <3>2
      <4>2. (s \o t)[i] = t[i - Len(a)]
        BY <1>3, <1>5, <3>2, <4>1
      <4>3. c[i] = b[i - Len(a)]
        BY <1>3, <4>1
      <4> QED
        BY <1>3, <4>1, <4>2, <4>3
    <3> QED
      BY <3>1, <3>2
  <2> HIDE DEF s, t
  <2> QED
    BY <1>3, <2>1, <2>2
<1>7. PartsText(c) = FlattenSeq(u) /\ PartsText(a) = FlattenSeq(s) /\ PartsText(b) = FlattenSeq(t)
  BY DEF PartsText
<1> HIDE DEF s, t, u
<1>8. FlattenSeq(u) = FlattenSeq(s) \o FlattenSeq(t)
  BY <1>5, <1>6, FlatConcat
<1> QED
  BY <1>3, <1>4, <1>7, <1>8 DEF c

(* The text of a content, part by part. *)
Textual(t) == [type |-> "text", text |-> t]

Blocks(content) ==
  IF content \in {None, << >>} THEN << Textual(Blank) >>
  ELSE [i \in DOMAIN content |-> Textual(content[i])]

(* A text part has its text; a call has none. *)
LEMMA TextualIs ==
  \A t : Textual(t).type = "text" /\ TextOfPart(Textual(t)) = t /\ ~IsCall(Textual(t))
BY DEF Textual, TextOfPart, IsCall

(* Content is translated to parts with the same text and no call. *)
LEMMA BlocksWell ==
  ASSUME NEW content, content = None \/ content \in Seq(Text)
  PROVE  /\ Worded(Blocks(content)) /\ PartsText(Blocks(content)) = TextOf(content)
         /\ \A x \in ToSet(Blocks(content)) : ~IsCall(x)
<1>1. << >> \in Seq(TextPiece)
  OBVIOUS
<1>2. CASE content \in {None, << >>}
  <2> DEFINE x == Textual(Blank)
  <2>1. TextOfPart(x) = << >> /\ ~IsCall(x)
    BY TextualIs DEF Blank
  <2> HIDE DEF x
  <2>2. Worded(<< >>) /\ PartsText(<< >>) = << >>
    <3>1. [i \in DOMAIN << >> |-> TextOfPart(<< >>[i])] = << >>
      OBVIOUS
    <3> QED
      BY <3>1, EmptyList, FlatEmpty DEF Worded, PartsText
  <2>3. Append(<< >>, x) = << x >>
    OBVIOUS
  <2>4. Worded(<< x >>) /\ PartsText(<< x >>) = << >> \o << >>
    BY <1>1, <2>1, <2>2, <2>3, PartsOneMore
  <2>5. TextOf(content) = << >>
    <3>1. TextOf(None) = << >>
      BY DEF TextOf, Blank
    <3>2. << >> # None => TextOf(<< >>) = << >>
      <4>1. [i \in DOMAIN << >> |-> IF << >>[i] = Unknown THEN Blank ELSE << >>[i]] = << >>
        OBVIOUS
      <4> QED
        BY <4>1, FlatEmpty DEF TextOf
    <3> QED
      BY <1>2, <3>1, <3>2
  <2>6. ToSet(<< x >>) = {x}
    BY DEF ToSet
  <2> QED
    BY <1>2, <2>1, <2>4, <2>5, <2>6 DEF Blocks, x
<1>3. CASE content \notin {None, << >>}
  <2> DEFINE s == [i \in DOMAIN content |-> Textual(content[i])]
  <2> DEFINE n == Len(content)
  <2>1. n \in Nat /\ DOMAIN content = 1 .. n /\ \A i \in 1 .. n : content[i] \in Text
    BY <1>3
  <2>2. IsList(s) /\ DOMAIN s = 1 .. n
    <3>1. IsFun(s, n)
      BY <2>1 DEF IsFun
    <3> QED
      BY <2>1, <3>1, ListOf
  <2>3. \A i \in 1 .. n : s[i] = Textual(content[i])
    BY <2>1
  <2> HIDE DEF s
  <2>4. \A i \in 1 .. n : TextOfPart(s[i]) = content[i] /\ ~IsCall(s[i])
    BY <2>3, TextualIs
  <2>5. Worded(s) /\ \A x \in ToSet(s) : ~IsCall(x)
    BY <2>1, <2>2, <2>4 DEF Worded, ToSet, Text
  <2>6. PartsText(s) = TextOf(content)
    <3>1. \A i \in 1 .. n : (IF content[i] = Unknown THEN Blank ELSE content[i]) = content[i]
      BY <2>1, Bounds
    <3>2. [i \in DOMAIN s |-> TextOfPart(s[i])] = [i \in 1 .. n |-> content[i]]
      BY <2>2, <2>4
    <3>3. [i \in DOMAIN content |-> IF content[i] = Unknown THEN Blank ELSE content[i]]
            = [i \in 1 .. n |-> content[i]]
      BY <2>1, <3>1
    <3>4. content # None
      BY <1>3
    <3> QED
      BY <3>2, <3>3, <3>4 DEF PartsText, TextOf
  <2> QED
    BY <1>3, <2>5, <2>6 DEF Blocks, s
<1> QED
  BY <1>2, <1>3

LEMMA CallsNoText ==
  ASSUME NEW uses, IsList(uses), \A x \in ToSet(uses) : IsCall(x)
  PROVE  Worded(uses) /\ PartsText(uses) = << >>
<1>1. uses \in Seq(ToSet(uses)) /\ DOMAIN uses = 1 .. Len(uses) /\ Len(uses) \in Nat
  BY DEF IsList
<1>2. \A x \in ToSet(uses) : TextOfPart(x) = << >>
  BY DEF IsCall, TextOfPart
<1>3. << >> \in Seq(TextPiece)
  OBVIOUS
<1>4. Worded(uses)
  BY <1>2, <1>3 DEF Worded
<1> DEFINE s == [i \in DOMAIN uses |-> TextOfPart(uses[i])]
<1>5. s = [i \in 1 .. Len(uses) |-> << >>]
  BY <1>1, <1>2 DEF ToSet
<1>6. Len(s) = Len(uses)
  BY PartsFlat, <1>4
<1> HIDE DEF s
<1>7. FlattenSeq(s) = << >>
  BY <1>1, <1>5, <1>6, FlatEmpties
<1> QED
  BY <1>4, <1>7 DEF PartsText, s

SpokenParts(content, uses) ==
  IF content # None THEN Blocks(content) \o uses
  ELSE IF uses = << >> THEN << Textual(Blank) >> ELSE uses

CallsIn(parts) == {b \in DOMAIN parts : IsCall(parts[b])}

(* An interval has as many numbers as its bounds say. *)
LEMMA Span ==
  ASSUME NEW a \in Nat, NEW n \in Nat
  PROVE  Cardinality(a + 1 .. a + n) = n /\ IsFiniteSet(a + 1 .. a + n)
<1>1. Cardinality(a + 1 .. a + n) = IF a + 1 > a + n THEN 0 ELSE a + n - (a + 1) + 1
  BY FS_Interval
<1>2. IsFiniteSet(a + 1 .. a + n)
  BY FS_Interval
<1> QED
  BY <1>1, <1>2

(* What an assistant said is translated to its text and then its calls, none
   lost and none made up. *)
LEMMA SpokenWell ==
  ASSUME NEW content, content = None \/ content \in Seq(Text),
         NEW uses, IsList(uses), \A x \in ToSet(uses) : IsCall(x)
  PROVE  /\ Worded(SpokenParts(content, uses))
         /\ PartsText(SpokenParts(content, uses)) = TextOf(content)
         /\ Cardinality(CallsIn(SpokenParts(content, uses))) = Len(uses)
<1> DEFINE p == SpokenParts(content, uses)
<1>1. Worded(uses) /\ PartsText(uses) = << >>
  BY CallsNoText
<1>2. DOMAIN uses = 1 .. Len(uses) /\ Len(uses) \in Nat
  BY DEF IsList
<1>3. CASE content # None
  <2> DEFINE a == Blocks(content)
  <2>1. Worded(a) /\ PartsText(a) = TextOf(content) /\ \A x \in ToSet(a) : ~IsCall(x)
    BY BlocksWell
  <2>2. p = a \o uses
    BY <1>3 DEF SpokenParts
  <2> HIDE DEF a, p
  <2>3. /\ Worded(p) /\ PartsText(p) = PartsText(a) \o PartsText(uses)
        /\ DOMAIN p = 1 .. Len(a) + Len(uses) /\ Len(a) \in Nat
        /\ \A i \in 1 .. Len(a) : p[i] = a[i]
        /\ \A i \in 1 .. Len(uses) : p[Len(a) + i] = uses[i]
    <3>1. Worded(a) /\ Worded(uses)
      BY <1>1, <2>1
    <3>2. /\ Worded(a \o uses) /\ PartsText(a \o uses) = PartsText(a) \o PartsText(uses)
          /\ DOMAIN (a \o uses) = 1 .. Len(a) + Len(uses) /\ Len(a) \in Nat
          /\ \A i \in 1 .. Len(a) : (a \o uses)[i] = a[i]
          /\ \A i \in 1 .. Len(uses) : (a \o uses)[Len(a) + i] = uses[i]
      BY <3>1, PartsConcat, Zenon
    <3> QED
      BY <2>2, <3>2, Zenon
  <2>4. PartsText(a) \in Seq(TextPiece)
    BY <2>1, PartsFlat
  <2>5. PartsText(p) = TextOf(content)
    BY <1>1, <2>1, <2>3, <2>4
  <2>6. CallsIn(p) = Len(a) + 1 .. Len(a) + Len(uses)
    <3>1. \A i \in 1 .. Len(a) : ~IsCall(p[i])
      <4>1. DOMAIN a = 1 .. Len(a)
        BY <2>1 DEF Worded, IsList
      <4> QED
        BY <2>1, <2>3, <4>1 DEF ToSet
    <3>2. \A i \in 1 .. Len(uses) : IsCall(p[Len(a) + i])
      BY <1>2, <2>3 DEF ToSet
    <3>3. ASSUME NEW i \in Len(a) + 1 .. Len(a) + Len(uses)
          PROVE  IsCall(p[i])
      <4>1. i - Len(a) \in 1 .. Len(uses) /\ Len(a) + (i - Len(a)) = i
        BY <1>2, <2>3
      <4> QED
        BY <3>2, <4>1
    <3>4. \A i \in 1 .. Len(a) + Len(uses) :
            i \in 1 .. Len(a) \/ i \in Len(a) + 1 .. Len(a) + Len(uses)
      BY <1>2, <2>3
    <3>5. \A i \in Len(a) + 1 .. Len(a) + Len(uses) : i \in 1 .. Len(a) + Len(uses)
      BY <1>2, <2>3
    <3> QED
      BY <2>3, <3>1, <3>3, <3>4, <3>5 DEF CallsIn
  <2>7. Cardinality(CallsIn(p)) = Len(uses)
    BY <1>2, <2>3, <2>6, Span
  <2> QED
    BY <2>3, <2>5, <2>7 DEF p
<1>4. CASE content = None /\ uses = << >>
  <2>1. p = Blocks(content)
    BY <1>4 DEF SpokenParts, Blocks
  <2>2. Worded(p) /\ PartsText(p) = TextOf(content) /\ \A x \in ToSet(p) : ~IsCall(x)
    BY <2>1, BlocksWell
  <2> HIDE DEF p
  <2>3. CallsIn(p) = {}
    BY <2>2 DEF CallsIn, ToSet
  <2>4. Cardinality({}) = 0 /\ Len(uses) = 0
    BY <1>4, FS_EmptySet
  <2> QED
    BY <2>2, <2>3, <2>4 DEF p
<1>5. CASE content = None /\ uses # << >>
  <2>1. p = uses
    BY <1>5 DEF SpokenParts
  <2>2. TextOf(content) = << >>
    BY <1>5 DEF TextOf, Blank
  <2>3. CallsIn(uses) = 1 .. Len(uses)
    BY <1>2 DEF CallsIn, ToSet
  <2>4. Cardinality(1 .. Len(uses)) = Len(uses)
    <3>1. Cardinality(1 .. Len(uses)) = IF 1 > Len(uses) THEN 0 ELSE Len(uses) - 1 + 1
      BY FS_Interval
    <3> QED
      BY <1>2, <3>1
  <2> QED
    BY <1>1, <2>1, <2>2, <2>3, <2>4
<1> QED
  BY <1>3, <1>4, <1>5

----------------------------------------------------------------------------
(* What one message adds to what is sent, whatever the protocol. *)
Sendable(m) ==
  /\ m \in Msg /\ m.role \in Role /\ ~HasImage(m.content)
  /\ m.role \in {"user", "assistant"} => ~HasUnknown(m.content)

(* The text of a message that is not refused. *)
LEMMA SendableText ==
  ASSUME NEW m, Sendable(m)
  PROVE  /\ TextOf(m.content) \in Seq(TextPiece)
         /\ m.role \in {"user", "assistant"} => m.content = None \/ m.content \in Seq(Text)
<1> DEFINE c == m.content
<1>1. c \in Content /\ ~HasImage(c)
  BY DEF Sendable, Msg
<1>2. m.role \in {"user", "assistant"} => ~HasUnknown(c)
  BY DEF Sendable
<1> HIDE DEF c
<1>3. << >> \in Seq(TextPiece)
  OBVIOUS
<1>4. CASE c = None
  BY <1>3, <1>4 DEF TextOf, Blank, c
<1>5. CASE c # None
  <2> DEFINE U == Text \cup {Unknown}
  <2>1. c \in Seq(Text \cup {Image, Unknown})
    BY <1>1, <1>5 DEF Content
  <2>2. DOMAIN c = 1 .. Len(c) /\ Len(c) \in Nat /\ c = [i \in 1 .. Len(c) |-> c[i]]
        /\ \A i \in 1 .. Len(c) : c[i] \in Text \cup {Image, Unknown}
    BY <2>1
  <2>3. \A i \in 1 .. Len(c) : c[i] # Image
    BY <1>1, <1>5, <2>2 DEF HasImage, ToSet
  <2> DEFINE f == [i \in DOMAIN c |-> IF c[i] = Unknown THEN Blank ELSE c[i]]
  <2>4. \A i \in 1 .. Len(c) : (IF c[i] = Unknown THEN Blank ELSE c[i]) \in Seq(TextPiece)
    BY <1>3, <2>2, <2>3 DEF Text, Blank
  <2>5. f \in Seq(Seq(TextPiece))
    BY <2>2, <2>4
  <2> HIDE DEF f
  <2>6. FlattenSeq(f) \in Seq(TextPiece)
    BY <2>5, FlatType
  <2>7. TextOf(c) \in Seq(TextPiece)
    BY <1>5, <2>6 DEF TextOf, f
  <2>8. m.role \in {"user", "assistant"} => c \in Seq(Text)
    <3> SUFFICES ASSUME m.role \in {"user", "assistant"}
                 PROVE  c \in Seq(Text)
      OBVIOUS
    <3>1. \A i \in 1 .. Len(c) : c[i] # Unknown
      BY <1>2, <1>5, <2>2 DEF HasUnknown, ToSet
    <3>2. \A i \in 1 .. Len(c) : c[i] \in Text
      BY <2>2, <2>3, <3>1
    <3> QED
      BY <2>2, <3>2
  <2> QED
    BY <2>7, <2>8 DEF c
<1> QED
  BY <1>4, <1>5

(* The results that wait are put into a message of the user. *)
Flushed(acc) ==
  IF acc.pending = << >> THEN acc.messages
  ELSE Append(acc.messages, [role |-> "user", content |-> acc.pending])

Adds(acc, m, more) ==
  \/ /\ m.role = "system"
     /\ more.system = acc.system \o TextOf(m.content)
     /\ more.messages = acc.messages /\ more.pending = acc.pending
  \/ /\ m.role = "tool"
     /\ more.system = acc.system /\ more.messages = acc.messages
     /\ \E r : more.pending = Append(acc.pending, r) /\ TextOfPart(r) = TextOf(m.content) /\ IsResult(r)
  \/ /\ m.role \in {"user", "assistant"}
     /\ more.system = acc.system /\ more.pending = << >>
     /\ \E turn :
          /\ more.messages = Append(Flushed(acc), turn)
          /\ Worded(turn.content) /\ PartsText(turn.content) = TextOf(m.content)
          /\ turn.role = "user" <=> m.role = "user"
          /\ m.role = "assistant" => Cardinality(CallsIn(turn.content)) = Len(m.calls)

AccA(acc) ==
  acc = [system |-> acc.system, messages |-> acc.messages, pending |-> acc.pending]
AccG(acc) ==
  acc = [system |-> acc.system, messages |-> acc.messages, pending |-> acc.pending,
         names |-> acc.names]

(* Flushing moves the results that wait into a turn of the user, and only
   if there are any. *)
LEMMA FlushA ==
  ASSUME NEW acc, AccA(acc)
  PROVE  A!FlushToolResults(acc) = [system |-> acc.system, messages |-> Flushed(acc), pending |-> << >>]
<1>1. CASE acc.pending = << >>
  BY <1>1 DEF A!FlushToolResults, Flushed, AccA
<1>2. CASE acc.pending # << >>
  <2> DEFINE t == A!Turn("user", acc.pending)
  <2>1. A!FlushToolResults(acc) = [acc EXCEPT !.messages = Append(@, t), !.pending = << >>]
    BY <1>2 DEF A!FlushToolResults
  <2>2. t = [role |-> "user", content |-> acc.pending]
    BY DEF A!Turn
  <2> HIDE DEF t
  <2>3. A!FlushToolResults(acc)
          = [system |-> acc.system, messages |-> Append(acc.messages, t), pending |-> << >>]
    BY <2>1 DEF AccA
  <2> QED
    BY <1>2, <2>2, <2>3 DEF Flushed
<1> QED
  BY <1>1, <1>2

LEMMA FlushG ==
  ASSUME NEW acc, AccG(acc)
  PROVE  G!FlushToolResults(acc) = [system |-> acc.system, messages |-> Flushed(acc), pending |-> << >>,
                                    names |-> acc.names]
<1>1. CASE acc.pending = << >>
  BY <1>1 DEF G!FlushToolResults, Flushed, AccG
<1>2. CASE acc.pending # << >>
  <2> DEFINE t == G!Contents("user", acc.pending)
  <2>1. G!FlushToolResults(acc) = [acc EXCEPT !.messages = Append(@, t), !.pending = << >>]
    BY <1>2 DEF G!FlushToolResults
  <2>2. t = [role |-> "user", content |-> acc.pending]
    BY DEF G!Contents
  <2> HIDE DEF t
  <2>3. G!FlushToolResults(acc)
          = [system |-> acc.system, messages |-> Append(acc.messages, t), pending |-> << >>,
             names |-> acc.names]
    BY <2>1 DEF AccG
  <2> QED
    BY <1>2, <2>2, <2>3 DEF Flushed
<1> QED
  BY <1>1, <1>2

(* The calls of a message, as parts of a turn. *)
LEMMA UsesWell ==
  ASSUME NEW s, NEW n \in Nat, IsFun(s, n), \A i \in 1 .. n : IsCall(s[i])
  PROVE  IsList(s) /\ Len(s) = n /\ \A x \in ToSet(s) : IsCall(x)
<1>1. IsList(s) /\ Len(s) = n /\ DOMAIN s = 1 .. n
  BY ListOf
<1> QED
  BY <1>1 DEF ToSet

LEMMA SameBlocks ==
  \A c : A!OpenAIContentToBlocks(c) = Blocks(c) /\ G!OpenAIContentToParts(c) = Blocks(c)
BY DEF A!OpenAIContentToBlocks, G!OpenAIContentToParts, A!TextBlock, G!TextPart, Blocks, Textual,
       A!Blank, G!Blank, Blank

(* The turn of an assistant in each of the protocols. *)
LEMMA SpokenA ==
  ASSUME NEW m, Sendable(m), m.role = "assistant"
  PROVE  /\ Worded(A!AssistantBlocks(m)) /\ PartsText(A!AssistantBlocks(m)) = TextOf(m.content)
         /\ Cardinality(CallsIn(A!AssistantBlocks(m))) = Len(m.calls)
<1> DEFINE s == [i \in DOMAIN m.calls |-> A!ToolUse(m.calls[i])]
<1> DEFINE n == Len(m.calls)
<1>1. n \in Nat /\ DOMAIN m.calls = 1 .. n
  BY DEF Sendable, Msg
<1>2. \A i \in 1 .. n : IsCall(s[i])
  <2>1. \A c : IsCall(A!ToolUse(c))
    BY DEF A!ToolUse, IsCall
  <2> QED
    BY <1>1, <2>1
<1>3. IsFun(s, n)
  BY <1>1 DEF IsFun
<1>4. A!AssistantBlocks(m) = SpokenParts(m.content, s)
  BY SameBlocks DEF A!AssistantBlocks, SpokenParts, A!TextBlock, Textual, A!Blank, Blank
<1> HIDE DEF s
<1>5. IsList(s) /\ Len(s) = n /\ \A x \in ToSet(s) : IsCall(x)
  BY <1>1, <1>2, <1>3, UsesWell
<1>6. m.content = None \/ m.content \in Seq(Text)
  BY SendableText
<1> QED
  BY <1>4, <1>5, <1>6, SpokenWell

LEMMA SpokenG ==
  ASSUME NEW m, Sendable(m), m.role = "assistant"
  PROVE  /\ Worded(G!ModelParts(m)) /\ PartsText(G!ModelParts(m)) = TextOf(m.content)
         /\ Cardinality(CallsIn(G!ModelParts(m))) = Len(m.calls)
<1> DEFINE s == [i \in DOMAIN m.calls |-> G!FunctionCall(m.calls[i])]
<1> DEFINE n == Len(m.calls)
<1>1. n \in Nat /\ DOMAIN m.calls = 1 .. n
  BY DEF Sendable, Msg
<1>2. \A i \in 1 .. n : IsCall(s[i])
  <2>1. \A c : IsCall(G!FunctionCall(c))
    BY DEF G!FunctionCall, IsCall
  <2> QED
    BY <1>1, <2>1
<1>3. IsFun(s, n)
  BY <1>1 DEF IsFun
<1>4. G!ModelParts(m) = SpokenParts(m.content, s)
  BY SameBlocks DEF G!ModelParts, SpokenParts, G!TextPart, Textual, G!Blank, Blank
<1> HIDE DEF s
<1>5. IsList(s) /\ Len(s) = n /\ \A x \in ToSet(s) : IsCall(x)
  BY <1>1, <1>2, <1>3, UsesWell
<1>6. m.content = None \/ m.content \in Seq(Text)
  BY SendableText
<1> QED
  BY <1>4, <1>5, <1>6, SpokenWell

(* The turn of a user. *)
LEMMA UserBlocks ==
  ASSUME NEW m, Sendable(m), m.role = "user"
  PROVE  Worded(Blocks(m.content)) /\ PartsText(Blocks(m.content)) = TextOf(m.content)
BY SendableText, BlocksWell

(* One message of the loop adds what Adds says, in Anthropic's translator. *)
LEMMA AddsA ==
  ASSUME NEW acc, NEW m, AccA(acc), Sendable(m)
  PROVE  Adds(acc, m, A!AddMessage(acc, m)) /\ AccA(A!AddMessage(acc, m))
<1> DEFINE new == A!AddMessage(acc, m)
<1> DEFINE flushed == A!FlushToolResults(acc)
<1>1. m.role \in {"system", "user", "assistant", "tool"}
  BY DEF Sendable, Role
<1>2. flushed = [system |-> acc.system, messages |-> Flushed(acc), pending |-> << >>]
  BY FlushA
<1>3. CASE m.role = "system"
  <2>1. new = [acc EXCEPT !.system = @ \o A!TextOf(m.content)]
    BY <1>3 DEF A!AddMessage
  <2>2. new = [acc EXCEPT !.system = acc.system \o TextOf(m.content)]
    BY <2>1, SameDefs
  <2> DEFINE t == acc.system \o TextOf(m.content)
  <2> HIDE DEF t, new
  <2>3. new = [system |-> t, messages |-> acc.messages, pending |-> acc.pending]
    BY <2>2 DEF AccA, t
  <2> QED
    BY <1>3, <2>3 DEF Adds, AccA, t, new
<1>4. CASE m.role = "tool"
  <2> DEFINE r == A!ToolResult(m)
  <2>1. new = [acc EXCEPT !.pending = Append(@, r)]
    BY <1>4 DEF A!AddMessage
  <2>2. TextOfPart(r) = TextOf(m.content) /\ IsResult(r)
    BY SameDefs DEF A!ToolResult, TextOfPart, IsResult
  <2> HIDE DEF r, new
  <2>3. new = [system |-> acc.system, messages |-> acc.messages, pending |-> Append(acc.pending, r)]
    BY <2>1 DEF AccA
  <2> QED
    BY <1>4, <2>2, <2>3 DEF Adds, AccA, new
<1>5. CASE m.role = "user"
  <2> DEFINE turn == A!Turn("user", Blocks(m.content))
  <2>1. new = [flushed EXCEPT !.messages = Append(@, turn)]
    BY <1>5, SameBlocks DEF A!AddMessage
  <2>2. turn.role = "user" /\ turn.content = Blocks(m.content)
    BY DEF A!Turn
  <2>3. /\ Worded(turn.content) /\ PartsText(turn.content) = TextOf(m.content)
    BY <1>5, <2>2, UserBlocks
  <2> HIDE DEF new, flushed, turn
  <2> DEFINE x == Append(Flushed(acc), turn)
  <2> HIDE DEF x
  <2>5. new = [system |-> acc.system, messages |-> x, pending |-> << >>]
    BY <1>2, <2>1 DEF x
  <2>6. AccA(new) /\ new.system = acc.system /\ new.messages = x /\ new.pending = << >>
    BY <2>5 DEF AccA
  <2>7. \E t : /\ new.messages = Append(Flushed(acc), t)
               /\ Worded(t.content) /\ PartsText(t.content) = TextOf(m.content)
               /\ t.role = "user" <=> m.role = "user"
               /\ m.role = "assistant" => Cardinality(CallsIn(t.content)) = Len(m.calls)
    <3>1. turn.role = "user" <=> m.role = "user"
      BY <1>5, <2>2
    <3>2. new.messages = Append(Flushed(acc), turn)
      BY <2>6 DEF x
    <3>3. m.role = "assistant" => Cardinality(CallsIn(turn.content)) = Len(m.calls)
      BY <1>5, <2>3
    <3> QED
      BY <2>3, <3>1, <3>2, <3>3, Zenon
  <2>8. m.role \in {"user", "assistant"}
    BY <1>5
  <2>9. Adds(acc, m, new)
    BY <2>6, <2>7, <2>8, Zenon DEF Adds
  <2> QED
    BY <2>6, <2>9 DEF new
<1>6. CASE m.role = "assistant"
  <2> DEFINE turn == A!Turn("assistant", A!AssistantBlocks(m))
  <2>1. new = [flushed EXCEPT !.messages = Append(@, turn)]
    BY <1>6, SameBlocks DEF A!AddMessage
  <2>2. turn.role = "assistant" /\ turn.content = A!AssistantBlocks(m)
    BY DEF A!Turn
  <2>3. /\ Worded(turn.content) /\ PartsText(turn.content) = TextOf(m.content)
        /\ Cardinality(CallsIn(turn.content)) = Len(m.calls)
    BY <1>6, <2>2, SpokenA
  <2> HIDE DEF new, flushed, turn
  <2> DEFINE x == Append(Flushed(acc), turn)
  <2> HIDE DEF x
  <2>5. new = [system |-> acc.system, messages |-> x, pending |-> << >>]
    BY <1>2, <2>1 DEF x
  <2>6. AccA(new) /\ new.system = acc.system /\ new.messages = x /\ new.pending = << >>
    BY <2>5 DEF AccA
  <2>7. \E t : /\ new.messages = Append(Flushed(acc), t)
               /\ Worded(t.content) /\ PartsText(t.content) = TextOf(m.content)
               /\ t.role = "user" <=> m.role = "user"
               /\ m.role = "assistant" => Cardinality(CallsIn(t.content)) = Len(m.calls)
    <3>1. turn.role = "user" <=> m.role = "user"
      BY <1>6, <2>2
    <3>2. new.messages = Append(Flushed(acc), turn)
      BY <2>6 DEF x
    <3>3. m.role = "assistant" => Cardinality(CallsIn(turn.content)) = Len(m.calls)
      BY <1>6, <2>3
    <3> QED
      BY <2>3, <3>1, <3>2, <3>3, Zenon
  <2>8. m.role \in {"user", "assistant"}
    BY <1>6
  <2>9. Adds(acc, m, new)
    BY <2>6, <2>7, <2>8, Zenon DEF Adds
  <2> QED
    BY <2>6, <2>9 DEF new
<1> QED
  BY <1>1, <1>3, <1>4, <1>5, <1>6

(* And in Gemini's. *)
LEMMA AddsG ==
  ASSUME NEW acc, NEW m, AccG(acc), Sendable(m)
  PROVE  Adds(acc, m, G!AddMessage(acc, m)) /\ AccG(G!AddMessage(acc, m))
<1> DEFINE new == G!AddMessage(acc, m)
<1> DEFINE flushed == G!FlushToolResults(acc)
<1>1. m.role \in {"system", "user", "assistant", "tool"}
  BY DEF Sendable, Role
<1>2. flushed = [system |-> acc.system, messages |-> Flushed(acc), pending |-> << >>,
                 names |-> acc.names]
  BY FlushG
<1>3. CASE m.role = "system"
  <2>1. new = [acc EXCEPT !.system = @ \o G!TextOf(m.content)]
    BY <1>3 DEF G!AddMessage
  <2>2. new = [acc EXCEPT !.system = acc.system \o TextOf(m.content)]
    BY <2>1, SameDefs
  <2> DEFINE t == acc.system \o TextOf(m.content)
  <2> HIDE DEF t, new
  <2>3. new = [system |-> t, messages |-> acc.messages, pending |-> acc.pending, names |-> acc.names]
    BY <2>2 DEF AccG, t
  <2> QED
    BY <1>3, <2>3 DEF Adds, AccG, t, new
<1>4. CASE m.role = "tool"
  <2> DEFINE r == G!FunctionResponse(m, acc.names)
  <2>1. new = [acc EXCEPT !.pending = Append(@, r)]
    BY <1>4 DEF G!AddMessage
  <2>2. TextOfPart(r) = TextOf(m.content) /\ IsResult(r)
    BY SameDefs DEF G!FunctionResponse, TextOfPart, IsResult
  <2> HIDE DEF r, new
  <2>3. new = [system |-> acc.system, messages |-> acc.messages, pending |-> Append(acc.pending, r),
               names |-> acc.names]
    BY <2>1 DEF AccG
  <2> QED
    BY <1>4, <2>2, <2>3 DEF Adds, AccG, new
<1>5. CASE m.role = "user"
  <2> DEFINE turn == G!Contents("user", Blocks(m.content))
  <2> DEFINE names == acc.names
  <2>1. new = [flushed EXCEPT !.messages = Append(@, turn)]
    BY <1>5, SameBlocks DEF G!AddMessage
  <2>2. turn.role = "user" /\ turn.content = Blocks(m.content)
    BY DEF G!Contents
  <2>3. /\ Worded(turn.content) /\ PartsText(turn.content) = TextOf(m.content)
    BY <1>5, <2>2, UserBlocks
  <2> HIDE DEF new, flushed, turn
  <2>4. [flushed EXCEPT !.messages = Append(@, turn)]
          = [system |-> acc.system, messages |-> Append(Flushed(acc), turn), pending |-> << >>,
             names |-> acc.names]
    <3>1. flushed.messages = Flushed(acc)
      BY <1>2
    <3> DEFINE t == Append(flushed.messages, turn)
    <3>2. [flushed EXCEPT !.messages = Append(@, turn)] = [flushed EXCEPT !.messages = t]
      OBVIOUS
    <3> HIDE DEF t
    <3>3. [flushed EXCEPT !.messages = t]
            = [system |-> acc.system, messages |-> t, pending |-> << >>, names |-> acc.names]
      BY <1>2
    <3> QED
      BY <3>1, <3>2, <3>3 DEF t
  <2> DEFINE x == Append(Flushed(acc), turn)
  <2> HIDE DEF x
  <2>5. new = [system |-> acc.system, messages |-> x, pending |-> << >>, names |-> names]
    BY <2>1, <2>4 DEF x
  <2> HIDE DEF names
  <2>6. AccG(new) /\ new.system = acc.system /\ new.messages = x /\ new.pending = << >>
    BY <2>5 DEF AccG
  <2>7. \E t : /\ new.messages = Append(Flushed(acc), t)
               /\ Worded(t.content) /\ PartsText(t.content) = TextOf(m.content)
               /\ t.role = "user" <=> m.role = "user"
               /\ m.role = "assistant" => Cardinality(CallsIn(t.content)) = Len(m.calls)
    <3>1. turn.role = "user" <=> m.role = "user"
      BY <1>5, <2>2
    <3>2. new.messages = Append(Flushed(acc), turn)
      BY <2>6 DEF x
    <3>3. m.role = "assistant" => Cardinality(CallsIn(turn.content)) = Len(m.calls)
      BY <1>5, <2>3
    <3> QED
      BY <2>3, <3>1, <3>2, <3>3, Zenon
  <2>8. m.role \in {"user", "assistant"}
    BY <1>5
  <2>9. Adds(acc, m, new)
    BY <2>6, <2>7, <2>8, Zenon DEF Adds
  <2> QED
    BY <2>6, <2>9 DEF new
<1>6. CASE m.role = "assistant"
  <2> DEFINE turn == G!Contents("model", G!ModelParts(m))
  <2> DEFINE names == G!NamesAfter(acc.names, m.calls)
  <2>1. new = [[flushed EXCEPT !.messages = Append(@, turn)] EXCEPT !.names = G!NamesAfter(@, m.calls)]
    BY <1>6 DEF G!AddMessage
  <2>2. turn.role = "model" /\ turn.content = G!ModelParts(m)
    BY DEF G!Contents
  <2>3. /\ Worded(turn.content) /\ PartsText(turn.content) = TextOf(m.content)
        /\ Cardinality(CallsIn(turn.content)) = Len(m.calls)
    BY <1>6, <2>2, SpokenG
  <2> HIDE DEF new, flushed, turn
  <2>4. [flushed EXCEPT !.messages = Append(@, turn)]
          = [system |-> acc.system, messages |-> Append(Flushed(acc), turn), pending |-> << >>,
             names |-> acc.names]
    <3>1. flushed.messages = Flushed(acc)
      BY <1>2
    <3> DEFINE t == Append(flushed.messages, turn)
    <3>2. [flushed EXCEPT !.messages = Append(@, turn)] = [flushed EXCEPT !.messages = t]
      OBVIOUS
    <3> HIDE DEF t
    <3>3. [flushed EXCEPT !.messages = t]
            = [system |-> acc.system, messages |-> t, pending |-> << >>, names |-> acc.names]
      BY <1>2
    <3> QED
      BY <3>1, <3>2, <3>3 DEF t
  <2> DEFINE x == Append(Flushed(acc), turn)
  <2> HIDE DEF x
  <2>5. new = [system |-> acc.system, messages |-> x, pending |-> << >>, names |-> names]
    BY <2>1, <2>4 DEF x
  <2> HIDE DEF names
  <2>6. AccG(new) /\ new.system = acc.system /\ new.messages = x /\ new.pending = << >>
    BY <2>5 DEF AccG
  <2>7. \E t : /\ new.messages = Append(Flushed(acc), t)
               /\ Worded(t.content) /\ PartsText(t.content) = TextOf(m.content)
               /\ t.role = "user" <=> m.role = "user"
               /\ m.role = "assistant" => Cardinality(CallsIn(t.content)) = Len(m.calls)
    <3>1. turn.role = "user" <=> m.role = "user"
      BY <1>6, <2>2
    <3>2. new.messages = Append(Flushed(acc), turn)
      BY <2>6 DEF x
    <3>3. m.role = "assistant" => Cardinality(CallsIn(turn.content)) = Len(m.calls)
      BY <1>6, <2>3
    <3> QED
      BY <2>3, <3>1, <3>2, <3>3, Zenon
  <2>8. m.role \in {"user", "assistant"}
    BY <1>6
  <2>9. Adds(acc, m, new)
    BY <2>6, <2>7, <2>8, Zenon DEF Adds
  <2> QED
    BY <2>6, <2>9 DEF new
<1> QED
  BY <1>1, <1>3, <1>4, <1>5, <1>6

(* The text of the first messages: the system's, or the others'. *)
Own(m, system) == IF (m.role = "system") = system THEN TextOf(m.content) ELSE Blank

Spoke(n, system) == FlattenSeq([i \in 1 .. n |-> Own(conv[i], system)])

(* The text of a message belongs to the system or to the conversation. *)
LEMMA OwnIs ==
  ASSUME NEW m
  PROVE  /\ m.role = "system" => Own(m, TRUE) = TextOf(m.content) /\ Own(m, FALSE) = << >>
         /\ m.role # "system" => Own(m, FALSE) = TextOf(m.content) /\ Own(m, TRUE) = << >>
BY DEF Own, Blank

AllSendable == conv \in Seq(Msg) /\ \A i \in 1 .. Len(conv) : Sendable(conv[i])

(* The text of the conversation so far, message by message. *)
LEMMA SpokeOneMore ==
  ASSUME AllSendable, NEW system \in BOOLEAN, NEW n \in Nat, n + 1 <= Len(conv)
  PROVE  Spoke(n + 1, system) = Spoke(n, system) \o Own(conv[n + 1], system)
         /\ Spoke(n, system) \in Seq(TextPiece)
         /\ Own(conv[n + 1], system) \in Seq(TextPiece)
<1> DEFINE s == [i \in 1 .. n |-> Own(conv[i], system)]
<1> DEFINE m == [i \in 1 .. n + 1 |-> Own(conv[i], system)]
<1> DEFINE x == Own(conv[n + 1], system)
<1>1. Len(conv) \in Nat
  BY DEF AllSendable
<1>2. \A i \in 1 .. n + 1 : Own(conv[i], system) \in Seq(TextPiece)
  <2> SUFFICES ASSUME NEW i \in 1 .. n + 1
               PROVE  Own(conv[i], system) \in Seq(TextPiece)
    OBVIOUS
  <2>1. Sendable(conv[i])
    BY <1>1 DEF AllSendable
  <2>2. TextOf(conv[i].content) \in Seq(TextPiece)
    BY <2>1, SendableText
  <2>3. << >> \in Seq(TextPiece)
    OBVIOUS
  <2> QED
    BY <2>2, <2>3 DEF Own, Blank
<1>3. s \in Seq(Seq(TextPiece)) /\ Len(s) = n
  BY <1>2
<1>4. x \in Seq(TextPiece)
  BY <1>2
<1>5. Extends(m, s, x)
  <2>1. IsFun(m, Len(s) + 1) /\ \A k \in 1 .. Len(s) : m[k] = s[k]
    BY <1>3 DEF IsFun
  <2>2. m[Len(s) + 1] = x
    BY <1>3
  <2> QED
    BY <2>1, <2>2 DEF Same, Extends
<1>6. Spoke(n + 1, system) = FlattenSeq(m) /\ Spoke(n, system) = FlattenSeq(s)
  BY DEF Spoke
<1> HIDE DEF s, m, x
<1>7. FlattenSeq(m) = FlattenSeq(s) \o x /\ FlattenSeq(s) \in Seq(TextPiece)
  BY <1>3, <1>4, <1>5, FlatOneMore
<1> QED
  BY <1>4, <1>6, <1>7 DEF x

LEMMA SpokeNothing == \A system : Spoke(0, system) = << >>
<1> SUFFICES ASSUME NEW system
             PROVE  Spoke(0, system) = << >>
  OBVIOUS
<1>1. [i \in 1 .. 0 |-> Own(conv[i], system)] = << >>
  OBVIOUS
<1> QED
  BY <1>1, FlatEmpty DEF Spoke

LEMMA SpokeAll ==
  ASSUME conv \in Seq(Msg), NEW system
  PROVE  ConversationText(system) = Spoke(Len(conv), system)
<1>1. DOMAIN conv = 1 .. Len(conv)
  OBVIOUS
<1> QED
  BY <1>1 DEF ConversationText, Spoke, Own

(* So many messages were translated, and nothing was lost. *)
Tells(acc, n) ==
  /\ acc.system = Spoke(n, TRUE)
  /\ WordedTurns(acc.messages) /\ Worded(acc.pending)
  /\ TurnsText(acc.messages) \o PartsText(acc.pending) = Spoke(n, FALSE)

(* Flushing loses no text. *)
LEMMA FlushedWell ==
  ASSUME NEW acc, WordedTurns(acc.messages), Worded(acc.pending)
  PROVE  /\ WordedTurns(Flushed(acc))
         /\ TurnsText(Flushed(acc)) = TurnsText(acc.messages) \o PartsText(acc.pending)
<1>1. CASE acc.pending = << >>
  <2>1. PartsText(<< >>) = << >>
    <3>1. [i \in DOMAIN << >> |-> TextOfPart(<< >>[i])] = << >>
      OBVIOUS
    <3> QED
      BY <3>1, FlatEmpty DEF PartsText
  <2>2. TurnsText(acc.messages) \in Seq(TextPiece)
    BY TurnsFlat
  <2>3. TurnsText(acc.messages) \o << >> = TurnsText(acc.messages)
    BY <2>2
  <2> QED
    BY <1>1, <2>1, <2>3 DEF Flushed
<1>2. CASE acc.pending # << >>
  <2> DEFINE x == [role |-> "user", content |-> acc.pending]
  <2>1. x.content = acc.pending
    OBVIOUS
  <2> HIDE DEF x
  <2>2. Worded(x.content)
    BY <2>1
  <2>3. /\ WordedTurns(Append(acc.messages, x))
        /\ TurnsText(Append(acc.messages, x)) = TurnsText(acc.messages) \o PartsText(x.content)
    BY <2>2, TurnsOneMore
  <2> QED
    BY <1>2, <2>1, <2>3 DEF Flushed, x
<1> QED
  BY <1>1, <1>2

(* A message keeps the text told and the text of the conversation the same. *)
LEMMA TellsMore ==
  ASSUME AllSendable, NEW n \in Nat, n + 1 <= Len(conv), NEW acc, NEW more,
         Tells(acc, n), Adds(acc, conv[n + 1], more)
  PROVE  Tells(more, n + 1)
<1> DEFINE m == conv[n + 1]
<1> DEFINE t == TextOf(m.content)
<1> DEFINE a == TurnsText(acc.messages)
<1> DEFINE b == PartsText(acc.pending)
<1>1. /\ acc.system = Spoke(n, TRUE) /\ WordedTurns(acc.messages) /\ Worded(acc.pending)
      /\ a \o b = Spoke(n, FALSE)
  BY DEF Tells
<1>2. Sendable(m)
  BY DEF AllSendable
<1>3. t \in Seq(TextPiece) /\ a \in Seq(TextPiece) /\ b \in Seq(TextPiece)
  BY <1>1, <1>2, SendableText, TurnsFlat, PartsFlat
<1>4. /\ Spoke(n + 1, TRUE) = Spoke(n, TRUE) \o Own(m, TRUE) /\ Spoke(n, TRUE) \in Seq(TextPiece)
      /\ Spoke(n + 1, FALSE) = Spoke(n, FALSE) \o Own(m, FALSE) /\ Spoke(n, FALSE) \in Seq(TextPiece)
  BY SpokeOneMore
<1>5. /\ m.role = "system" => Own(m, TRUE) = t /\ Own(m, FALSE) = << >>
      /\ m.role # "system" => Own(m, FALSE) = t /\ Own(m, TRUE) = << >>
  BY OwnIs
<1>6. /\ Spoke(n, TRUE) \o << >> = Spoke(n, TRUE) /\ Spoke(n, FALSE) \o << >> = Spoke(n, FALSE)
  BY <1>4
<1>7. Adds(acc, m, more)
  OBVIOUS
<1> HIDE DEF m, t
<1>8. CASE m.role = "system"
  <2>1. more.system = acc.system \o t /\ more.messages = acc.messages /\ more.pending = acc.pending
    BY <1>7, <1>8 DEF Adds, t
  <2> QED
    BY <1>1, <1>4, <1>5, <1>6, <1>8, <2>1 DEF Tells
<1>9. CASE m.role = "tool"
  <2>1. more.system = acc.system /\ more.messages = acc.messages
        /\ \E r : more.pending = Append(acc.pending, r) /\ TextOfPart(r) = t
    BY <1>7, <1>9 DEF Adds, t
  <2>2. PICK r : more.pending = Append(acc.pending, r) /\ TextOfPart(r) = t
    BY <2>1
  <2>3. TextOfPart(r) \in Seq(TextPiece)
    BY <1>3, <2>2
  <2>4. Worded(Append(acc.pending, r)) /\ PartsText(Append(acc.pending, r)) = b \o t
    <3>1. PartsText(Append(acc.pending, r)) = PartsText(acc.pending) \o TextOfPart(r)
          /\ Worded(Append(acc.pending, r))
      BY <1>1, <2>3, PartsOneMore
    <3> QED
      BY <2>2, <3>1
  <2> HIDE DEF a, b
  <2>5. (a \o b) \o t = a \o (b \o t)
    <3>1. Regroup(a, b, t)
      BY <1>3, Regrouping
    <3> QED
      BY <3>1 DEF Regroup
  <2>6. more.system = Spoke(n + 1, TRUE)
    BY <1>1, <1>4, <1>5, <1>6, <1>9, <2>1
  <2>7. TurnsText(more.messages) \o PartsText(more.pending) = a \o (b \o t)
    BY <2>1, <2>2, <2>4 DEF a
  <2>8. Spoke(n + 1, FALSE) = (a \o b) \o t
    BY <1>1, <1>4, <1>5, <1>9
  <2> QED
    BY <1>1, <2>1, <2>2, <2>4, <2>5, <2>6, <2>7, <2>8 DEF Tells
<1>10. CASE m.role \in {"user", "assistant"}
  <2>1. more.system = acc.system /\ more.pending = << >>
        /\ \E turn : /\ more.messages = Append(Flushed(acc), turn)
                     /\ Worded(turn.content) /\ PartsText(turn.content) = t
    BY <1>7, <1>10 DEF Adds, t
  <2>2. PICK turn : /\ more.messages = Append(Flushed(acc), turn)
                    /\ Worded(turn.content) /\ PartsText(turn.content) = t
    BY <2>1
  <2>3. WordedTurns(Flushed(acc)) /\ TurnsText(Flushed(acc)) = a \o b
    BY <1>1, FlushedWell
  <2>4. /\ WordedTurns(more.messages)
        /\ TurnsText(more.messages) = TurnsText(Flushed(acc)) \o PartsText(turn.content)
    BY <2>2, <2>3, TurnsOneMore
  <2>5. Worded(<< >>) /\ PartsText(<< >>) = << >>
    <3>1. [i \in DOMAIN << >> |-> TextOfPart(<< >>[i])] = << >>
      OBVIOUS
    <3> QED
      BY <3>1, EmptyList, FlatEmpty DEF Worded, PartsText
  <2> HIDE DEF a, b
  <2>6. more.system = Spoke(n + 1, TRUE)
    BY <1>1, <1>4, <1>5, <1>6, <1>10, <2>1
  <2>7. Spoke(n + 1, FALSE) = (a \o b) \o t
    BY <1>1, <1>4, <1>5, <1>10
  <2>8. ((a \o b) \o t) \o << >> = (a \o b) \o t
    BY <1>3
  <2>9. TurnsText(more.messages) = (a \o b) \o t
    BY <2>2, <2>3, <2>4
  <2> QED
    BY <2>1, <2>4, <2>5, <2>6, <2>7, <2>8, <2>9 DEF Tells
<1>11. m.role \in {"system", "tool", "user", "assistant"}
  BY <1>2 DEF Sendable, Role
<1> QED
  BY <1>8, <1>9, <1>10, <1>11

(* Nothing has no text. *)
LEMMA NoText ==
  /\ WordedTurns(<< >>) /\ TurnsText(<< >>) = << >>
  /\ Worded(<< >>) /\ PartsText(<< >>) = << >>
<1>1. [i \in DOMAIN << >> |-> TextOfPart(<< >>[i])] = << >>
      /\ [i \in DOMAIN << >> |-> TextOfTurn(<< >>[i])] = << >>
  OBVIOUS
<1> QED
  BY <1>1, EmptyList, FlatEmpty DEF Worded, PartsText, WordedTurns, TurnsText

(* The loop begins with nothing told of nothing. *)
LEMMA TellsNothing ==
  /\ AccA(A!Nothing) /\ Tells(A!Nothing, 0)
  /\ AccG(G!Nothing) /\ Tells(G!Nothing, 0)
<1>1. << >> \o << >> = << >>
  OBVIOUS
<1> QED
  BY <1>1, NoText, SpokeNothing DEF AccA, AccG, Tells, A!Nothing, G!Nothing

(* So at every message the loop has told the text so far: Anthropic, then
   Gemini. *)
LEMMA TellsA ==
  ASSUME AllSendable, NEW f, StepsA(conv, Len(conv), f), NEW n \in 0 .. Len(conv)
  PROVE  AccA(f[n]) /\ Tells(f[n], n)
<1> DEFINE S == {k \in Nat : k \in 0 .. Len(conv) => AccA(f[k]) /\ Tells(f[k], k)}
<1>1. Len(conv) \in Nat
  BY DEF AllSendable
<1>2. 0 \in S
  <2>1. f[0] = A!Nothing
    BY <1>1 DEF StepsA
  <2>2. AccA(A!Nothing) /\ Tells(A!Nothing, 0)
    BY TellsNothing
  <2> QED
    BY <2>1, <2>2
<1>3. ASSUME NEW k \in Nat, k \in S
      PROVE  k + 1 \in S
  <2> SUFFICES ASSUME k + 1 \in 0 .. Len(conv)
               PROVE  AccA(f[k + 1]) /\ Tells(f[k + 1], k + 1)
    OBVIOUS
  <2>1. k \in 0 .. Len(conv) /\ k + 1 <= Len(conv) /\ k + 1 # 0 /\ (k + 1) - 1 = k
        /\ k + 1 \in 1 .. Len(conv)
    BY <1>1
  <2>2. AccA(f[k]) /\ Tells(f[k], k)
    BY <1>3, <2>1
  <2> DEFINE acc == f[k]
  <2> DEFINE m == conv[k + 1]
  <2>3. f[k + 1] = A!AddMessage(acc, m)
    <3>1. f[k + 1] = A!AddMessage(f[(k + 1) - 1], conv[k + 1])
      BY <2>1, Zenon DEF StepsA
    <3> QED
      BY <2>1, <3>1
  <2>4. Sendable(m)
    BY <2>1 DEF AllSendable
  <2>5. AccA(acc) /\ Tells(acc, k)
    BY <2>2
  <2> HIDE DEF acc
  <2>6. Adds(acc, m, A!AddMessage(acc, m)) /\ AccA(A!AddMessage(acc, m))
    BY <2>4, <2>5, AddsA
  <2> DEFINE more == A!AddMessage(acc, m)
  <2>7. Adds(acc, conv[k + 1], more)
    BY <2>6
  <2> HIDE DEF more, m
  <2>8. Tells(more, k + 1)
    BY <2>1, <2>5, <2>7, TellsMore
  <2> QED
    BY <2>3, <2>6, <2>8 DEF more
<1> HIDE DEF S
<1>4. n \in S
  BY <1>1, <1>2, <1>3, Induct
<1> QED
  BY <1>4 DEF S

LEMMA TellsG ==
  ASSUME AllSendable, NEW f, StepsG(conv, Len(conv), f), NEW n \in 0 .. Len(conv)
  PROVE  AccG(f[n]) /\ Tells(f[n], n)
<1> DEFINE S == {k \in Nat : k \in 0 .. Len(conv) => AccG(f[k]) /\ Tells(f[k], k)}
<1>1. Len(conv) \in Nat
  BY DEF AllSendable
<1>2. 0 \in S
  <2>1. f[0] = G!Nothing
    BY <1>1 DEF StepsG
  <2>2. AccG(G!Nothing) /\ Tells(G!Nothing, 0)
    BY TellsNothing
  <2> QED
    BY <2>1, <2>2
<1>3. ASSUME NEW k \in Nat, k \in S
      PROVE  k + 1 \in S
  <2> SUFFICES ASSUME k + 1 \in 0 .. Len(conv)
               PROVE  AccG(f[k + 1]) /\ Tells(f[k + 1], k + 1)
    OBVIOUS
  <2>1. k \in 0 .. Len(conv) /\ k + 1 <= Len(conv) /\ k + 1 # 0 /\ (k + 1) - 1 = k
        /\ k + 1 \in 1 .. Len(conv)
    BY <1>1
  <2>2. AccG(f[k]) /\ Tells(f[k], k)
    BY <1>3, <2>1
  <2> DEFINE acc == f[k]
  <2> DEFINE m == conv[k + 1]
  <2>3. f[k + 1] = G!AddMessage(acc, m)
    <3>1. f[k + 1] = G!AddMessage(f[(k + 1) - 1], conv[k + 1])
      BY <2>1, Zenon DEF StepsG
    <3> QED
      BY <2>1, <3>1
  <2>4. Sendable(m)
    BY <2>1 DEF AllSendable
  <2>5. AccG(acc) /\ Tells(acc, k)
    BY <2>2
  <2> HIDE DEF acc
  <2>6. Adds(acc, m, G!AddMessage(acc, m)) /\ AccG(G!AddMessage(acc, m))
    BY <2>4, <2>5, AddsG
  <2> DEFINE more == G!AddMessage(acc, m)
  <2>7. Adds(acc, conv[k + 1], more)
    BY <2>6
  <2> HIDE DEF more, m
  <2>8. Tells(more, k + 1)
    BY <2>1, <2>5, <2>7, TellsMore
  <2> QED
    BY <2>3, <2>6, <2>8 DEF more
<1> HIDE DEF S
<1>4. n \in S
  BY <1>1, <1>2, <1>3, Induct
<1> QED
  BY <1>4 DEF S

(* The translated request has the text of the whole conversation, in turns
   and in the system prompt. *)
LEMMA TextKeptA ==
  ASSUME AllSendable
  PROVE  /\ TurnsText(A!Translated(conv).messages) = ConversationText(FALSE)
         /\ A!Translated(conv).system = ConversationText(TRUE)
<1>1. conv \in Seq(Msg) /\ Len(conv) \in Nat /\ Len(conv) \in 0 .. Len(conv)
  BY DEF AllSendable
<1>2. PICK f : StepsA(conv, Len(conv), f)
               /\ A!Translated(conv) = A!FlushToolResults(f[Len(conv)])
  BY <1>1, TranslatedA
<1> DEFINE acc == f[Len(conv)]
<1>3. AccA(acc) /\ Tells(acc, Len(conv))
  BY <1>1, <1>2, TellsA
<1>4. A!Translated(conv) = A!FlushToolResults(acc)
  BY <1>2
<1> HIDE DEF acc
<1>5. A!Translated(conv).messages = Flushed(acc) /\ A!Translated(conv).system = acc.system
  BY <1>3, <1>4, FlushA
<1>6. TurnsText(Flushed(acc)) = Spoke(Len(conv), FALSE)
  BY <1>3, FlushedWell DEF Tells
<1> QED
  BY <1>1, <1>3, <1>5, <1>6, SpokeAll DEF Tells

LEMMA TextKeptG ==
  ASSUME AllSendable
  PROVE  /\ TurnsText(G!Translated(conv).messages) = ConversationText(FALSE)
         /\ G!Translated(conv).system = ConversationText(TRUE)
<1>1. conv \in Seq(Msg) /\ Len(conv) \in Nat /\ Len(conv) \in 0 .. Len(conv)
  BY DEF AllSendable
<1>2. PICK f : StepsG(conv, Len(conv), f)
               /\ G!Translated(conv) = G!FlushToolResults(f[Len(conv)])
  BY <1>1, TranslatedG
<1> DEFINE acc == f[Len(conv)]
<1>3. AccG(acc) /\ Tells(acc, Len(conv))
  BY <1>1, <1>2, TellsG
<1>4. G!Translated(conv) = G!FlushToolResults(acc)
  BY <1>2
<1> HIDE DEF acc
<1>5. G!Translated(conv).messages = Flushed(acc) /\ G!Translated(conv).system = acc.system
  BY <1>3, <1>4, FlushG
<1>6. TurnsText(Flushed(acc)) = Spoke(Len(conv), FALSE)
  BY <1>3, FlushedWell DEF Tells
<1> QED
  BY <1>1, <1>3, <1>5, <1>6, SpokeAll DEF Tells

(* The request is the conversation with its parameters. *)
LEMMA ReqIs == Req.messages = conv /\ Req.stop = params.stop /\ Req.choice = params.choice
BY DEF Req, Request

(* Both translators refuse the same fields and contents. *)
LEMMA SameRefusals == A!Untranslatable(Req) <=> G!Untranslatable(Req)
BY SameDefs DEF A!Untranslatable, G!Untranslatable

(* A request that neither refuses has messages that can be sent. *)
LEMMA TranslatableIs ==
  ASSUME conv \in Seq(Msg), ~A!Untranslatable(Req)
  PROVE  AllSendable
<1>1. \A m \in ToSet(conv) :
        /\ m.role # Unknown /\ ~HasImage(m.content)
        /\ ~(m.role \in {"user", "assistant"} /\ HasUnknown(m.content))
  BY SameDefs, ReqIs DEF A!Untranslatable
<1>2. \A i \in 1 .. Len(conv) : conv[i] \in ToSet(conv) /\ conv[i] \in Msg
  BY DEF ToSet
<1> QED
  BY <1>1, <1>2 DEF AllSendable, Sendable, Msg

(* The request a provider gets has the text of the conversation, all of it
   and in order: nothing a message says is dropped, repeated or moved by the
   translation (request.go of both). *)
THEOREM NothingIsLost == Spec => []NothingLost
<1>1. AnswerInv => NothingLost
  <2> SUFFICES ASSUME AnswerInv, NEW proto \in Translations
               PROVE  /\ TurnsText(TranslateRequest(proto).messages) = ConversationText(FALSE)
                      /\ TranslateRequest(proto).system = ConversationText(TRUE)
    BY DEF NothingLost, TurnsText
  <2>1. conv \in Seq(Msg)
    BY DEF AnswerInv, Typed
  <2>2. proto \in {"anthropic", "gemini"} /\ ~Refuses(proto)
    BY DEF Translations
  <2>3. CASE proto = "anthropic"
    <3>1. ~A!Untranslatable(Req)
      BY <2>2, <2>3 DEF Refuses, A!Refused
    <3>2. AllSendable
      BY <2>1, <3>1, TranslatableIs
    <3>3. TranslateRequest(proto).messages = A!Translated(conv).messages
          /\ TranslateRequest(proto).system = A!Translated(conv).system
      BY <2>3, ReqIs DEF TranslateRequest, A!OpenAIToAnthropic
    <3> QED
      BY <3>2, <3>3, TextKeptA
  <2>4. CASE proto = "gemini"
    <3>1. ~G!Untranslatable(Req)
      BY <2>2, <2>4 DEF Refuses, G!Refused
    <3>2. AllSendable
      BY <2>1, <3>1, SameRefusals, TranslatableIs
    <3>3. TranslateRequest(proto).messages = G!Translated(conv).messages
          /\ TranslateRequest(proto).system = G!Translated(conv).system
      BY <2>4, ReqIs DEF TranslateRequest, G!OpenAIToGemini
    <3> QED
      BY <3>2, <3>3, TextKeptG
  <2> QED
    BY <2>2, <2>3, <2>4
<1> QED
  BY <1>1, AnswerKept, PTL

----------------------------------------------------------------------------
(* The two protocols refuse the same conversations. *)

Alike(a, g) ==
  /\ a.messages = << >> <=> g.messages = << >>
  /\ a.pending = << >> <=> g.pending = << >>

(* A request translates to no turn only if nothing was added and nothing
   waits. *)
LEMMA FlushedEmpty ==
  ASSUME NEW acc, WordedTurns(acc.messages), Worded(acc.pending)
  PROVE  /\ Flushed(acc) = << >> <=> acc.messages = << >> /\ acc.pending = << >>
         /\ \A turn : Append(Flushed(acc), turn) # << >>
         /\ \A r : Append(acc.pending, r) # << >>
<1>1. IsList(acc.messages) /\ IsList(acc.pending)
  BY DEF WordedTurns, Worded
<1>2. \A x : Append(acc.messages, x) # << >> /\ Append(acc.pending, x) # << >>
  BY <1>1, ListAppend
<1>3. IsList(Flushed(acc))
  BY FlushedWell DEF WordedTurns
<1>4. \A turn : Append(Flushed(acc), turn) # << >>
  BY <1>3, ListAppend
<1> QED
  BY <1>2, <1>4 DEF Flushed

(* A message leaves both translators with turns or both without, and with
   results that wait or without. *)
LEMMA AlikeMore ==
  ASSUME NEW a, NEW g, NEW m, NEW b, NEW h, Adds(a, m, b), Adds(g, m, h), Alike(a, g),
         WordedTurns(a.messages), Worded(a.pending), WordedTurns(g.messages), Worded(g.pending)
  PROVE  Alike(b, h)
<1>1. CASE m.role = "system"
  BY <1>1 DEF Adds, Alike
<1>2. CASE m.role = "tool"
  <2>1. /\ b.messages = a.messages /\ \E r : b.pending = Append(a.pending, r)
        /\ h.messages = g.messages /\ \E r : h.pending = Append(g.pending, r)
    BY <1>2 DEF Adds
  <2>2. b.pending # << >> /\ h.pending # << >>
    BY <2>1, FlushedEmpty
  <2> QED
    BY <2>1, <2>2 DEF Alike
<1>3. CASE m.role \in {"user", "assistant"}
  <2>1. /\ b.pending = << >> /\ \E turn : b.messages = Append(Flushed(a), turn)
        /\ h.pending = << >> /\ \E turn : h.messages = Append(Flushed(g), turn)
    BY <1>3 DEF Adds
  <2>2. b.messages # << >> /\ h.messages # << >>
    BY <2>1, FlushedEmpty
  <2> QED
    BY <2>1, <2>2 DEF Alike
<1> QED
  BY <1>1, <1>2, <1>3 DEF Adds

(* So they agree after every message, and at the end of the loop. *)
LEMMA AlikeAlways ==
  ASSUME AllSendable, NEW f, NEW g, StepsA(conv, Len(conv), f), StepsG(conv, Len(conv), g),
         NEW n \in 0 .. Len(conv)
  PROVE  Alike(f[n], g[n])
<1> DEFINE S == {k \in Nat : k \in 0 .. Len(conv) => Alike(f[k], g[k])}
<1>1. Len(conv) \in Nat
  BY DEF AllSendable
<1>2. 0 \in S
  <2>1. f[0] = A!Nothing /\ g[0] = G!Nothing
    BY <1>1 DEF StepsA, StepsG
  <2> QED
    BY <2>1 DEF Alike, A!Nothing, G!Nothing
<1>3. ASSUME NEW k \in Nat, k \in S
      PROVE  k + 1 \in S
  <2> SUFFICES ASSUME k + 1 \in 0 .. Len(conv)
               PROVE  Alike(f[k + 1], g[k + 1])
    OBVIOUS
  <2>1. k \in 0 .. Len(conv) /\ k + 1 # 0 /\ (k + 1) - 1 = k /\ k + 1 \in 1 .. Len(conv)
    BY <1>1
  <2> DEFINE a == f[k]
  <2> DEFINE c == g[k]
  <2> DEFINE m == conv[k + 1]
  <2>2. AccA(a) /\ Tells(a, k) /\ AccG(c) /\ Tells(c, k) /\ Alike(a, c)
    BY <1>3, <2>1, TellsA, TellsG
  <2>3. f[k + 1] = A!AddMessage(a, m) /\ g[k + 1] = G!AddMessage(c, m)
    <3>1. f[k + 1] = A!AddMessage(f[(k + 1) - 1], conv[k + 1])
          /\ g[k + 1] = G!AddMessage(g[(k + 1) - 1], conv[k + 1])
      BY <2>1, Zenon DEF StepsA, StepsG
    <3> QED
      BY <2>1, <3>1
  <2>4. Sendable(m)
    BY <2>1 DEF AllSendable
  <2> HIDE DEF a, c, m
  <2>5. Adds(a, m, A!AddMessage(a, m)) /\ Adds(c, m, G!AddMessage(c, m))
    BY <2>2, <2>4, AddsA, AddsG
  <2>6. WordedTurns(a.messages) /\ Worded(a.pending) /\ WordedTurns(c.messages) /\ Worded(c.pending)
    BY <2>2 DEF Tells
  <2>7. Alike(A!AddMessage(a, m), G!AddMessage(c, m))
    BY <2>2, <2>5, <2>6, AlikeMore
  <2> QED
    BY <2>3, <2>7
<1> HIDE DEF S
<1>4. n \in S
  BY <1>1, <1>2, <1>3, Induct
<1> QED
  BY <1>4 DEF S

LEMMA EmptyAlike ==
  ASSUME AllSendable
  PROVE  A!Translated(conv).messages = << >> <=> G!Translated(conv).messages = << >>
<1>1. Len(conv) \in Nat /\ Len(conv) \in 0 .. Len(conv)
  BY DEF AllSendable
<1>2. PICK f : StepsA(conv, Len(conv), f)
               /\ A!Translated(conv) = A!FlushToolResults(f[Len(conv)])
  BY <1>1, TranslatedA
<1>3. PICK g : StepsG(conv, Len(conv), g)
               /\ G!Translated(conv) = G!FlushToolResults(g[Len(conv)])
  BY <1>1, TranslatedG
<1> DEFINE a == f[Len(conv)]
<1> DEFINE c == g[Len(conv)]
<1>4. AccA(a) /\ Tells(a, Len(conv)) /\ AccG(c) /\ Tells(c, Len(conv)) /\ Alike(a, c)
  BY <1>1, <1>2, <1>3, TellsA, TellsG, AlikeAlways
<1>5. A!Translated(conv) = A!FlushToolResults(a) /\ G!Translated(conv) = G!FlushToolResults(c)
  BY <1>2, <1>3
<1> HIDE DEF a, c
<1>6. A!Translated(conv).messages = Flushed(a) /\ G!Translated(conv).messages = Flushed(c)
  BY <1>4, <1>5, FlushA, FlushG
<1>7. /\ Flushed(a) = << >> <=> a.messages = << >> /\ a.pending = << >>
      /\ Flushed(c) = << >> <=> c.messages = << >> /\ c.pending = << >>
  BY <1>4, FlushedEmpty DEF Tells
<1> QED
  BY <1>4, <1>6, <1>7 DEF Alike

(* The two translators refuse the same conversations: whether an Anthropic or a
   Gemini target was picked does not decide it (request.go of both). A target
   that speaks the format of the client has no translator, and is no part of it. *)
THEOREM TargetsRefuseAlike == Spec => []RefusedAlike
<1>1. AnswerInv => RefusedAlike
  <2> SUFFICES ASSUME AnswerInv
               PROVE  A!Refused(Req) <=> G!Refused(Req)
    BY DEF RefusedAlike
  <2>1. conv \in Seq(Msg)
    BY DEF AnswerInv, Typed
  <2>2. CASE A!Untranslatable(Req)
    BY <2>2, SameRefusals DEF A!Refused, G!Refused
  <2>3. CASE ~A!Untranslatable(Req)
    <3>1. AllSendable
      BY <2>1, <2>3, TranslatableIs
    <3>2. /\ A!OpenAIToAnthropic(Req).messages = A!Translated(conv).messages
          /\ G!OpenAIToGemini(Req).messages = G!Translated(conv).messages
      BY ReqIs DEF A!OpenAIToAnthropic, G!OpenAIToGemini
    <3>3. A!OpenAIToAnthropic(Req).messages = << >> <=> G!OpenAIToGemini(Req).messages = << >>
      BY <3>1, <3>2, EmptyAlike
    <3> QED
      BY <2>3, <3>3, SameRefusals DEF A!Refused, G!Refused
  <2> QED
    BY <2>2, <2>3
<1> QED
  BY <1>1, AnswerKept, PTL

----------------------------------------------------------------------------
(* A call that is announced to a client by an id has a name, even in a stream
   of Anthropic that lost an event. *)

Named(c) == c.kind = "call" /\ c.id # None => c.name # None

AllNamed(o) == \A i \in 1 .. Len(o) : Named(o[i])

NamedInv == asked.proto = "anthropic" => AllNamed(out)

(* A stream of named calls stays one. *)
LEMMA NamedOneMore ==
  ASSUME NEW o, NEW c, o \in Seq(Chunk), c \in Chunk, AllNamed(o), Named(c)
  PROVE  AllNamed(Append(o, c)) /\ Append(o, c) \in Seq(Chunk)
<1> DEFINE all == Append(o, c)
<1>1. /\ all \in Seq(Chunk) /\ Len(o) \in Nat /\ Len(all) = Len(o) + 1 /\ all[Len(o) + 1] = c
      /\ \A i \in 1 .. Len(o) : all[i] = o[i]
  BY Appended
<1> HIDE DEF all
<1>2. ASSUME NEW i \in 1 .. Len(all)
      PROVE  Named(all[i])
  <2>1. CASE i \in 1 .. Len(o)
    BY <1>1, <2>1 DEF AllNamed
  <2>2. CASE i = Len(o) + 1
    BY <1>1, <2>2
  <2> QED
    BY <1>1, <2>1, <2>2
<1> QED
  BY <1>1, <1>2 DEF AllNamed, all

(* Chunks that are not of a call, and the two chunks of calls. *)
LEMMA NamedChunks ==
  /\ RoleChunk \in Chunk /\ Named(RoleChunk) /\ Done \in Chunk /\ Named(Done)
  /\ ErrorChunk \in Chunk /\ Named(ErrorChunk)
  /\ \A t \in Seq(TextPiece) : TextChunk(t) \in Chunk /\ Named(TextChunk(t))
  /\ \A r \in Reason \cup {None} : FinishChunk(r) \in Chunk /\ Named(FinishChunk(r))
  /\ \A i \in Nat, d \in Id, n \in Name :
       CallChunk(i, d, n, << >>) \in Chunk /\ Named(CallChunk(i, d, n, << >>))
  /\ \A i \in Nat, x \in ArgPiece :
       CallChunk(i, None, None, << x >>) \in Chunk /\ Named(CallChunk(i, None, None, << x >>))
<1>1. RoleChunk \in Chunk /\ Named(RoleChunk) /\ Done \in Chunk /\ Named(Done)
      /\ ErrorChunk \in Chunk /\ Named(ErrorChunk)
  BY DEF Chunk, Named, RoleChunk, Done, ErrorChunk
<1>2. ASSUME NEW t \in Seq(TextPiece)
      PROVE  TextChunk(t) \in Chunk /\ Named(TextChunk(t))
  BY DEF Chunk, Named, TextChunk, TextChunkType, Text
<1>3. ASSUME NEW r \in Reason \cup {None}
      PROVE  FinishChunk(r) \in Chunk /\ Named(FinishChunk(r))
  BY DEF Chunk, Named, FinishChunk, FinishChunkType
<1>4. ASSUME NEW i \in Nat, NEW d \in Id, NEW n \in Name
      PROVE  CallChunk(i, d, n, << >>) \in Chunk /\ Named(CallChunk(i, d, n, << >>))
  <2> DEFINE x == << >>
  <2>1. x \in Seq(ArgPiece) /\ d \in Id \cup {None} /\ n \in Name \cup {None}
    OBVIOUS
  <2> HIDE DEF x
  <2>2. CallChunk(i, d, n, x) \in Chunk /\ CallChunk(i, d, n, x).name = n
    BY <2>1 DEF CallChunk, Chunk, CallChunkType
  <2> QED
    BY <2>2, Bounds DEF Named, x
<1>5. ASSUME NEW i \in Nat, NEW x \in ArgPiece
      PROVE  CallChunk(i, None, None, << x >>) \in Chunk /\ Named(CallChunk(i, None, None, << x >>))
  <2> DEFINE y == << x >>
  <2>1. y \in Seq(ArgPiece) /\ None \in Id \cup {None} /\ None \in Name \cup {None}
    OBVIOUS
  <2> HIDE DEF y
  <2>2. CallChunk(i, None, None, y) \in Chunk /\ CallChunk(i, None, None, y).id = None
    BY <2>1 DEF CallChunk, Chunk, CallChunkType
  <2> QED
    BY <2>2 DEF Named, y
<1> QED
  BY <1>1, <1>2, <1>3, <1>4, <1>5

(* Every action keeps calls named: Anthropic begins a call with its id and its
   name at once, or the client sees neither. *)
LEMMA NextKeepsNamed ==
  ASSUME AnswerInv, NamedInv, Next
  PROVE  NamedInv'
<1>1. Typed
  BY DEF AnswerInv
<1>2. out \in Seq(Chunk) /\ asked.streaming \in BOOLEAN
  BY <1>1, SaidFields DEF Typed
<1>3. ASSUME NEW proto \in Protocol, NEW s \in BOOLEAN, Send(proto, s)
      PROVE  NamedInv'
  BY <1>3 DEF Send, NamedInv, AllNamed
<1>4. ASSUME asked' = asked, asked.proto = "anthropic" => AllNamed(out')
      PROVE  NamedInv'
  BY <1>4 DEF NamedInv
<1>5. asked.proto = "anthropic" => AllNamed(out)
  BY DEF NamedInv
<1>6. CASE Begin
  <2>1. /\ asked' = asked
        /\ out' = Append(out, RoleChunk) \/ out' = out
    BY <1>1, <1>2, <1>6, BeginEmits DEF Begin
  <2> QED
    BY <1>2, <1>4, <1>5, <2>1, NamedOneMore, NamedChunks
<1>7. CASE SayText
  <2>1. /\ asked' = asked
        /\ out' = Append(out, TextChunk(<< Piece("model") >>)) \/ out' = out
    BY <1>1, <1>2, <1>7, SayTextEmits DEF SayText
  <2>2. << Piece("model") >> \in Seq(TextPiece)
    BY <1>1, Pieces
  <2> QED
    BY <1>2, <1>4, <1>5, <2>1, <2>2, NamedOneMore, NamedChunks
<1>8. ASSUME NEW n \in Name, NEW readable \in BOOLEAN, SayCall(n, readable)
      PROVE  NamedInv'
  <2>1. asked' = asked /\ phase = "open"
    BY <1>8 DEF SayCall, StillSaying, Open
  <2> SUFFICES ASSUME asked.proto = "anthropic"
               PROVE  AllNamed(out')
    BY <1>4, <2>1
  <2>2. out' = Append(out, CallChunk(tr.next, Piece("id"), n, << >>)) \/ out' = out
    BY <1>1, <1>2, <1>8, SayCallEmits
  <2>3. tr.next \in Nat /\ Piece("id") \in Id
    BY <1>1, <2>1, Pieces DEF Typed, AnthropicTr
  <2> QED
    BY <1>2, <1>5, <2>2, <2>3, NamedOneMore, NamedChunks
<1>9. ASSUME NEW piece \in {Piece("args"), Closing}, SayArguments(piece)
      PROVE  NamedInv'
  <2>1. asked' = asked /\ phase = "open"
    BY <1>9 DEF SayArguments, StillSaying, Open
  <2> SUFFICES ASSUME asked.proto = "anthropic"
               PROVE  AllNamed(out')
    BY <1>4, <2>1
  <2> DEFINE block == Len(said.parts) - 1
  <2>2. /\ block \in Nat
        /\ \/ block \in DOMAIN tr.index /\ out' = Append(out, CallChunk(tr.index[block], None, None, << piece >>))
           \/ out' = Append(out, CallChunk(tr.next, None, None, << piece >>))
           \/ out' = out
    BY <1>1, <1>2, <1>9, SayArgumentsEmits
  <2> HIDE DEF block
  <2>3. piece \in ArgPiece
    BY <1>1, Pieces
  <2>4. tr \in AnthropicTr
    BY <1>1, <2>1 DEF Typed
  <2>5. tr.next \in Nat /\ (block \in DOMAIN tr.index => tr.index[block] \in Nat)
    <3>1. tr.next \in Nat /\ tr.index \in Numbering
      BY <2>4 DEF AnthropicTr
    <3>2. PICK S \in SUBSET Nat : tr.index \in [S -> Nat]
      BY <3>1 DEF Numbering
    <3> QED
      BY <3>1, <3>2
  <2>6. \A i \in Nat : AllNamed(Append(out, CallChunk(i, None, None, << piece >>)))
    BY <1>2, <1>5, <2>3, NamedOneMore, NamedChunks
  <2> QED
    BY <1>5, <2>2, <2>5, <2>6
<1>10. ASSUME NEW reason \in {"end_turn", "max_tokens", "tool_use"}, SayReason(reason)
       PROVE  NamedInv'
  <2>1. asked' = asked
    BY <1>10 DEF SayReason
  <2>2. asked.proto = "anthropic" => out' = out
    BY <1>1, <1>2, <1>10, SayReasonEmits
  <2> QED
    BY <1>4, <1>5, <2>1, <2>2
<1>11. ASSUME NEW parts \in GeminiParts, NEW reason \in GeminiReasons, GeminiSays(parts, reason)
       PROVE  NamedInv'
  BY <1>11 DEF GeminiSays, Streaming, NamedInv
<1>12. CASE AnswerEnds
  <2>1. asked' = asked
    BY <1>12 DEF AnswerEnds
  <2>2. asked.proto = "anthropic" =>
          out' = out \/ \E r \in Reason \cup {None} : out' = Append(Append(out, FinishChunk(r)), Done)
    BY <1>1, <1>2, <1>12, AnswerEndsEmits
  <2>3. asked.proto = "anthropic" =>
          \A r \in Reason \cup {None} : AllNamed(Append(Append(out, FinishChunk(r)), Done))
    BY <1>2, <1>5, NamedOneMore, NamedChunks
  <2> QED
    BY <1>4, <1>5, <2>1, <2>2, <2>3
<1>13. CASE ErrorEvent
  <2>1. asked' = asked /\ out' = Append(Append(out, ErrorChunk), Done)
    BY <1>1, <1>13, ErrorEventEmits DEF ErrorEvent
  <2>2. asked.proto = "anthropic" => AllNamed(Append(Append(out, ErrorChunk), Done))
    BY <1>2, <1>5, NamedOneMore, NamedChunks
  <2> QED
    BY <1>4, <2>1, <2>2
<1>14. CASE EndsEarly
  <2>1. asked' = asked /\ (asked.proto = "anthropic" => out' = out)
    BY <1>1, <1>14, EndsEarlyEmits DEF EndsEarly
  <2> QED
    BY <1>4, <1>5, <2>1
<1>15. CASE Breaks
  BY <1>4, <1>5, <1>15 DEF Breaks
<1>16. CASE GoOn
  BY <1>16 DEF GoOn, NamedInv, AllNamed
<1>17. ASSUME NEW kind \in Event, SkipEvent(kind)
       PROVE  NamedInv'
  <2>1. asked' = asked /\ out' = out
    BY <1>1, <1>17, SkipEventParts
  <2> QED
    BY <1>4, <1>5, <2>1
<1> QED
  BY <1>3, <1>6, <1>7, <1>8, <1>9, <1>10, <1>11, <1>12, <1>13, <1>14, <1>15, <1>16, <1>17 DEF Next

(* So a call that can be answered is named. *)
LEMMA HeardIsNamed ==
  ASSUME AnswerInv, IdsInv, NamedInv, Complete, NEW c \in ToSet(Heard.calls), c.id # None
  PROVE  c \in Call /\ c.name # None
<1>1. Typed /\ said.parts \in Seq(Part) /\ said.missed \in SUBSET Event
  BY SaidFields DEF AnswerInv
<1>2. SaysWell(Heard) /\ phase = "ended"
  BY HeardWell
<1>3. Heard.calls \in Seq(Call)
  BY <1>2 DEF SaysWell, Msg
<1>4. PICK k \in 1 .. Len(Heard.calls) : c = Heard.calls[k]
  BY <1>3 DEF ToSet
<1>5. c \in Call
  BY <1>3, <1>4
<1>6. CASE ~Garbled(said.missed)
  <2>1. Matches(Heard.calls, CallsOf(said.parts))
    BY <1>2, <1>6 DEF SaysWell
  <2>2. k \in 1 .. Len(CallsOf(said.parts)) /\ c.name = CallsOf(said.parts)[k].name
    BY <1>4, <2>1 DEF Matches
  <2>3. CallsOf(said.parts) \in Seq(CallPartType)
    BY <1>1, SaidTypes
  <2>4. CallsOf(said.parts)[k] \in CallPartType
    BY <2>2, <2>3
  <2> QED
    BY <1>5, <2>2, <2>4, Bounds DEF CallPartType
<1>7. CASE Garbled(said.missed)
  <2>1. asked.proto = "anthropic" /\ asked.streaming
    BY <1>2, <1>7, GarbledIsAnthropic
  <2>2. AllNamed(out) /\ out \in Seq(Chunk)
    BY <1>1, <2>1 DEF NamedInv, Typed
  <2>3. Told(out, said.parts, Written, said.missed)
    BY <1>2, <2>1 DEF AnswerInv, StreamInv, Answering
  <2>4. Indexes(out) = 0 .. Written - 1
    BY <2>3 DEF Told, Carries
  <2>5. Written \in Nat
    BY <1>1, <1>2, <2>1 DEF Typed, AnthropicTr, Written
  <2>6. Heard = AssistantMessage(StreamContent(out), StreamCalls(out))
    BY <2>1, AssembledIs DEF Heard
  <2>7. Heard.calls = StreamCalls(out)
    BY <2>6 DEF AssistantMessage, Message
  <2>8. k \in 1 .. Written /\ c = CallAt(out, k - 1) /\ k - 1 \in Indexes(out)
    <3> DEFINE n == Written
    <3>1. n \in Nat /\ Indexes(out) = 0 .. n - 1
      BY <2>4, <2>5
    <3> HIDE DEF n
    <3>2. /\ Len(StreamCalls(out)) = n
          /\ \A l \in 1 .. n : StreamCalls(out)[l] = CallAt(out, l - 1)
      BY <2>2, <3>1, StreamCallAt
    <3>3. k \in 1 .. n
      BY <1>4, <2>7, <3>2
    <3>4. c = CallAt(out, k - 1)
      BY <1>4, <2>7, <3>2, <3>3
    <3>5. k - 1 \in 0 .. n - 1
      BY <3>1, <3>3
    <3> QED
      BY <3>1, <3>3, <3>4, <3>5 DEF n
  <2> DEFINE S == OfCall(out, k - 1)
  <2> DEFINE j == FirstOf(S)
  <2>9. S \subseteq 1 .. Len(out) /\ Len(out) \in Nat
    BY <2>2 DEF OfCall
  <2>10. j \in S
    <3>1. S # {}
      BY <2>2, <2>8, HasIndex
    <3>2. S \subseteq Nat
      BY <2>9
    <3> QED
      BY <3>1, <3>2, FirstExists
  <2>11. out[j].kind = "call" /\ j \in 1 .. Len(out)
    BY <2>9, <2>10 DEF OfCall
  <2>12. c = ToolCall(out[j].id, out[j].name, ArgsAt(out, k - 1))
    BY <2>8, CallParts
  <2> HIDE DEF j
  <2>13. c.id = out[j].id /\ c.name = out[j].name
    BY <2>12 DEF ToolCall
  <2> QED
    BY <1>5, <2>2, <2>11, <2>13 DEF AllNamed, Named
<1> QED
  BY <1>1, <1>6, <1>7

----------------------------------------------------------------------------
(* Every result in a conversation is that of a call of the assistant message
   it follows. *)

TiedTo(m, caller) ==
  \E x \in ToSet(caller.calls) :
    x.id = m.answers /\ None \notin {x.id, x.name} /\ m.name \in {None, x.name}

Between(c, i, k) == \A j \in i + 1 .. k : c[j].role \in {"tool", "system"}

Tied(c) ==
  \A i, k \in 1 .. Len(c) :
    c[i].role = "assistant" /\ c[k].role = "tool" /\ i < k /\ Between(c, i, k) => TiedTo(c[k], c[i])

ConvInv == Tied(conv)

(* What may follow an answer of the model, up to the next. *)
Followers(h) == {m \in Msg : m.role # "assistant" /\ (m.role = "tool" => TiedTo(m, h))}

(* A conversation grows by an answer and what follows it. *)
LEMMA TiedMore ==
  ASSUME NEW c, NEW h, NEW more, c \in Seq(Msg), h \in Msg, h.role = "assistant",
         more \in Seq(Followers(h)), Tied(c)
  PROVE  Tied(c \o << h >> \o more)
<1> DEFINE d == c \o << h >> \o more
<1> DEFINE n == Len(c)
<1>1. /\ n \in Nat /\ Len(more) \in Nat /\ Len(d) = n + 1 + Len(more)
      /\ \A i \in 1 .. n : d[i] = c[i]
      /\ d[n + 1] = h
      /\ \A j \in 1 .. Len(more) : d[n + 1 + j] = more[j]
  <2>1. more \in Seq(Msg)
    BY DEF Followers
  <2> QED
    BY <2>1
<1>2. \A j \in 1 .. Len(more) : more[j].role # "assistant" /\ (more[j].role = "tool" => TiedTo(more[j], h))
  BY DEF Followers
<1> HIDE DEF d, n
<1>3. ASSUME NEW k \in n + 2 .. Len(d)
      PROVE  d[k].role # "assistant" /\ (d[k].role = "tool" => TiedTo(d[k], h))
  <2>1. k - (n + 1) \in 1 .. Len(more) /\ n + 1 + (k - (n + 1)) = k
    BY <1>1
  <2>2. d[k] = more[k - (n + 1)]
    BY <1>1, <2>1
  <2> QED
    BY <1>2, <2>1, <2>2
<1>4. ASSUME NEW i \in 1 .. Len(d), NEW k \in 1 .. Len(d),
             d[i].role = "assistant", d[k].role = "tool", i < k, Between(d, i, k)
      PROVE  TiedTo(d[k], d[i])
  <2>1. CASE k <= n
    <3>1. i \in 1 .. n /\ k \in 1 .. n /\ d[i] = c[i] /\ d[k] = c[k]
      BY <1>1, <1>4, <2>1
    <3>2. Between(c, i, k)
      <4>1. \A j \in i + 1 .. k : j \in 1 .. n /\ d[j] = c[j]
        BY <1>1, <3>1
      <4> QED
        BY <1>4, <4>1 DEF Between
    <3> QED
      BY <1>4, <3>1, <3>2 DEF Tied, n
  <2>2. CASE k = n + 1
    BY <1>1, <1>4, <2>2
  <2>3. CASE k > n + 1
    <3>1. k \in n + 2 .. Len(d)
      BY <1>1, <2>3
    <3>2. CASE i <= n
      <4>1. n + 1 \in i + 1 .. k
        BY <1>1, <2>3, <3>2
      <4> QED
        BY <1>1, <1>4, <4>1 DEF Between
    <3>3. CASE i = n + 1
      BY <1>1, <1>3, <1>4, <3>1, <3>3
    <3>4. CASE i > n + 1
      <4>1. i \in n + 2 .. Len(d)
        BY <1>1, <3>4
      <4> QED
        BY <1>3, <1>4, <4>1
    <3> QED
      BY <1>1, <3>2, <3>3, <3>4
  <2> QED
    BY <1>1, <2>1, <2>2, <2>3
<1>5. Tied(d)
  BY <1>4 DEF Tied
<1> QED
  BY <1>5 DEF d

(* The results a client appends are of calls of the answer before them. *)
LEMMA ResultTied ==
  ASSUME Typed, NEW c, c \in Call, NEW h, c \in ToSet(h.calls), None \notin {c.id, c.name},
         NEW k, k \in Nat, NEW style
  PROVE  Result(c, k, style) \in Followers(h)
<1> DEFINE m == Result(c, k, style)
<1>1. m \in Msg
  BY ResultTyped
<1>2. m.role = "tool" /\ m.answers = c.id /\ m.name \in {None, c.name}
  BY DEF Result, ToolMessage, Message
<1> HIDE DEF m
<1>3. TiedTo(m, h)
  BY <1>2 DEF TiedTo
<1> QED
  BY <1>1, <1>2, <1>3 DEF Followers, m

LEMMA ResultsTied ==
  ASSUME Typed, NEW h, h.calls \in Seq(Call),
         \A c \in ToSet(h.calls) : None \notin {c.id, c.name},
         NEW order \in Orders, NEW style, Len(order) = Len(h.calls), h.calls # << >>
  PROVE  Results(h.calls, order, style) \in Seq(Followers(h))
<1> DEFINE calls == h.calls
<1> DEFINE U == Followers(h)
<1> DEFINE all == [i \in DOMAIN order |-> Result(calls[order[i]], order[i], style)]
<1> DEFINE n == Len(order)
<1>1. n \in Nat /\ DOMAIN order = 1 .. n /\ n # 0 /\ \A i \in 1 .. n : order[i] \in 1 .. n
  BY DEF Orders
<1>2. \A i \in 1 .. n : all[i] \in U
  <2> SUFFICES ASSUME NEW i \in 1 .. n
               PROVE  all[i] \in U
    OBVIOUS
  <2> DEFINE k == order[i]
  <2> DEFINE c == calls[k]
  <2>1. k \in 1 .. n /\ k \in Nat
    BY <1>1
  <2>2. c \in Call /\ c \in ToSet(h.calls)
    BY <2>1 DEF ToSet
  <2>3. all[i] = Result(c, k, style)
    BY <1>1
  <2> HIDE DEF c, k
  <2> QED
    BY <2>1, <2>2, <2>3, ResultTied
<1> DEFINE reminder == SystemMessage(<< << "reminder", used.turns >> >>)
<1>3. reminder \in U
  <2>1. << "reminder", used.turns >> \in TextPiece
    BY SaidFields DEF TextPiece
  <2>2. << << "reminder", used.turns >> >> \in Text
    BY <2>1 DEF Text
  <2>3. reminder \in Msg
    BY <2>2, MessagesAre
  <2>4. reminder.role = "system"
    BY DEF SystemMessage, Message
  <2> HIDE DEF reminder
  <2> QED
    BY <2>3, <2>4 DEF Followers
<1>4. Results(calls, order, style) =
        IF style # "reminder" THEN all ELSE InsertAt(all, Len(all), reminder)
  BY DEF Results
<1> HIDE DEF U, reminder
<1>5. all \in Seq(U) /\ all # << >>
  <2>1. all = [i \in 1 .. n |-> all[i]]
    BY <1>1
  <2>2. n \in Nat /\ n # 0 /\ \A i \in 1 .. n : all[i] \in U
    BY <1>1, <1>2
  <2> HIDE DEF all, n
  <2>3. all \in Seq(U)
    BY <2>1, <2>2
  <2>4. Len(all) = n
    BY <2>1, <2>2
  <2> QED
    BY <2>2, <2>3, <2>4
<1> HIDE DEF all
<1>6. Results(calls, order, style) \in Seq(U)
  BY <1>3, <1>4, <1>5, InsertTyped
<1> QED
  BY <1>6 DEF U

(* So every action keeps results behind their calls: only a client that goes
   on adds messages. *)
LEMMA NextKeepsConv ==
  ASSUME AnswerInv, IdsInv, NamedInv, ConvInv, Next
  PROVE  ConvInv'
<1>1. CASE GoOn
  <2>1. Typed /\ conv \in Seq(Msg)
    BY DEF AnswerInv, Typed
  <2>2. PICK order \in Orders, style \in Styles :
        /\ Complete /\ Usable(Heard) /\ Len(order) = Len(Heard.calls)
        /\ conv' = conv \o << Heard >> \o
             IF Heard.calls = << >> THEN << UserMessage(<< << << "user", used.turns >> >> >>) >>
             ELSE Results(Heard.calls, order, style)
    BY <1>1 DEF GoOn
  <2> DEFINE h == Heard
  <2>3. h \in Msg /\ h.role = "assistant" /\ h.calls \in Seq(Call)
    BY <2>2, HeardWell DEF SaysWell, Msg
  <2>4. \A c \in ToSet(h.calls) : None \notin {c.id, c.name}
    <3> SUFFICES ASSUME NEW c \in ToSet(h.calls)
                 PROVE  None \notin {c.id, c.name}
      OBVIOUS
    <3>1. c.id # None
      BY <2>2 DEF Usable, ToSet
    <3>2. c.name # None
      BY <2>2, <3>1, HeardIsNamed
    <3> QED
      BY <3>1, <3>2
  <2> DEFINE u == UserMessage(<< << << "user", used.turns >> >> >>)
  <2>5. u \in Followers(h)
    <3>1. << "user", used.turns >> \in TextPiece
      BY <2>1, SaidFields DEF TextPiece
    <3>2. << << "user", used.turns >> >> \in Text
      BY <3>1 DEF Text
    <3>3. u \in Msg
      BY <3>2, MessagesAre
    <3>4. u.role = "user"
      BY DEF UserMessage, Message
    <3> HIDE DEF u, h
    <3> QED
      BY <3>3, <3>4 DEF Followers
  <2> DEFINE more == IF h.calls = << >> THEN << u >> ELSE Results(h.calls, order, style)
  <2>6. conv' = conv \o << h >> \o more
    BY <2>2
  <2>7. Len(order) = Len(h.calls)
    BY <2>2
  <2> HIDE DEF h, u
  <2>8. more \in Seq(Followers(h))
    <3>1. CASE h.calls = << >>
      BY <2>5, <3>1
    <3>2. CASE h.calls # << >>
      BY <2>1, <2>3, <2>4, <2>7, <3>2, ResultsTied
    <3> QED
      BY <3>1, <3>2
  <2> HIDE DEF more
  <2>9. Tied(conv \o << h >> \o more)
    BY <2>1, <2>3, <2>8, TiedMore DEF ConvInv
  <2> QED
    BY <2>6, <2>9 DEF ConvInv
<1>2. CASE conv' = conv
  BY <1>2 DEF ConvInv
<1>3. Next => conv' = conv \/ GoOn
  BY DEF Next, Send, Begin, SayText, SayCall, SayArguments, SayReason, GeminiSays, AnswerEnds,
         ErrorEvent, EndsEarly, Breaks, SkipEvent
<1> QED
  BY <1>1, <1>2, <1>3

(* In the messages a conversation begins with there are no results, so
   nothing they could be torn from. *)
LEMMA InitThread ==
  ASSUME Init
  PROVE  NamedInv /\ ConvInv
<1>1. PICK first \in Requests : conv = first.messages
  BY DEF Init
<1>2. first.messages \in Seq(FirstMessage)
  <2>1. Requests \subseteq
          [messages : Seq(FirstMessage),
           choice : [mode : Modes, name : Name \cup {None}], stop : BOOLEAN]
    BY TranslationAssumption DEF TranslationAssumption
  <2> QED
    BY <2>1
<1>3. \A k \in 1 .. Len(conv) : conv[k].role # "tool"
  <2> SUFFICES ASSUME NEW k \in 1 .. Len(conv)
               PROVE  conv[k].role # "tool"
    OBVIOUS
  <2>1. conv[k] \in FirstMessage
    BY <1>1, <1>2
  <2>2. conv[k] \in Msg /\ conv[k].role \in {"system", "user", "assistant", Unknown}
    BY <2>1, FirstTyped DEF FirstMessage
  <2>3. Unknown # "tool"
    BY Bounds DEF Role
  <2> QED
    BY <2>2, <2>3
<1>4. ConvInv
  BY <1>3 DEF ConvInv, Tied
<1>5. NamedInv
  BY DEF Init, NamedInv, AllNamed
<1> QED
  BY <1>4, <1>5

ThreadInv == AnswerInv /\ IdsInv /\ NamedInv /\ ConvInv

(* The two invariants of a conversation hold always, with those of an answer. *)
LEMMA ThreadKept == Spec => []ThreadInv
<1>1. Init => ThreadInv
  BY InitAnswer, InitThread DEF ThreadInv
<1>2. ThreadInv /\ [Next]_vars => ThreadInv'
  <2> SUFFICES ASSUME ThreadInv, [Next]_vars
               PROVE  ThreadInv'
    OBVIOUS
  <2>1. CASE Next
    <3>1. AnswerInv /\ IdsInv /\ NamedInv /\ ConvInv
      BY DEF ThreadInv
    <3>2. AnswerInv' /\ IdsInv' /\ NamedInv' /\ ConvInv'
      BY <2>1, <3>1, NextKeeps, NextKeepsIds, NextKeepsNamed, NextKeepsConv
    <3> QED
      BY <3>2 DEF ThreadInv
  <2>2. CASE UNCHANGED vars
    <3>1. AnswerInv' /\ IdsInv'
      BY <2>2, StillKeeps DEF ThreadInv
    <3>2. NamedInv' /\ ConvInv'
      BY <2>2 DEF ThreadInv, NamedInv, ConvInv, vars
    <3> QED
      BY <3>1, <3>2 DEF ThreadInv
  <2> QED
    BY <2>1, <2>2
<1> QED
  BY <1>1, <1>2, PTL DEF Spec

----------------------------------------------------------------------------
(* Positions and ranks. *)

LEMMA RankMore ==
  ASSUME NEW S, S \subseteq Nat, IsFiniteSet(S), NEW x \in Nat, \A j \in S : j < x
  PROVE  /\ IsFiniteSet(S \cup {x}) /\ Cardinality(S) \in Nat
         /\ Cardinality(S \cup {x}) = Cardinality(S) + 1
         /\ Rank(S \cup {x}, x) = Cardinality(S) + 1
         /\ \A k \in S : Rank(S \cup {x}, k) = Rank(S, k) /\ Rank(S, k) \in 1 .. Cardinality(S)
<1> DEFINE T == S \cup {x}
<1>1. x \notin S
  OBVIOUS
<1>2. IsFiniteSet(T) /\ Cardinality(S) \in Nat /\ Cardinality(T) = Cardinality(S) + 1
  BY <1>1, FS_AddElement, FS_CardinalityType
<1>3. {j \in T : j <= x} = T
  <2>1. \A j \in T : j <= x
    OBVIOUS
  <2> HIDE DEF T
  <2> QED
    BY <2>1
<1>4. ASSUME NEW k \in S
      PROVE  Rank(T, k) = Rank(S, k) /\ Rank(S, k) \in 1 .. Cardinality(S)
  <2> DEFINE L == {j \in S : j <= k}
  <2>1. {j \in T : j <= k} = L
    OBVIOUS
  <2>2. L \subseteq S /\ k \in L
    OBVIOUS
  <2> HIDE DEF L
  <2>3. IsFiniteSet(L) /\ Cardinality(L) <= Cardinality(S)
    BY <2>2, FS_Subset
  <2>4. Cardinality(L) \in Nat /\ Cardinality(L) # 0
    BY <2>2, <2>3, FS_CardinalityType, FS_EmptySet
  <2>5. Rank(T, k) = Cardinality(L) /\ Rank(S, k) = Cardinality(L)
    BY <2>1 DEF Rank, L
  <2> QED
    BY <1>2, <2>3, <2>4, <2>5
<1> QED
  BY <1>2, <1>3, <1>4 DEF Rank

(* A set of positions is finite. *)
LEMMA Positions ==
  ASSUME NEW n \in Nat, NEW S, S \subseteq 1 .. n
  PROVE  IsFiniteSet(S) /\ S \subseteq Nat /\ Cardinality(S) \in Nat
<1>1. IsFiniteSet(1 .. n)
  BY FS_Interval
<1>2. IsFiniteSet(S)
  BY <1>1, FS_Subset
<1>3. Cardinality(S) \in Nat
  BY <1>2, FS_CardinalityType
<1> QED
  BY <1>2, <1>3

(* The answers among the first messages, and the results that were given to
   one of them, which is open while more may come. *)
Answers(n) == {i \in 1 .. n : conv[i].role = "assistant"}

OpenAt(i, n) == Between(conv, i, n)

ResultsOf(i, n) == {k \in 1 .. n : conv[k].role = "tool" /\ k > i /\ Between(conv, i, k)}

(* One more message leaves an answer open only when it is a result or of the
   system; a result is of the answer that is open. *)
LEMMA OneMoreMessage ==
  ASSUME NEW n \in Nat, NEW i \in 1 .. n
  PROVE  /\ OpenAt(i, n + 1) <=> OpenAt(i, n) /\ conv[n + 1].role \in {"tool", "system"}
         /\ conv[n + 1].role # "tool" => ResultsOf(i, n + 1) = ResultsOf(i, n)
         /\ ~OpenAt(i, n) => ResultsOf(i, n + 1) = ResultsOf(i, n)
         /\ conv[n + 1].role = "tool" /\ OpenAt(i, n) => ResultsOf(i, n + 1) = ResultsOf(i, n) \cup {n + 1}
<1>1. OpenAt(i, n + 1) <=> OpenAt(i, n) /\ conv[n + 1].role \in {"tool", "system"}
  <2>1. i + 1 .. n + 1 = (i + 1 .. n) \cup {n + 1}
    OBVIOUS
  <2> QED
    BY <2>1 DEF OpenAt, Between
<1>2. 1 .. n + 1 = (1 .. n) \cup {n + 1} /\ n + 1 > i
  OBVIOUS
<1>3. Between(conv, i, n + 1) <=> OpenAt(i, n + 1)
  BY DEF OpenAt
<1>4. conv[n + 1].role # "tool" => ResultsOf(i, n + 1) = ResultsOf(i, n)
  BY <1>2 DEF ResultsOf
<1>5. ~OpenAt(i, n) => ResultsOf(i, n + 1) = ResultsOf(i, n)
  BY <1>1, <1>2, <1>3 DEF ResultsOf
<1>6. conv[n + 1].role = "tool" /\ OpenAt(i, n) => ResultsOf(i, n + 1) = ResultsOf(i, n) \cup {n + 1}
  BY <1>1, <1>2, <1>3 DEF ResultsOf
<1> QED
  BY <1>1, <1>4, <1>5, <1>6

(* An answer begins open, without results. *)
LEMMA NoneGivenYet ==
  ASSUME NEW n \in Nat
  PROVE  OpenAt(n, n) /\ ResultsOf(n, n) = {}
BY DEF OpenAt, Between, ResultsOf

(* One more message is an answer or is not. *)
LEMMA MoreAnswers ==
  ASSUME NEW n \in Nat
  PROVE  /\ conv[n + 1].role # "assistant" => Answers(n + 1) = Answers(n)
         /\ conv[n + 1].role = "assistant" => Answers(n + 1) = Answers(n) \cup {n + 1}
<1>1. 1 .. n + 1 = (1 .. n) \cup {n + 1}
  OBVIOUS
<1> QED
  BY <1>1 DEF Answers

(* Parts that are the results of these messages, given to this one. *)
Holds(proto, parts, given, i) ==
  /\ Len(parts) = Cardinality(given)
  /\ \A k \in given :
       LET part == parts[Rank(given, k)]
       IN IsResult(part) /\ AnsweredAs(proto, part, conv[k], conv[i])

HoldsFor(proto, part, k, i) == IsResult(part) /\ AnsweredAs(proto, part, conv[k], conv[i])

(* No parts hold no results; one more part holds one more. *)
LEMMA HoldsNothing ==
  ASSUME NEW proto, NEW i
  PROVE  Holds(proto, << >>, {}, i)
<1>1. Len(<< >>) = 0 /\ Cardinality({}) = 0
  BY FS_EmptySet
<1> QED
  BY <1>1 DEF Holds

LEMMA HoldsMore ==
  ASSUME NEW proto, NEW parts, NEW given, NEW i, NEW n \in Nat, NEW r, IsList(parts),
         given \subseteq 1 .. n, Holds(proto, parts, given, i), HoldsFor(proto, r, n + 1, i)
  PROVE  Holds(proto, Append(parts, r), given \cup {n + 1}, i)
<1> DEFINE all == Append(parts, r)
<1> DEFINE more == given \cup {n + 1}
<1> DEFINE c == Cardinality(given)
<1>1. IsFiniteSet(given) /\ given \subseteq Nat /\ c \in Nat
  BY Positions
<1>2. n + 1 \in Nat /\ \A j \in given : j < n + 1
  OBVIOUS
<1>3. /\ Cardinality(more) = c + 1 /\ Rank(more, n + 1) = c + 1
      /\ \A k \in given : Rank(more, k) = Rank(given, k) /\ Rank(given, k) \in 1 .. c
  BY <1>1, <1>2, RankMore
<1>4. /\ Len(parts) = c /\ Len(all) = Len(parts) + 1 /\ all[Len(parts) + 1] = r
      /\ \A j \in 1 .. Len(parts) : all[j] = parts[j]
  BY ListAppend DEF Holds
<1>5. \A k \in given : HoldsFor(proto, parts[Rank(given, k)], k, i)
  BY DEF Holds, HoldsFor
<1>6. \A k \in more : k \in given \/ k = n + 1
  OBVIOUS
<1> HIDE DEF all, more, c
<1>7. Len(all) = Cardinality(more)
  BY <1>3, <1>4
<1>8. \A k \in more : HoldsFor(proto, all[Rank(more, k)], k, i)
  BY <1>3, <1>4, <1>5, <1>6
<1>9. Holds(proto, all, more, i)
  BY <1>7, <1>8 DEF Holds, HoldsFor
<1> QED
  BY <1>9 DEF all, more

----------------------------------------------------------------------------
(* The answers and the turns that translate them, one for one, and where the
   results are: in the turn that follows, or waiting while more may come. *)

SameCalls(i, t, turns) == Cardinality(CallsIn(turns[t].content)) = Len(conv[i].calls)

Followed(proto, i, t, n, turns) ==
  ResultsOf(i, n) # {} => t < Len(turns) /\ Holds(proto, turns[t + 1].content, ResultsOf(i, n), i)

Waits(proto, i, t, n, turns, waiting) ==
  t = Len(turns) /\ Holds(proto, waiting, ResultsOf(i, n), i)

Paired(S, i, U, t) == i \in S /\ t \in U /\ Rank(S, i) = Rank(U, t)

Placed(proto, n, turns, waiting) ==
  /\ Cardinality(Answers(n)) = Cardinality(Spoken(turns))
  /\ \A i, t : Paired(Answers(n), i, Spoken(turns), t) =>
       /\ SameCalls(i, t, turns)
       /\ OpenAt(i, n) => Waits(proto, i, t, n, turns, waiting)
       /\ ~OpenAt(i, n) => Followed(proto, i, t, n, turns)

Settled(proto, n, turns) ==
  /\ Cardinality(Answers(n)) = Cardinality(Spoken(turns))
  /\ \A i, t : Paired(Answers(n), i, Spoken(turns), t) =>
       SameCalls(i, t, turns) /\ Followed(proto, i, t, n, turns)

(* A turn is spoken by the model unless it is the user's. *)
LEMMA SpokenMore ==
  ASSUME NEW turns, IsList(turns), NEW x
  PROVE  /\ Len(turns) \in Nat /\ Spoken(turns) \subseteq 1 .. Len(turns)
         /\ x.role = "user" => Spoken(Append(turns, x)) = Spoken(turns)
         /\ x.role # "user" => Spoken(Append(turns, x)) = Spoken(turns) \cup {Len(turns) + 1}
<1> DEFINE all == Append(turns, x)
<1> DEFINE n == Len(turns)
<1>1. /\ n \in Nat /\ DOMAIN turns = 1 .. n /\ DOMAIN all = 1 .. n + 1
      /\ all[n + 1] = x /\ \A i \in 1 .. n : all[i] = turns[i]
  BY ListAppend
<1> HIDE DEF all, n
<1>2. 1 .. n + 1 = (1 .. n) \cup {n + 1}
  BY <1>1
<1>3. x.role = "user" => Spoken(all) = Spoken(turns)
  BY <1>1, <1>2 DEF Spoken
<1>4. x.role # "user" => Spoken(all) = Spoken(turns) \cup {n + 1}
  BY <1>1, <1>2 DEF Spoken
<1>5. Spoken(turns) \subseteq 1 .. n
  BY <1>1 DEF Spoken
<1> QED
  BY <1>1, <1>3, <1>4, <1>5 DEF all, n

(* A turn is added at the end: what was said before stays. *)
LEMMA StillFollowed ==
  ASSUME NEW turns, IsList(turns), NEW x, NEW t \in 1 .. Len(turns), NEW i, NEW n, NEW proto
  PROVE  /\ SameCalls(i, t, turns) => SameCalls(i, t, Append(turns, x))
         /\ Followed(proto, i, t, n, turns) => Followed(proto, i, t, n, Append(turns, x))
<1> DEFINE all == Append(turns, x)
<1>1. /\ Len(turns) \in Nat /\ Len(all) = Len(turns) + 1
      /\ \A j \in 1 .. Len(turns) : all[j] = turns[j]
  BY ListAppend
<1> HIDE DEF all
<1>2. SameCalls(i, t, turns) => SameCalls(i, t, all)
  BY <1>1 DEF SameCalls
<1>3. ASSUME t < Len(turns)
      PROVE  t < Len(all) /\ all[t + 1] = turns[t + 1]
  <2>1. t + 1 \in 1 .. Len(turns)
    BY <1>1, <1>3
  <2> QED
    BY <1>1, <1>3, <2>1
<1>4. Followed(proto, i, t, n, turns) => Followed(proto, i, t, n, all)
  BY <1>3 DEF Followed
<1> QED
  BY <1>2, <1>4 DEF all

(* Flushing adds no turn of the model and changes no turn. *)
LEMMA SpokenFlushed ==
  ASSUME NEW acc, WordedTurns(acc.messages), Worded(acc.pending)
  PROVE  /\ Spoken(Flushed(acc)) = Spoken(acc.messages)
         /\ IsList(Flushed(acc)) /\ Len(Flushed(acc)) \in Nat
<1>1. IsList(acc.messages) /\ IsList(Flushed(acc))
  BY FlushedWell DEF WordedTurns
<1>2. Len(Flushed(acc)) \in Nat
  BY <1>1 DEF IsList
<1>3. CASE acc.pending = << >>
  BY <1>1, <1>2, <1>3 DEF Flushed
<1>4. CASE acc.pending # << >>
  <2> DEFINE x == [role |-> "user", content |-> acc.pending]
  <2>1. x.role = "user"
    OBVIOUS
  <2> HIDE DEF x
  <2>2. Spoken(Append(acc.messages, x)) = Spoken(acc.messages)
    BY <1>1, <2>1, SpokenMore
  <2> QED
    BY <1>1, <1>2, <1>4, <2>2 DEF Flushed, x
<1> QED
  BY <1>3, <1>4

(* What waits is flushed into the turn after the answer it is for. *)
LEMMA WaitingFlushed ==
  ASSUME NEW acc, WordedTurns(acc.messages), Worded(acc.pending),
         NEW proto, NEW i, NEW t, NEW n \in Nat, Waits(proto, i, t, n, acc.messages, acc.pending)
  PROVE  Followed(proto, i, t, n, Flushed(acc))
<1> SUFFICES ASSUME ResultsOf(i, n) # {}
             PROVE  t < Len(Flushed(acc)) /\ Holds(proto, Flushed(acc)[t + 1].content, ResultsOf(i, n), i)
  BY DEF Followed
<1>1. t = Len(acc.messages) /\ Holds(proto, acc.pending, ResultsOf(i, n), i)
  BY DEF Waits
<1>2. acc.pending # << >>
  <2>1. IsFiniteSet(ResultsOf(i, n))
    BY Positions DEF ResultsOf
  <2>2. Cardinality(ResultsOf(i, n)) # 0
    BY <2>1, FS_EmptySet
  <2>3. Len(acc.pending) # 0
    BY <1>1, <2>2 DEF Holds
  <2> QED
    BY <2>3
<1> DEFINE x == [role |-> "user", content |-> acc.pending]
<1>3. x.content = acc.pending
  OBVIOUS
<1> HIDE DEF x
<1>4. IsList(acc.messages)
  BY DEF WordedTurns
<1>5. /\ Len(acc.messages) \in Nat /\ Len(Append(acc.messages, x)) = Len(acc.messages) + 1
      /\ Append(acc.messages, x)[Len(acc.messages) + 1] = x
  BY <1>4, ListAppend
<1>6. Flushed(acc) = Append(acc.messages, x)
  BY <1>2 DEF Flushed, x
<1> QED
  BY <1>1, <1>3, <1>5, <1>6

LEMMA FollowedFlushed ==
  ASSUME NEW acc, WordedTurns(acc.messages), Worded(acc.pending),
         NEW proto, NEW i, NEW t \in 1 .. Len(acc.messages), NEW n
  PROVE  /\ SameCalls(i, t, acc.messages) => SameCalls(i, t, Flushed(acc))
         /\ Followed(proto, i, t, n, acc.messages) => Followed(proto, i, t, n, Flushed(acc))
<1>1. CASE acc.pending = << >>
  BY <1>1 DEF Flushed
<1>2. CASE acc.pending # << >>
  <2> DEFINE x == [role |-> "user", content |-> acc.pending]
  <2>1. IsList(acc.messages)
    BY DEF WordedTurns
  <2>2. Flushed(acc) = Append(acc.messages, x)
    BY <1>2 DEF Flushed
  <2> HIDE DEF x
  <2> QED
    BY <2>1, <2>2, StillFollowed
<1> QED
  BY <1>1, <1>2

(* So after a flush all results follow. *)
LEMMA PlacedFlushed ==
  ASSUME NEW acc, WordedTurns(acc.messages), Worded(acc.pending), NEW proto, NEW n \in Nat,
         Placed(proto, n, acc.messages, acc.pending)
  PROVE  Settled(proto, n, Flushed(acc))
<1>1. Spoken(Flushed(acc)) = Spoken(acc.messages)
  BY SpokenFlushed
<1>2. ASSUME NEW i, NEW t, Paired(Answers(n), i, Spoken(acc.messages), t)
      PROVE  SameCalls(i, t, Flushed(acc)) /\ Followed(proto, i, t, n, Flushed(acc))
  <2>1. /\ SameCalls(i, t, acc.messages)
        /\ OpenAt(i, n) => Waits(proto, i, t, n, acc.messages, acc.pending)
        /\ ~OpenAt(i, n) => Followed(proto, i, t, n, acc.messages)
    BY <1>2 DEF Placed
  <2>2. t \in 1 .. Len(acc.messages)
    <3>1. IsList(acc.messages) /\ t \in Spoken(acc.messages)
      BY <1>2 DEF WordedTurns, Paired
    <3> QED
      BY <3>1, SpokenMore
  <2>3. SameCalls(i, t, Flushed(acc))
    BY <2>1, <2>2, FollowedFlushed
  <2>4. CASE OpenAt(i, n)
    BY <2>1, <2>3, <2>4, WaitingFlushed
  <2>5. CASE ~OpenAt(i, n)
    BY <2>1, <2>2, <2>3, <2>5, FollowedFlushed
  <2> QED
    BY <2>4, <2>5
<1> QED
  BY <1>1, <1>2 DEF Placed, Settled

(* One more message of the conversation. *)
LEMMA PlacedMore ==
  ASSUME AllSendable, NEW proto, NEW n \in Nat, n + 1 <= Len(conv), NEW acc, NEW more,
         WordedTurns(acc.messages), Worded(acc.pending), Adds(acc, conv[n + 1], more),
         Placed(proto, n, acc.messages, acc.pending),
         conv[n + 1].role = "tool" =>
           \A i \in Answers(n) :
             OpenAt(i, n) => HoldsFor(proto, more.pending[Len(acc.pending) + 1], n + 1, i)
  PROVE  Placed(proto, n + 1, more.messages, more.pending)
<1> DEFINE m == conv[n + 1]
<1> DEFINE turns == acc.messages
<1> DEFINE waiting == acc.pending
<1>1. /\ Cardinality(Answers(n)) = Cardinality(Spoken(turns))
      /\ \A i, t : Paired(Answers(n), i, Spoken(turns), t) =>
           /\ SameCalls(i, t, turns)
           /\ OpenAt(i, n) => Waits(proto, i, t, n, turns, waiting)
           /\ ~OpenAt(i, n) => Followed(proto, i, t, n, turns)
  BY DEF Placed
<1>2. \A i \in Answers(n) : i \in 1 .. n
  BY DEF Answers
<1>3. \A i, t : Paired(Answers(n), i, Spoken(turns), t) => i \in 1 .. n
  BY <1>2 DEF Paired
<1>4. m.role # "assistant" => Answers(n + 1) = Answers(n)
  BY MoreAnswers
<1>5. \A i \in 1 .. n :
        /\ OpenAt(i, n + 1) <=> OpenAt(i, n) /\ m.role \in {"tool", "system"}
        /\ m.role # "tool" => ResultsOf(i, n + 1) = ResultsOf(i, n)
        /\ ~OpenAt(i, n) => ResultsOf(i, n + 1) = ResultsOf(i, n)
        /\ m.role = "tool" /\ OpenAt(i, n) => ResultsOf(i, n + 1) = ResultsOf(i, n) \cup {n + 1}
  BY OneMoreMessage
<1>6. m.role \in {"system", "tool", "user", "assistant"}
  <2>1. Sendable(m)
    BY DEF AllSendable
  <2> QED
    BY <2>1 DEF Sendable, Role
<1>7. Adds(acc, m, more)
  OBVIOUS
<1>8. m.role = "tool" =>
        \A i \in Answers(n) : OpenAt(i, n) => HoldsFor(proto, more.pending[Len(waiting) + 1], n + 1, i)
  OBVIOUS
<1> HIDE DEF m
<1>9. CASE m.role = "system"
  <2>1. more.messages = turns /\ more.pending = waiting
    BY <1>7, <1>9 DEF Adds
  <2>2. ASSUME NEW i, NEW t, Paired(Answers(n), i, Spoken(turns), t)
        PROVE  /\ SameCalls(i, t, turns)
               /\ OpenAt(i, n + 1) => Waits(proto, i, t, n + 1, turns, waiting)
               /\ ~OpenAt(i, n + 1) => Followed(proto, i, t, n + 1, turns)
    <3>1. i \in 1 .. n
      BY <1>3, <2>2
    <3>2. (OpenAt(i, n + 1) <=> OpenAt(i, n)) /\ ResultsOf(i, n + 1) = ResultsOf(i, n)
      BY <1>5, <1>9, <3>1
    <3> QED
      BY <1>1, <2>2, <3>2 DEF Waits, Followed
  <2> HIDE DEF turns, waiting
  <2> QED
    BY <1>1, <1>4, <1>9, <2>1, <2>2 DEF Placed
<1>10. CASE m.role = "tool"
  <2>1. PICK r : more.pending = Append(waiting, r)
    BY <1>7, <1>10 DEF Adds
  <2>2. more.messages = turns
    BY <1>7, <1>10 DEF Adds
  <2>3. IsList(waiting) /\ more.pending[Len(waiting) + 1] = r
    BY <2>1, ListAppend DEF Worded
  <2>4. ASSUME NEW i, NEW t, Paired(Answers(n), i, Spoken(turns), t)
        PROVE  /\ SameCalls(i, t, turns)
               /\ OpenAt(i, n + 1) => Waits(proto, i, t, n + 1, turns, more.pending)
               /\ ~OpenAt(i, n + 1) => Followed(proto, i, t, n + 1, turns)
    <3>1. i \in 1 .. n /\ i \in Answers(n)
      BY <1>3, <2>4 DEF Paired
    <3>2. OpenAt(i, n + 1) <=> OpenAt(i, n)
      BY <1>5, <1>10, <3>1
    <3>3. CASE OpenAt(i, n)
      <4>1. SameCalls(i, t, turns) /\ Waits(proto, i, t, n, turns, waiting)
        BY <1>1, <2>4, <3>3
      <4>2. HoldsFor(proto, r, n + 1, i)
        BY <1>8, <1>10, <2>3, <3>1, <3>3
      <4>3. ResultsOf(i, n) \subseteq 1 .. n
        BY DEF ResultsOf
      <4>4. ResultsOf(i, n + 1) = ResultsOf(i, n) \cup {n + 1}
        BY <1>5, <1>10, <3>1, <3>3
      <4> DEFINE given == ResultsOf(i, n)
      <4>5. given \subseteq 1 .. n /\ Holds(proto, waiting, given, i) /\ t = Len(turns)
        BY <4>1, <4>3 DEF Waits
      <4> HIDE DEF given, waiting
      <4>6. Holds(proto, Append(waiting, r), given \cup {n + 1}, i)
        BY <2>3, <4>2, <4>5, HoldsMore
      <4>7. Holds(proto, more.pending, ResultsOf(i, n + 1), i)
        BY <2>1, <4>4, <4>6 DEF given
      <4> QED
        BY <3>2, <3>3, <4>1, <4>5, <4>7 DEF Waits
    <3>4. CASE ~OpenAt(i, n)
      <4>1. SameCalls(i, t, turns) /\ Followed(proto, i, t, n, turns)
        BY <1>1, <2>4, <3>4
      <4>2. ResultsOf(i, n + 1) = ResultsOf(i, n)
        BY <1>5, <3>1, <3>4
      <4> QED
        BY <3>2, <3>4, <4>1, <4>2 DEF Followed
    <3> QED
      BY <3>3, <3>4
  <2> HIDE DEF turns, waiting
  <2> QED
    BY <1>1, <1>4, <1>10, <2>2, <2>4 DEF Placed
<1> DEFINE fl == Flushed(acc)
<1>11. /\ Cardinality(Answers(n)) = Cardinality(Spoken(fl))
       /\ \A i, t : Paired(Answers(n), i, Spoken(fl), t) =>
            SameCalls(i, t, fl) /\ Followed(proto, i, t, n, fl)
  BY PlacedFlushed DEF Settled
<1>12. IsList(fl) /\ Len(fl) \in Nat /\ Spoken(fl) \subseteq 1 .. Len(fl)
  <2>1. IsList(fl)
    BY SpokenFlushed
  <2> HIDE DEF fl
  <2> QED
    BY <2>1, SpokenMore
<1>13. m.role \in {"user", "assistant"} =>
         /\ more.pending = << >>
         /\ \E turn : /\ more.messages = Append(fl, turn)
                      /\ turn.role = "user" <=> m.role = "user"
                      /\ m.role = "assistant" => Cardinality(CallsIn(turn.content)) = Len(m.calls)
  BY <1>7 DEF Adds
<1> HIDE DEF fl, turns, waiting
<1>14. ASSUME m.role \in {"user", "assistant"}, NEW turn,
              NEW i, NEW t, Paired(Answers(n), i, Spoken(fl), t)
       PROVE  /\ ~OpenAt(i, n + 1)
              /\ SameCalls(i, t, Append(fl, turn)) /\ Followed(proto, i, t, n + 1, Append(fl, turn))
  <2>1. SameCalls(i, t, fl) /\ Followed(proto, i, t, n, fl)
    BY <1>11, <1>14
  <2>2. i \in 1 .. n /\ t \in 1 .. Len(fl)
    BY <1>2, <1>12, <1>14 DEF Paired
  <2>3. SameCalls(i, t, Append(fl, turn)) /\ Followed(proto, i, t, n, Append(fl, turn))
    BY <1>12, <2>1, <2>2, StillFollowed
  <2>4. ~OpenAt(i, n + 1) /\ ResultsOf(i, n + 1) = ResultsOf(i, n)
    BY <1>5, <1>14, <2>2
  <2> QED
    BY <2>3, <2>4 DEF Followed
<1>15. CASE m.role = "user"
  <2>1. PICK turn : more.messages = Append(fl, turn) /\ turn.role = "user"
    BY <1>13, <1>15
  <2>2. Spoken(more.messages) = Spoken(fl)
    BY <1>12, <2>1, SpokenMore
  <2>3. Answers(n + 1) = Answers(n)
    BY <1>4, <1>15
  <2> QED
    BY <1>11, <1>14, <1>15, <2>1, <2>2, <2>3 DEF Placed
<1>16. CASE m.role = "assistant"
  <2>1. PICK turn : /\ more.messages = Append(fl, turn) /\ turn.role # "user"
                    /\ Cardinality(CallsIn(turn.content)) = Len(m.calls)
    BY <1>13, <1>16
  <2> DEFINE S == Answers(n)
  <2> DEFINE U == Spoken(fl)
  <2> DEFINE last == Len(fl) + 1
  <2> DEFINE c == Cardinality(S)
  <2>2. Spoken(more.messages) = U \cup {last}
    BY <1>12, <2>1, SpokenMore
  <2>3. Answers(n + 1) = S \cup {n + 1}
    BY <1>16, MoreAnswers DEF m
  <2>4. /\ last \in Nat /\ n + 1 \in Nat
        /\ \A j \in U : j < last
        /\ \A j \in S : j < n + 1
    BY <1>2, <1>12
  <2>5. IsFiniteSet(S) /\ S \subseteq Nat /\ IsFiniteSet(U) /\ U \subseteq Nat
    <3>1. S \subseteq 1 .. n
      BY <1>2
    <3> QED
      BY <1>12, <3>1, Positions
  <2>6. Cardinality(U) = c
    BY <1>11
  <2> HIDE DEF S, U, last
  <2>7. /\ c \in Nat /\ Cardinality(S \cup {n + 1}) = c + 1 /\ Rank(S \cup {n + 1}, n + 1) = c + 1
        /\ \A k \in S : Rank(S \cup {n + 1}, k) = Rank(S, k) /\ Rank(S, k) \in 1 .. c
    BY <2>4, <2>5, RankMore
  <2>8. /\ Cardinality(U \cup {last}) = c + 1 /\ Rank(U \cup {last}, last) = c + 1
        /\ \A k \in U : Rank(U \cup {last}, k) = Rank(U, k) /\ Rank(U, k) \in 1 .. c
    <3>1. /\ Cardinality(U \cup {last}) = Cardinality(U) + 1
          /\ Rank(U \cup {last}, last) = Cardinality(U) + 1
          /\ \A k \in U : Rank(U \cup {last}, k) = Rank(U, k) /\ Rank(U, k) \in 1 .. Cardinality(U)
      BY <2>4, <2>5, RankMore
    <3> QED
      BY <2>6, <3>1
  <2> HIDE DEF c
  <2>9. ASSUME NEW i, NEW t, Paired(S \cup {n + 1}, i, U \cup {last}, t)
        PROVE  Paired(S, i, U, t) \/ (i = n + 1 /\ t = last)
    <3>1. /\ i \in S \/ i = n + 1
          /\ t \in U \/ t = last
          /\ Rank(S \cup {n + 1}, i) = Rank(U \cup {last}, t)
      BY <2>9 DEF Paired
    <3>2. CASE i \in S /\ t \in U
      BY <2>7, <2>8, <3>1, <3>2 DEF Paired
    <3>3. CASE i \in S /\ t = last
      <4>1. Rank(S, i) = c + 1 /\ Rank(S, i) \in 1 .. c
        BY <2>7, <2>8, <3>1, <3>3
      <4> QED
        BY <2>7, <4>1
    <3>4. CASE i = n + 1 /\ t \in U
      <4>1. Rank(U, t) = c + 1 /\ Rank(U, t) \in 1 .. c
        BY <2>7, <2>8, <3>1, <3>4
      <4> QED
        BY <2>7, <4>1
    <3> QED
      BY <3>1, <3>2, <3>3, <3>4
  <2>10. /\ SameCalls(n + 1, last, Append(fl, turn))
         /\ Waits(proto, n + 1, last, n + 1, Append(fl, turn), << >>)
         /\ OpenAt(n + 1, n + 1)
    <3>1. Append(fl, turn)[last] = turn /\ Len(Append(fl, turn)) = last
      BY <1>12, ListAppend DEF last
    <3>2. SameCalls(n + 1, last, Append(fl, turn))
      BY <2>1, <3>1 DEF SameCalls, m
    <3>3. OpenAt(n + 1, n + 1) /\ ResultsOf(n + 1, n + 1) = {}
      BY <2>4, NoneGivenYet
    <3> QED
      BY <3>1, <3>2, <3>3, HoldsNothing DEF Waits
  <2>11. more.pending = << >>
    BY <1>13, <1>16
  <2>12. ASSUME NEW i, NEW t, Paired(Answers(n + 1), i, Spoken(more.messages), t)
         PROVE  /\ SameCalls(i, t, more.messages)
                /\ OpenAt(i, n + 1) => Waits(proto, i, t, n + 1, more.messages, more.pending)
                /\ ~OpenAt(i, n + 1) => Followed(proto, i, t, n + 1, more.messages)
    <3>1. Paired(S, i, U, t) \/ (i = n + 1 /\ t = last)
      BY <2>2, <2>3, <2>9, <2>12
    <3>2. CASE Paired(S, i, U, t)
      BY <1>14, <1>16, <2>1, <3>2 DEF S, U
    <3>3. CASE i = n + 1 /\ t = last
      BY <2>1, <2>10, <2>11, <3>3
    <3> QED
      BY <3>1, <3>2, <3>3
  <2>13. Cardinality(Answers(n + 1)) = Cardinality(Spoken(more.messages))
    BY <2>2, <2>3, <2>7, <2>8
  <2> QED
    BY <2>12, <2>13 DEF Placed
<1> QED
  BY <1>6, <1>9, <1>10, <1>15, <1>16

(* Before the first message nothing is to be placed. *)
LEMMA PlacedNothing ==
  ASSUME NEW proto
  PROVE  Placed(proto, 0, << >>, << >>)
<1>1. Answers(0) = {} /\ Spoken(<< >>) = {}
  BY DEF Answers, Spoken
<1> QED
  BY <1>1 DEF Placed, Paired

----------------------------------------------------------------------------
(* A result is translated to that of the call it answers. *)

LEMMA ResultIsTied ==
  ASSUME ConvInv, conv \in Seq(Msg), NEW n \in Nat, n + 1 <= Len(conv), conv[n + 1].role = "tool",
         NEW i, i \in Answers(n), OpenAt(i, n)
  PROVE  TiedTo(conv[n + 1], conv[i])
<1>1. Len(conv) \in Nat /\ i \in 1 .. n /\ conv[i].role = "assistant"
  BY DEF Answers
<1>2. Between(conv, i, n + 1)
  <2>1. OpenAt(i, n + 1)
    BY <1>1, OneMoreMessage
  <2> QED
    BY <2>1 DEF OpenAt
<1>3. i \in 1 .. Len(conv) /\ n + 1 \in 1 .. Len(conv) /\ i < n + 1
  BY <1>1
<1> QED
  BY <1>1, <1>2, <1>3 DEF ConvInv, Tied

(* Anthropic takes a result by the id of its call. *)
LEMMA ResultForA ==
  ASSUME NEW k, NEW i, TiedTo(conv[k], conv[i])
  PROVE  HoldsFor("anthropic", A!ToolResult(conv[k]), k, i)
<1> DEFINE m == conv[k]
<1> DEFINE part == A!ToolResult(m)
<1>1. part.type = "tool_result" /\ part.id = m.answers /\ part.text = TextOf(m.content)
  BY SameDefs DEF A!ToolResult
<1>2. TextOfPart(part) = TextOf(m.content) /\ IsResult(part)
  BY <1>1 DEF TextOfPart, IsResult
<1>3. \E x \in ToSet(conv[i].calls) : x.id = m.answers
  BY DEF TiedTo
<1> HIDE DEF part
<1> QED
  BY <1>1, <1>2, <1>3 DEF HoldsFor, AnsweredAs, part

(* toolNameByID holds a name for every id of this message. *)
Remembers(names, calls) ==
  \A x \in ToSet(calls) :
    None \notin {x.id, x.name} =>
      x.id \in DOMAIN names /\ \E y \in ToSet(calls) : y.id = x.id /\ y.name = names[x.id]

(* Gemini takes it by the name of its call, which the message says or the id
   remembers. *)
LEMMA ResultForG ==
  ASSUME NEW k, NEW i, TiedTo(conv[k], conv[i]), NEW names, Remembers(names, conv[i].calls)
  PROVE  HoldsFor("gemini", G!FunctionResponse(conv[k], names), k, i)
<1> DEFINE m == conv[k]
<1> DEFINE calls == conv[i].calls
<1> DEFINE part == G!FunctionResponse(m, names)
<1>1. /\ part.type = "functionResponse" /\ part.result = TextOf(m.content)
      /\ part.name = IF m.name # None THEN m.name
                     ELSE IF m.answers \in DOMAIN names THEN names[m.answers] ELSE m.answers
  BY SameDefs DEF G!FunctionResponse
<1>2. TextOfPart(part) = TextOf(m.content) /\ IsResult(part)
  BY <1>1 DEF TextOfPart, IsResult
<1>3. PICK x \in ToSet(calls) :
        x.id = m.answers /\ None \notin {x.id, x.name} /\ m.name \in {None, x.name}
  BY DEF TiedTo
<1> HIDE DEF part
<1>4. CASE m.name # None
  BY <1>1, <1>2, <1>3, <1>4 DEF HoldsFor, AnsweredAs, part
<1>5. CASE m.name = None
  <2>1. PICK y \in ToSet(calls) : y.id = x.id /\ y.name = names[x.id] /\ x.id \in DOMAIN names
    BY <1>3 DEF Remembers
  <2>2. part.name = y.name /\ y.id = m.answers
    BY <1>1, <1>3, <1>5, <2>1
  <2> QED
    BY <1>2, <2>1, <2>2 DEF HoldsFor, AnsweredAs, part
<1> QED
  BY <1>4, <1>5

(* A set of positions has a last one. *)
LEMMA LastExists ==
  ASSUME NEW n \in Nat, NEW S, S \subseteq 1 .. n, S # {}
  PROVE  \E k \in S : \A j \in S : j <= k
<1> DEFINE back == {n - j : j \in S}
<1>1. back \subseteq Nat /\ back # {}
  <2>1. \A j \in S : n - j \in Nat
    OBVIOUS
  <2>2. PICK s \in S : TRUE
    OBVIOUS
  <2>3. n - s \in back
    BY <2>2
  <2> QED
    BY <2>1, <2>3
<1>2. PICK b \in back : \A j \in back : b <= j
  <2> HIDE DEF back
  <2> QED
    BY <1>1, Least
<1>3. PICK k \in S : b = n - k
  OBVIOUS
<1>4. ASSUME NEW j \in S
      PROVE  j <= k
  <2>1. n - j \in back
    OBVIOUS
  <2>2. n - k <= n - j
    BY <1>2, <1>3, <2>1
  <2>3. j \in Nat /\ k \in Nat
    OBVIOUS
  <2> HIDE DEF back
  <2> QED
    BY <2>2, <2>3
<1> QED
  BY <1>4

(* After the calls of a message their ids have names of calls of this message,
   whatever they were before. *)
LEMMA NamesRemember ==
  ASSUME NEW calls, calls \in Seq(Call), NEW names
  PROVE  Remembers(G!NamesAfter(names, calls), calls)
<1> DEFINE named == {k \in DOMAIN calls : None \notin {calls[k].id, calls[k].name}}
<1> DEFINE last(id) == CHOOSE k \in named :
                         /\ calls[k].id = id
                         /\ \A j \in named : calls[j].id = id => j <= k
<1> DEFINE new == G!NamesOf(calls)
<1> DEFINE all == G!NamesAfter(names, calls)
<1>1. new = [id \in {calls[k].id : k \in named} |-> calls[last(id)].name]
  BY Zenon DEF G!NamesOf
<1>2. Len(calls) \in Nat /\ DOMAIN calls = 1 .. Len(calls)
  OBVIOUS
<1>3. named \subseteq 1 .. Len(calls)
  BY <1>2
<1>4. all = [id \in DOMAIN names \cup DOMAIN new |-> IF id \in DOMAIN new THEN new[id] ELSE names[id]]
  BY DEF G!NamesAfter
<1> SUFFICES ASSUME NEW x \in ToSet(calls), None \notin {x.id, x.name}
             PROVE  x.id \in DOMAIN all /\ \E y \in ToSet(calls) : y.id = x.id /\ y.name = all[x.id]
  BY DEF Remembers
<1>5. PICK k \in named : calls[k] = x
  BY <1>2 DEF ToSet
<1> DEFINE own == {j \in named : calls[j].id = x.id}
<1>6. own \subseteq 1 .. Len(calls) /\ own # {}
  BY <1>3, <1>5
<1>7. \E l \in own : \A j \in own : j <= l
  <2> HIDE DEF own
  <2> QED
    BY <1>2, <1>6, LastExists
<1>8. last(x.id) \in named /\ calls[last(x.id)].id = x.id
  <2>1. \E l \in named : calls[l].id = x.id /\ \A j \in named : calls[j].id = x.id => j <= l
    BY <1>7
  <2> HIDE DEF named
  <2> QED
    BY <2>1
<1>9. calls[last(x.id)] \in ToSet(calls)
  BY <1>8 DEF ToSet
<1>10. x.id \in DOMAIN new
  BY <1>1, <1>5
<1>11. new[x.id] = calls[last(x.id)].name
  <2> DEFINE D == {calls[j].id : j \in named}
  <2>1. x.id \in D
    BY <1>5
  <2> HIDE DEF D, new
  <2>2. new = [id \in D |-> calls[last(id)].name]
    BY <1>1 DEF D
  <2> HIDE DEF last
  <2> QED
    BY <2>1, <2>2
<1> HIDE DEF new, all, last
<1>12. x.id \in DOMAIN all /\ all[x.id] = new[x.id]
  BY <1>4, <1>10
<1> QED
  BY <1>8, <1>9, <1>11, <1>12

(* The loop puts a result behind those that wait, in both translators. *)
LEMMA ToolAddsA ==
  ASSUME NEW acc, NEW m, AccA(acc), m.role = "tool"
  PROVE  A!AddMessage(acc, m).pending = Append(acc.pending, A!ToolResult(m))
<1> DEFINE r == A!ToolResult(m)
<1>1. A!AddMessage(acc, m) = [acc EXCEPT !.pending = Append(@, r)]
  BY DEF A!AddMessage
<1> HIDE DEF r
<1> DEFINE p == Append(acc.pending, r)
<1>2. A!AddMessage(acc, m) = [acc EXCEPT !.pending = p]
  BY <1>1
<1> HIDE DEF p
<1>3. A!AddMessage(acc, m).pending = p
  BY <1>2 DEF AccA
<1> QED
  BY <1>3 DEF p, r

LEMMA ToolAddsG ==
  ASSUME NEW acc, NEW m, AccG(acc), m.role = "tool"
  PROVE  G!AddMessage(acc, m).pending = Append(acc.pending, G!FunctionResponse(m, acc.names))
<1> DEFINE r == G!FunctionResponse(m, acc.names)
<1>1. G!AddMessage(acc, m) = [acc EXCEPT !.pending = Append(@, r)]
  BY DEF G!AddMessage
<1> HIDE DEF r
<1> DEFINE p == Append(acc.pending, r)
<1>2. G!AddMessage(acc, m) = [acc EXCEPT !.pending = p]
  BY <1>1
<1> HIDE DEF p
<1>3. G!AddMessage(acc, m).pending = p
  BY <1>2 DEF AccG
<1> QED
  BY <1>3 DEF p, r

(* Only an assistant message changes the names. *)
LEMMA NamesAdded ==
  ASSUME NEW acc, NEW m, AccG(acc), m.role \in {"system", "tool", "user", "assistant"}
  PROVE  /\ m.role # "assistant" => G!AddMessage(acc, m).names = acc.names
         /\ m.role = "assistant" => G!AddMessage(acc, m).names = G!NamesAfter(acc.names, m.calls)
<1> DEFINE new == G!AddMessage(acc, m)
<1> DEFINE flushed == G!FlushToolResults(acc)
<1> DEFINE names == acc.names
<1>1. /\ flushed.names = names
      /\ flushed = [system |-> flushed.system, messages |-> flushed.messages,
                    pending |-> flushed.pending, names |-> flushed.names]
  <2>1. flushed = [system |-> acc.system, messages |-> Flushed(acc), pending |-> << >>, names |-> names]
    BY FlushG
  <2> HIDE DEF flushed
  <2> QED
    BY <2>1
<1>2. CASE m.role = "system"
  <2>1. new = [acc EXCEPT !.system = @ \o G!TextOf(m.content)]
    BY <1>2 DEF G!AddMessage
  <2> HIDE DEF new
  <2>2. new.names = names
    BY <2>1 DEF AccG
  <2> QED
    BY <1>2, <2>2 DEF new
<1>3. CASE m.role = "tool"
  <2>1. new = [acc EXCEPT !.pending = Append(@, G!FunctionResponse(m, acc.names))]
    BY <1>3 DEF G!AddMessage
  <2> HIDE DEF new
  <2>2. new.names = names
    BY <2>1 DEF AccG
  <2> QED
    BY <1>3, <2>2 DEF new
<1>4. CASE m.role = "user"
  <2>1. new = [flushed EXCEPT !.messages =
                 Append(@, G!Contents("user", G!OpenAIContentToParts(m.content)))]
    BY <1>4 DEF G!AddMessage
  <2> HIDE DEF new, flushed
  <2>2. new.names = flushed.names
    BY <1>1, <2>1
  <2> QED
    BY <1>1, <1>4, <2>2 DEF new
<1>5. CASE m.role = "assistant"
  <2> DEFINE t == Append(flushed.messages, G!Contents("model", G!ModelParts(m)))
  <2>1. new = [[flushed EXCEPT !.messages = t] EXCEPT !.names = G!NamesAfter(@, m.calls)]
    BY <1>5 DEF G!AddMessage
  <2> HIDE DEF new, flushed, t
  <2> DEFINE named == [flushed EXCEPT !.messages = t]
  <2>2. named = [system |-> flushed.system, messages |-> t,
                 pending |-> flushed.pending, names |-> flushed.names]
    BY <1>1
  <2>3. new = [named EXCEPT !.names = G!NamesAfter(named.names, m.calls)]
    BY <2>1
  <2> HIDE DEF named
  <2>4. new.names = G!NamesAfter(named.names, m.calls)
    BY <2>2, <2>3
  <2>5. named.names = names
    BY <1>1, <2>2
  <2> QED
    BY <1>5, <2>4, <2>5 DEF new
<1> QED
  BY <1>2, <1>3, <1>4, <1>5

----------------------------------------------------------------------------
(* Through the loop of either protocol. *)

LEMMA PlacedA ==
  ASSUME AllSendable, ConvInv, NEW f, StepsA(conv, Len(conv), f), NEW n \in 0 .. Len(conv)
  PROVE  Placed("anthropic", n, f[n].messages, f[n].pending)
<1> DEFINE P(k) == Placed("anthropic", k, f[k].messages, f[k].pending)
<1> DEFINE S == {k \in Nat : k \in 0 .. Len(conv) => P(k)}
<1>1. Len(conv) \in Nat /\ conv \in Seq(Msg)
  BY DEF AllSendable
<1>2. 0 \in S
  <2>1. f[0] = A!Nothing
    BY <1>1 DEF StepsA
  <2>2. f[0].messages = << >> /\ f[0].pending = << >>
    BY <2>1 DEF A!Nothing
  <2>3. P(0)
    BY <2>2, PlacedNothing
  <2> QED
    BY <2>3
<1>3. ASSUME NEW k \in Nat, k \in S
      PROVE  k + 1 \in S
  <2> SUFFICES ASSUME k + 1 \in 0 .. Len(conv)
               PROVE  P(k + 1)
    OBVIOUS
  <2>1. k \in 0 .. Len(conv) /\ k + 1 <= Len(conv) /\ k + 1 # 0 /\ (k + 1) - 1 = k
        /\ k + 1 \in 1 .. Len(conv)
    BY <1>1
  <2> DEFINE acc == f[k]
  <2> DEFINE m == conv[k + 1]
  <2> DEFINE more == A!AddMessage(acc, m)
  <2>2. AccA(acc) /\ Tells(acc, k)
    BY <2>1, TellsA
  <2>3. Placed("anthropic", k, acc.messages, acc.pending)
    BY <1>3, <2>1
  <2>4. f[k + 1] = more
    <3>1. f[k + 1] = A!AddMessage(f[(k + 1) - 1], conv[k + 1])
      BY <2>1, Zenon DEF StepsA
    <3> QED
      BY <2>1, <3>1
  <2>5. Sendable(m)
    BY <2>1 DEF AllSendable
  <2> HIDE DEF acc, P
  <2>6. Adds(acc, m, more)
    BY <2>2, <2>5, AddsA
  <2>7. WordedTurns(acc.messages) /\ Worded(acc.pending)
    BY <2>2 DEF Tells
  <2>8. ASSUME m.role = "tool", NEW i \in Answers(k), OpenAt(i, k)
        PROVE  HoldsFor("anthropic", more.pending[Len(acc.pending) + 1], k + 1, i)
    <3>1. TiedTo(conv[k + 1], conv[i])
      BY <1>1, <2>1, <2>8, ResultIsTied
    <3>2. HoldsFor("anthropic", A!ToolResult(m), k + 1, i)
      BY <3>1, ResultForA
    <3>3. more.pending = Append(acc.pending, A!ToolResult(m))
      BY <2>2, <2>8, ToolAddsA
    <3> DEFINE r == A!ToolResult(m)
    <3> HIDE DEF more, r
    <3>4. more.pending[Len(acc.pending) + 1] = r
      <4>1. more.pending = Append(acc.pending, r)
        BY <3>3 DEF r
      <4> QED
        BY <2>7, <4>1, ListAppend DEF Worded
    <3> QED
      BY <3>2, <3>4 DEF r
  <2>9. Adds(acc, conv[k + 1], more)
        /\ (conv[k + 1].role = "tool" =>
              \A i \in Answers(k) :
                OpenAt(i, k) => HoldsFor("anthropic", more.pending[Len(acc.pending) + 1], k + 1, i))
    BY <2>6, <2>8
  <2> HIDE DEF more, m
  <2>10. Placed("anthropic", k + 1, more.messages, more.pending)
    BY <2>1, <2>3, <2>7, <2>9, PlacedMore
  <2> QED
    BY <2>4, <2>10 DEF P
<1> HIDE DEF S
<1>4. n \in S
  BY <1>1, <1>2, <1>3, Induct
<1> QED
  BY <1>4 DEF S

(* The names Gemini's translation has for the ids of the message that is
   still open. *)
Known(n, names) ==
  \A i \in Answers(n) : OpenAt(i, n) => Remembers(names, conv[i].calls)

(* The names stay those of the answer that is open. *)
LEMMA KnownMore ==
  ASSUME AllSendable, NEW n \in Nat, n + 1 <= Len(conv), NEW acc, AccG(acc), Known(n, acc.names)
  PROVE  Known(n + 1, G!AddMessage(acc, conv[n + 1]).names)
<1> DEFINE m == conv[n + 1]
<1> DEFINE new == G!AddMessage(acc, m).names
<1>1. Len(conv) \in Nat /\ n + 1 \in 1 .. Len(conv)
  BY DEF AllSendable
<1>2. m \in Msg /\ m.role \in {"system", "tool", "user", "assistant"}
  BY <1>1 DEF AllSendable, Sendable, Role
<1>3. /\ m.role # "assistant" => new = acc.names
      /\ m.role = "assistant" => new = G!NamesAfter(acc.names, m.calls)
  BY <1>2, NamesAdded
<1>4. \A i \in Answers(n) : i \in 1 .. n
  BY DEF Answers
<1>5. \A i \in Answers(n) : OpenAt(i, n + 1) => OpenAt(i, n) /\ m.role \in {"tool", "system"}
  BY <1>4, OneMoreMessage
<1>6. /\ m.role # "assistant" => Answers(n + 1) = Answers(n)
      /\ m.role = "assistant" => Answers(n + 1) = Answers(n) \cup {n + 1}
  BY MoreAnswers
<1>7. CASE m.role # "assistant"
  <2>1. new = acc.names
    BY <1>3, <1>7
  <2> HIDE DEF new, m
  <2> QED
    BY <1>5, <1>6, <1>7, <2>1 DEF Known, new, m
<1>8. CASE m.role = "assistant"
  <2>1. m.calls \in Seq(Call)
    BY <1>2 DEF Msg
  <2>2. Remembers(new, m.calls)
    BY <1>3, <1>8, <2>1, NamesRemember
  <2>3. ASSUME NEW i \in Answers(n + 1), OpenAt(i, n + 1)
        PROVE  Remembers(new, conv[i].calls)
    <3>1. i \notin Answers(n)
      BY <1>5, <1>8, <2>3
    <3>2. i = n + 1
      BY <1>6, <1>8, <3>1
    <3> QED
      BY <2>2, <3>2
  <2> QED
    BY <2>3 DEF Known
<1> QED
  BY <1>7, <1>8

LEMMA PlacedG ==
  ASSUME AllSendable, ConvInv, NEW f, StepsG(conv, Len(conv), f), NEW n \in 0 .. Len(conv)
  PROVE  Placed("gemini", n, f[n].messages, f[n].pending)
<1> DEFINE P(k) == Placed("gemini", k, f[k].messages, f[k].pending) /\ Known(k, f[k].names)
<1> DEFINE S == {k \in Nat : k \in 0 .. Len(conv) => P(k)}
<1>1. Len(conv) \in Nat /\ conv \in Seq(Msg)
  BY DEF AllSendable
<1>2. 0 \in S
  <2>1. f[0] = G!Nothing
    BY <1>1 DEF StepsG
  <2>2. f[0].messages = << >> /\ f[0].pending = << >>
    BY <2>1 DEF G!Nothing
  <2>3. Placed("gemini", 0, f[0].messages, f[0].pending)
    BY <2>2, PlacedNothing
  <2>4. Known(0, f[0].names)
    BY DEF Known, Answers
  <2> QED
    BY <2>3, <2>4
<1>3. ASSUME NEW k \in Nat, k \in S
      PROVE  k + 1 \in S
  <2> SUFFICES ASSUME k + 1 \in 0 .. Len(conv)
               PROVE  P(k + 1)
    OBVIOUS
  <2>1. k \in 0 .. Len(conv) /\ k + 1 <= Len(conv) /\ k + 1 # 0 /\ (k + 1) - 1 = k
        /\ k + 1 \in 1 .. Len(conv)
    BY <1>1
  <2> DEFINE acc == f[k]
  <2> DEFINE m == conv[k + 1]
  <2> DEFINE more == G!AddMessage(acc, m)
  <2>2. AccG(acc) /\ Tells(acc, k)
    BY <2>1, TellsG
  <2>3. Placed("gemini", k, acc.messages, acc.pending) /\ Known(k, acc.names)
    BY <1>3, <2>1
  <2>4. f[k + 1] = more
    <3>1. f[k + 1] = G!AddMessage(f[(k + 1) - 1], conv[k + 1])
      BY <2>1, Zenon DEF StepsG
    <3> QED
      BY <2>1, <3>1
  <2>5. Sendable(m)
    BY <2>1 DEF AllSendable
  <2> HIDE DEF acc, P
  <2>6. Adds(acc, m, more)
    BY <2>2, <2>5, AddsG
  <2>7. WordedTurns(acc.messages) /\ Worded(acc.pending)
    BY <2>2 DEF Tells
  <2>8. ASSUME m.role = "tool", NEW i \in Answers(k), OpenAt(i, k)
        PROVE  HoldsFor("gemini", more.pending[Len(acc.pending) + 1], k + 1, i)
    <3>1. TiedTo(conv[k + 1], conv[i]) /\ Remembers(acc.names, conv[i].calls)
      BY <1>1, <2>1, <2>3, <2>8, ResultIsTied DEF Known
    <3> DEFINE r == G!FunctionResponse(m, acc.names)
    <3>2. HoldsFor("gemini", r, k + 1, i)
      BY <3>1, ResultForG
    <3>3. more.pending = Append(acc.pending, r)
      BY <2>2, <2>8, ToolAddsG
    <3> HIDE DEF more, r
    <3>4. more.pending[Len(acc.pending) + 1] = r
      BY <2>7, <3>3, ListAppend DEF Worded
    <3> QED
      BY <3>2, <3>4
  <2>9. Adds(acc, conv[k + 1], more)
        /\ (conv[k + 1].role = "tool" =>
              \A i \in Answers(k) :
                OpenAt(i, k) => HoldsFor("gemini", more.pending[Len(acc.pending) + 1], k + 1, i))
    BY <2>6, <2>8
  <2>10. Known(k + 1, more.names)
    BY <2>1, <2>2, <2>3, KnownMore
  <2> HIDE DEF more, m
  <2>11. Placed("gemini", k + 1, more.messages, more.pending)
    BY <2>1, <2>3, <2>7, <2>9, PlacedMore
  <2> QED
    BY <2>4, <2>10, <2>11 DEF P
<1> HIDE DEF S
<1>4. n \in S
  BY <1>1, <1>2, <1>3, Induct
<1> QED
  BY <1>4 DEF S

(* At the end of the loop the results are flushed too. *)
LEMMA SettledA ==
  ASSUME AllSendable, ConvInv
  PROVE  Settled("anthropic", Len(conv), A!Translated(conv).messages)
<1>1. conv \in Seq(Msg) /\ Len(conv) \in Nat /\ Len(conv) \in 0 .. Len(conv)
  BY DEF AllSendable
<1>2. PICK f : StepsA(conv, Len(conv), f)
               /\ A!Translated(conv) = A!FlushToolResults(f[Len(conv)])
  BY <1>1, TranslatedA
<1> DEFINE acc == f[Len(conv)]
<1>3. /\ AccA(acc) /\ Tells(acc, Len(conv))
      /\ Placed("anthropic", Len(conv), acc.messages, acc.pending)
  BY <1>1, <1>2, TellsA, PlacedA
<1>4. A!Translated(conv) = A!FlushToolResults(acc)
  BY <1>2
<1> HIDE DEF acc
<1>5. A!Translated(conv).messages = Flushed(acc)
  BY <1>3, <1>4, FlushA
<1>6. Settled("anthropic", Len(conv), Flushed(acc))
  BY <1>1, <1>3, PlacedFlushed DEF Tells
<1> QED
  BY <1>5, <1>6

LEMMA SettledG ==
  ASSUME AllSendable, ConvInv
  PROVE  Settled("gemini", Len(conv), G!Translated(conv).messages)
<1>1. conv \in Seq(Msg) /\ Len(conv) \in Nat /\ Len(conv) \in 0 .. Len(conv)
  BY DEF AllSendable
<1>2. PICK f : StepsG(conv, Len(conv), f)
               /\ G!Translated(conv) = G!FlushToolResults(f[Len(conv)])
  BY <1>1, TranslatedG
<1> DEFINE acc == f[Len(conv)]
<1>3. /\ AccG(acc) /\ Tells(acc, Len(conv))
      /\ Placed("gemini", Len(conv), acc.messages, acc.pending)
  BY <1>1, <1>2, TellsG, PlacedG
<1>4. G!Translated(conv) = G!FlushToolResults(acc)
  BY <1>2
<1> HIDE DEF acc
<1>5. G!Translated(conv).messages = Flushed(acc)
  BY <1>3, <1>4, FlushG
<1>6. Settled("gemini", Len(conv), Flushed(acc))
  BY <1>1, <1>3, PlacedFlushed DEF Tells
<1> QED
  BY <1>5, <1>6

(* What the invariant says of the messages of one protocol. *)
Follow(proto, turns) ==
  /\ Cardinality(Speakers) = Cardinality(Spoken(turns))
  /\ \A i \in Speakers, t \in Spoken(turns) :
       Rank(Speakers, i) = Rank(Spoken(turns), t) =>
         LET spoke == turns[t].content
             results == ToolMessagesAfter(i)
         IN /\ Cardinality({b \in DOMAIN spoke : IsCall(spoke[b])}) = Len(conv[i].calls)
            /\ results # {} =>
                 /\ t < Len(turns)
                 /\ Len(turns[t + 1].content) = Cardinality(results)
                 /\ \A k \in results :
                      LET part == turns[t + 1].content[Rank(results, k)]
                      IN IsResult(part) /\ AnsweredAs(proto, part, conv[k], conv[i])

(* Which is what the invariant says. *)
LEMMA SettledFollow ==
  ASSUME conv \in Seq(Msg), NEW proto, NEW turns, Settled(proto, Len(conv), turns)
  PROVE  Follow(proto, turns)
<1>1. DOMAIN conv = 1 .. Len(conv)
  OBVIOUS
<1>2. Speakers = Answers(Len(conv))
  BY <1>1 DEF Speakers, Answers
<1>3. \A i : ToolMessagesAfter(i) = ResultsOf(i, Len(conv))
  BY <1>1 DEF ToolMessagesAfter, ResultsOf, Between
<1>4. ASSUME NEW i \in Speakers, NEW t \in Spoken(turns), Rank(Speakers, i) = Rank(Spoken(turns), t)
      PROVE  /\ Cardinality(CallsIn(turns[t].content)) = Len(conv[i].calls)
             /\ ToolMessagesAfter(i) # {} =>
                  t < Len(turns) /\ Holds(proto, turns[t + 1].content, ToolMessagesAfter(i), i)
  BY <1>2, <1>3, <1>4 DEF Settled, Paired, SameCalls, Followed
<1>5. Cardinality(Speakers) = Cardinality(Spoken(turns))
  BY <1>2 DEF Settled
<1> QED
  BY <1>4, <1>5 DEF Follow, Holds, CallsIn

(* The results of the calls of an answer are in the turn that follows the turn
   of that answer, as many as there are, in order, each by the id (Anthropic) or
   the name (Gemini) of the call it answers, although ids repeat and messages of
   the system come between (request.go of both). *)
THEOREM ResultsFollowThem == Spec => []ResultsFollowCalls
<1>1. ThreadInv => ResultsFollowCalls
  <2> SUFFICES ASSUME ThreadInv, NEW proto \in Translations
               PROVE  Follow(proto, TranslateRequest(proto).messages)
    BY DEF ResultsFollowCalls, Follow
  <2>1. conv \in Seq(Msg) /\ ConvInv
    BY DEF ThreadInv, AnswerInv, Typed
  <2>2. proto \in {"anthropic", "gemini"} /\ ~Refuses(proto)
    BY DEF Translations
  <2>3. CASE proto = "anthropic"
    <3>1. ~A!Untranslatable(Req)
      BY <2>2, <2>3 DEF Refuses, A!Refused
    <3>2. AllSendable
      BY <2>1, <3>1, TranslatableIs
    <3>3. TranslateRequest(proto).messages = A!Translated(conv).messages
      BY <2>3, ReqIs DEF TranslateRequest, A!OpenAIToAnthropic
    <3> QED
      BY <2>1, <2>3, <3>2, <3>3, SettledA, SettledFollow
  <2>4. CASE proto = "gemini"
    <3>1. ~G!Untranslatable(Req)
      BY <2>2, <2>4 DEF Refuses, G!Refused
    <3>2. AllSendable
      BY <2>1, <3>1, SameRefusals, TranslatableIs
    <3>3. TranslateRequest(proto).messages = G!Translated(conv).messages
      BY <2>4, ReqIs DEF TranslateRequest, G!OpenAIToGemini
    <3> QED
      BY <2>1, <2>4, <3>2, <3>3, SettledG, SettledFollow
  <2> QED
    BY <2>2, <2>3, <2>4
<1> QED
  BY <1>1, ThreadKept, PTL
=============================================================================
