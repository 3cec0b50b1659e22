--------------------------- MODULE StreamProofs ----------------------------
(***************************************************************************)
(* What a stream tells a client, for any chunks: sequences and how they    *)
(* are flattened, what one more chunk adds to what a client has put        *)
(* together, and what each action of Translation writes.                   *)
(*                                                                         *)
(* Told(o, parts, n, missed) says that the chunks o are a well-formed      *)
(* stream, as far as the events missed allow, and carry the text of the    *)
(* parts and, unless the beginning of a call was missed, their calls,      *)
(* numbered from zero, n of them. One lemma for each kind of chunk says    *)
(* that the stream it leaves is told.                                      *)
(***************************************************************************)
EXTENDS Translation, WellFoundedInduction, FiniteSetTheorems, TLAPS

----------------------------------------------------------------------------
(* Induction, and the sequences the translators concatenate. *)

LEMMA Least ==
  ASSUME NEW S, S \subseteq Nat, S # {}
  PROVE  \E i \in S : \A j \in S : i <= j
<1>1. PICK i \in S : \A j \in S : <<j, i>> \notin OpToRel(<, Nat)
  BY WFMin, NatLessThanWellFounded, Zenon
<1>2. \A j \in S : ~(j < i)
  BY <1>1, Zenon DEF OpToRel
<1> QED
  BY <1>2

(* Induction over the natural numbers, as a fact about sets of them. *)
LEMMA Induct ==
  ASSUME NEW S, 0 \in S, \A n \in Nat : n \in S => n + 1 \in S
  PROVE  Nat \subseteq S
<1> SUFFICES ASSUME Nat \ S # {}
             PROVE  FALSE
  OBVIOUS
<1>1. PICK i \in Nat \ S : \A j \in Nat \ S : i <= j
  <2> DEFINE U == Nat \ S
  <2>1. U \subseteq Nat /\ U # {}
    OBVIOUS
  <2> HIDE DEF U
  <2>2. \E i \in U : \A j \in U : i <= j
    BY <2>1, Least, Zenon
  <2> QED
    BY <2>2 DEF U
<1>2. i # 0 /\ i - 1 \in Nat
  BY <1>1
<1>3. i - 1 \in S
  BY <1>1, <1>2
<1>4. i - 1 + 1 \in S
  BY <1>2, <1>3
<1> QED
  BY <1>1, <1>2, <1>4

(* The concatenations f of the first elements of s. *)
Runs(s, n, f) == f = [i \in 1 .. n |-> IF i = 1 THEN s[i] ELSE f[i - 1] \o s[i]]

Step(s, n, f) == \A i \in 1 .. n : f[i] = IF i = 1 THEN s[i] ELSE f[i - 1] \o s[i]

(* The function that concatenates step by step takes each step. *)
LEMMA RunsStep ==
  ASSUME NEW s, NEW n, NEW f, Runs(s, n, f)
  PROVE  Step(s, n, f)
<1> DEFINE F == [j \in 1 .. n |-> IF j = 1 THEN s[j] ELSE f[j - 1] \o s[j]]
<1>1. \A i \in 1 .. n : F[i] = IF i = 1 THEN s[i] ELSE f[i - 1] \o s[i]
  OBVIOUS
<1>2. f = F
  BY DEF Runs
<1> HIDE DEF F
<1> QED
  BY <1>1, <1>2, Zenon DEF Step

(* There is such a function for any number of steps. *)
LEMMA RunsExist ==
  ASSUME NEW s, NEW n \in Nat
  PROVE  \E f : Runs(s, n, f)
<1> DEFINE S == {m \in Nat : \E f : Runs(s, m, f)}
<1>1. 0 \in S
  <2>1. Runs(s, 0, [i \in 1 .. 0 |-> s[i]])
    BY DEF Runs
  <2> QED
    BY <2>1
<1>2. ASSUME NEW m \in Nat, m \in S
      PROVE  m + 1 \in S
  <2>1. PICK f : Runs(s, m, f)
    BY <1>2
  <2>0. Step(s, m, f)
    BY <2>1, RunsStep
  <2> DEFINE h == [i \in 1 .. m + 1 |-> IF i = 1 THEN s[i]
                                        ELSE IF i = m + 1 THEN f[m] \o s[i] ELSE f[i]]
  <2>2. ASSUME NEW i \in 1 .. m + 1
        PROVE  h[i] = IF i = 1 THEN s[i] ELSE h[i - 1] \o s[i]
    <3>1. CASE i = 1
      BY <3>1
    <3>2. CASE i # 1 /\ i = m + 1
      <4>1. h[m] = f[m]
        <5>1. m \in 1 .. m /\ (m = 1 => f[m] = s[m])
          BY <2>0, <3>2 DEF Step
        <5> QED
          BY <5>1
      <4>2. h[i] = f[m] \o s[i]
        BY <3>2, Zenon
      <4>3. i - 1 = m
        BY <3>2
      <4> HIDE DEF h
      <4> QED
        BY <3>2, <4>1, <4>2, <4>3
    <3>3. CASE i # 1 /\ i # m + 1
      <4> HIDE DEF h
      <4>0. i \in 1 .. m
        BY <3>3
      <4>1. f[i] = f[i - 1] \o s[i]
        BY <2>0, <3>3, <4>0, Zenon DEF Step
      <4>2. h[i] = f[i]
        BY <3>3, Zenon DEF h
      <4>3. h[i - 1] = f[i - 1]
        <5>1. i - 1 \in 1 .. m /\ i - 1 \in 1 .. m + 1 /\ i - 1 # m + 1
          BY <3>3
        <5>2. i - 1 = 1 => f[i - 1] = s[i - 1]
          BY <2>0, <5>1, Zenon DEF Step
        <5> QED
          BY <5>1, <5>2, Zenon DEF h
      <4> HIDE DEF h
      <4> QED
        BY <3>3, <4>1, <4>2, <4>3
    <3> QED
      BY <3>1, <3>2, <3>3
  <2>3. Runs(s, m + 1, h)
    BY <2>2, Zenon DEF Runs
  <2> HIDE DEF h
  <2> QED
    BY <2>3
<1> HIDE DEF S
<1>3. n \in S
  BY <1>1, <1>2, Induct
<1> QED
  BY <1>3 DEF S

(* It stays among the sequences of the same elements. *)
LEMMA RunsType ==
  ASSUME NEW T, NEW s \in Seq(Seq(T)), NEW f, Runs(s, Len(s), f), NEW n \in 1 .. Len(s)
  PROVE  f[n] \in Seq(T)
<1> DEFINE S == {m \in Nat : m + 1 \in 1 .. Len(s) => f[m + 1] \in Seq(T)}
<1>1. \A i \in 1 .. Len(s) : s[i] \in Seq(T) /\ f[i] = IF i = 1 THEN s[i] ELSE f[i - 1] \o s[i]
  <2>1. \A i \in 1 .. Len(s) : s[i] \in Seq(T)
    OBVIOUS
  <2>2. Step(s, Len(s), f)
    BY RunsStep
  <2> QED
    BY <2>1, <2>2, Zenon DEF Step
<1>2. 0 \in S
  BY <1>1
<1>3. ASSUME NEW m \in Nat, m \in S
      PROVE  m + 1 \in S
  <2> SUFFICES ASSUME m + 2 \in 1 .. Len(s)
               PROVE  f[m + 2] \in Seq(T)
    OBVIOUS
  <2>1. f[m + 1] \in Seq(T)
    BY <1>3
  <2>2. (m + 2) - 1 = m + 1 /\ m + 2 # 1
    OBVIOUS
  <2>3. f[m + 2] = f[m + 1] \o s[m + 2] /\ s[m + 2] \in Seq(T)
    BY <1>1, <2>2
  <2> QED
    BY <2>1, <2>3
<1> HIDE DEF S
<1>4. n - 1 \in Nat /\ n - 1 \in S
  <2>1. Nat \subseteq S
    BY <1>2, <1>3, Induct
  <2> QED
    BY <2>1
<1> QED
  BY <1>4 DEF S

(* Running concatenations of a sequence and of one that extends it agree. *)
Same(f, g, n) == \A i \in 1 .. n : f[i] = g[i]

(* Two of them agree as long as the sequences they run over do. *)
LEMMA RunsAgree ==
  ASSUME NEW s, NEW t, NEW k \in Nat, NEW l \in Nat, k <= l, NEW f, NEW g,
         Runs(s, k, f), Runs(t, l, g), Same(s, t, k)
  PROVE  Same(f, g, k)
<1> SUFFICES ASSUME NEW n \in 1 .. k
             PROVE  f[n] = g[n]
  BY DEF Same
<1> DEFINE S == {m \in Nat : m + 1 \in 1 .. k => f[m + 1] = g[m + 1]}
<1>1. \A i \in 1 .. k : /\ s[i] = t[i]
                        /\ f[i] = IF i = 1 THEN s[i] ELSE f[i - 1] \o s[i]
                        /\ g[i] = IF i = 1 THEN t[i] ELSE g[i - 1] \o t[i]
  <2> TAKE i \in 1 .. k
  <2>1. i \in 1 .. l
    OBVIOUS
  <2>2. Step(s, k, f) /\ Step(t, l, g)
    BY RunsStep
  <2> QED
    BY <2>1, <2>2, Zenon DEF Step, Same
<1>2. 0 \in S
  BY <1>1
<1>3. ASSUME NEW m \in Nat, m \in S
      PROVE  m + 1 \in S
  <2> SUFFICES ASSUME m + 2 \in 1 .. k
               PROVE  f[m + 2] = g[m + 2]
    OBVIOUS
  <2>1. f[m + 1] = g[m + 1]
    BY <1>3
  <2>2. (m + 2) - 1 = m + 1 /\ m + 2 # 1
    OBVIOUS
  <2>3. f[m + 2] = f[m + 1] \o s[m + 2] /\ g[m + 2] = g[m + 1] \o t[m + 2] /\ s[m + 2] = t[m + 2]
    BY <1>1, <2>2
  <2> QED
    BY <2>1, <2>3
<1> HIDE DEF S
<1>4. n - 1 \in Nat /\ n - 1 \in S
  <2>1. Nat \subseteq S
    BY <1>2, <1>3, Induct
  <2> QED
    BY <2>1
<1> QED
  BY <1>4 DEF S

(* FlattenSeq is where such a run ends. *)
LEMMA FlatRuns ==
  ASSUME NEW s, Len(s) \in Nat, Len(s) # 0
  PROVE  \E f : Runs(s, Len(s), f) /\ FlattenSeq(s) = f[Len(s)]
<1> DEFINE c == CHOOSE f : Runs(s, Len(s), f)
<1>1. Runs(s, Len(s), c)
  BY RunsExist, Zenon
<1>2. FlattenSeq(s) = c[Len(s)]
  <2>1. FlattenSeq(s) = (CHOOSE f : f = [i \in 1 .. Len(s) |-> IF i = 1 THEN s[i] ELSE f[i - 1] \o s[i]])[Len(s)]
    BY DEF FlattenSeq
  <2> QED
    BY <2>1, Zenon DEF Runs
<1> QED
  BY <1>1, <1>2

LEMMA FlatEmpty == FlattenSeq(<< >>) = << >>
BY DEF FlattenSeq

LEMMA FlatType ==
  ASSUME NEW T, NEW s \in Seq(Seq(T))
  PROVE  FlattenSeq(s) \in Seq(T)
<1>1. CASE Len(s) = 0
  <2>1. s = << >> /\ << >> \in Seq(T)
    BY <1>1
  <2> QED
    BY <2>1, FlatEmpty, Zenon
<1>2. CASE Len(s) # 0
  <2>1. PICK f : Runs(s, Len(s), f) /\ FlattenSeq(s) = f[Len(s)]
    BY <1>2, FlatRuns
  <2> QED
    BY <1>2, <2>1, RunsType
<1> QED
  BY <1>1, <1>2

(* Flattening one more sequence appends it to what was flattened. *)
LEMMA FlatAppend ==
  ASSUME NEW T, NEW s \in Seq(Seq(T)), NEW x \in Seq(T)
  PROVE  FlattenSeq(Append(s, x)) = FlattenSeq(s) \o x
<1> DEFINE t == Append(s, x)
<1>1. Len(t) = Len(s) + 1 /\ t[Len(t)] = x /\ \A i \in 1 .. Len(s) : s[i] = t[i]
  OBVIOUS
<1> HIDE DEF t
<1>2. PICK g : Runs(t, Len(t), g) /\ FlattenSeq(t) = g[Len(t)]
  BY <1>1, FlatRuns
<1>3. CASE Len(s) = 0
  <2>1. g[1] = t[1]
    <3>1. Step(t, Len(t), g)
      BY <1>2, RunsStep
    <3> QED
      BY <1>1, <1>3, <3>1 DEF Step
  <2>2. FlattenSeq(t) = x
    BY <1>1, <1>2, <1>3, <2>1
  <2>3. FlattenSeq(s) = << >>
    BY <1>3, FlatEmpty
  <2> QED
    BY <2>2, <2>3 DEF t
<1>4. CASE Len(s) # 0
  <2>1. PICK f : Runs(s, Len(s), f) /\ FlattenSeq(s) = f[Len(s)]
    BY <1>4, FlatRuns
  <2>2. f[Len(s)] = g[Len(s)]
    <3>1. Len(s) \in 1 .. Len(s) /\ Len(s) <= Len(t) /\ Len(t) \in Nat /\ Len(s) \in Nat
      BY <1>1, <1>4
    <3>2. Same(s, t, Len(s))
      BY <1>1 DEF Same
    <3>3. Same(f, g, Len(s))
      BY <1>2, <2>1, <3>1, <3>2, RunsAgree
    <3> QED
      BY <3>1, <3>3 DEF Same
  <2>3. g[Len(t)] = g[Len(s)] \o x
    <3>1. Len(t) \in 1 .. Len(t) /\ Len(t) # 1 /\ Len(t) - 1 = Len(s)
      BY <1>1, <1>4
    <3>2. g[Len(t)] = g[Len(t) - 1] \o t[Len(t)]
      <4>1. Step(t, Len(t), g)
        BY <1>2, RunsStep
      <4> QED
        BY <3>1, <4>1, Zenon DEF Step
    <3> QED
      BY <1>1, <3>1, <3>2
  <2> QED
    BY <1>2, <2>1, <2>2, <2>3 DEF t
<1> QED
  BY <1>3, <1>4

IsFun(m, n) == m = [i \in 1 .. n |-> m[i]]

(* m is s and one more element, x. *)
Extends(m, s, x) == IsFun(m, Len(s) + 1) /\ Same(s, m, Len(s)) /\ m[Len(s) + 1] = x

(* A function that adds one element to a sequence. *)
LEMMA OneMore ==
  ASSUME NEW U, NEW s \in Seq(U), NEW x \in U, NEW m,
         Extends(m, s, x)
  PROVE  m = Append(s, x)
<1> DEFINE a == Append(s, x)
<1>1. a \in Seq(U) /\ Len(a) = Len(s) + 1 /\ Len(s) \in Nat
  OBVIOUS
<1>2. \A i \in 1 .. Len(s) + 1 : m[i] = a[i]
  BY DEF Same, Extends
<1> HIDE DEF a
<1>3. a \in [1 .. Len(s) + 1 -> U]
  BY <1>1
<1>4. a = [i \in 1 .. Len(s) + 1 |-> a[i]]
  BY <1>3, Zenon
<1>5. m = a
  BY <1>2, <1>4, Zenon DEF IsFun, Extends
<1> QED
  BY <1>5 DEF a

(* A sequence that is not empty ends with an element. *)
LEMMA FrontLast ==
  ASSUME NEW U, NEW s \in Seq(U), s # << >>
  PROVE  /\ Front(s) \in Seq(U) /\ Last(s) \in U /\ s = Append(Front(s), Last(s))
         /\ Len(Front(s)) = Len(s) - 1
<1> DEFINE n == Len(s)
<1> DEFINE t == SubSeq(s, 1, n - 1)
<1>1. n \in Nat /\ n # 0 /\ s[n] \in U
  OBVIOUS
<1>0. t \in Seq(U) /\ Len(t) = n - 1
  <2> DEFINE k == n - 1
  <2>1. k \in Nat /\ k <= Len(s)
    BY <1>1
  <2> HIDE DEF k
  <2>2. SubSeq(s, 1, k) \in Seq(U) /\ Len(SubSeq(s, 1, k)) = k
    BY <2>1
  <2> QED
    BY <2>2 DEF k
<1>2. \A i \in 1 .. n - 1 : t[i] = s[i]
  OBVIOUS
<1>3. s = Append(t, s[n])
  BY <1>0, <1>1, <1>2
<1> QED
  BY <1>0, <1>1, <1>3 DEF Front, Last

LEMMA FlatOne ==
  ASSUME NEW T, NEW x \in Seq(T)
  PROVE  FlattenSeq(<< x >>) = x
<1>1. << x >> = Append(<< >>, x) /\ << >> \in Seq(Seq(T))
  OBVIOUS
<1>2. FlattenSeq(<< x >>) = << >> \o x
  BY <1>1, FlatAppend, FlatEmpty, Zenon
<1> QED
  BY <1>2

LEMMA ConcatAssociative ==
  ASSUME NEW T, NEW s \in Seq(T), NEW t \in Seq(T), NEW u \in Seq(T)
  PROVE  (s \o t) \o u = s \o (t \o u)
<1> DEFINE l == (s \o t) \o u
<1> DEFINE r == s \o (t \o u)
<1>1. l \in Seq(T) /\ r \in Seq(T) /\ Len(l) = Len(r)
  OBVIOUS
<1>2. ASSUME NEW i \in 1 .. Len(l) PROVE l[i] = r[i]
  OBVIOUS
<1> HIDE DEF l, r
<1> QED
  BY <1>1, <1>2

Regroup(s, t, u) == (s \o t) \o u = s \o (t \o u)

LEMMA Regrouping ==
  ASSUME NEW T, NEW s, NEW t, NEW u, s \in Seq(T), t \in Seq(T), u \in Seq(T)
  PROVE  Regroup(s, t, u)
<1>1. (s \o t) \o u = s \o (t \o u)
  BY ConcatAssociative
<1> QED
  BY <1>1 DEF Regroup

LEMMA AppendToConcat ==
  ASSUME NEW T, NEW s \in Seq(T), NEW t \in Seq(T), NEW x \in T
  PROVE  s \o Append(t, x) = Append(s \o t, x)
<1> DEFINE l == s \o Append(t, x)
<1> DEFINE r == Append(s \o t, x)
<1>1. l \in Seq(T) /\ r \in Seq(T) /\ Len(l) = Len(r)
  OBVIOUS
<1>2. ASSUME NEW i \in 1 .. Len(l) PROVE l[i] = r[i]
  OBVIOUS
<1> HIDE DEF l, r
<1> QED
  BY <1>1, <1>2

(* Flattening distributes over concatenation. *)
LEMMA FlatConcat ==
  ASSUME NEW T, NEW s \in Seq(Seq(T)), NEW t \in Seq(Seq(T))
  PROVE  FlattenSeq(s \o t) = FlattenSeq(s) \o FlattenSeq(t)
<1> DEFINE S == {n \in Nat : n <= Len(t) =>
                   FlattenSeq(s \o SubSeq(t, 1, n)) = FlattenSeq(s) \o FlattenSeq(SubSeq(t, 1, n))}
<1>1. 0 \in S
  <2>1. SubSeq(t, 1, 0) = << >>
    OBVIOUS
  <2>2. s \o SubSeq(t, 1, 0) = s
    BY <2>1
  <2>3. FlattenSeq(s) \in Seq(T)
    BY FlatType
  <2>4. FlattenSeq(s) \o << >> = FlattenSeq(s)
    BY <2>3
  <2> QED
    BY <2>1, <2>2, <2>4, FlatEmpty
<1>2. ASSUME NEW n \in Nat, n \in S
      PROVE  n + 1 \in S
  <2> SUFFICES ASSUME n + 1 <= Len(t)
               PROVE  FlattenSeq(s \o SubSeq(t, 1, n + 1))
                        = FlattenSeq(s) \o FlattenSeq(SubSeq(t, 1, n + 1))
    OBVIOUS
  <2> DEFINE u == SubSeq(t, 1, n)
  <2> DEFINE x == t[n + 1]
  <2>1. u \in Seq(Seq(T)) /\ x \in Seq(T) /\ SubSeq(t, 1, n + 1) = Append(u, x)
    OBVIOUS
  <2>2. FlattenSeq(s \o u) = FlattenSeq(s) \o FlattenSeq(u)
    BY <1>2
  <2> HIDE DEF u, x
  <2>3. s \o u \in Seq(Seq(T)) /\ s \o Append(u, x) = Append(s \o u, x)
    <3> HIDE DEF S
    <3> DEFINE U == Seq(T)
    <3>1. s \in Seq(U) /\ u \in Seq(U) /\ x \in U
      BY <2>1
    <3> HIDE DEF U
    <3>2. s \o Append(u, x) = Append(s \o u, x)
      BY <3>1, AppendToConcat
    <3>3. s \o u \in Seq(U)
      BY <3>1
    <3> QED
      BY <3>2, <3>3 DEF U
  <2>4. /\ FlattenSeq(Append(s \o u, x)) = FlattenSeq(s \o u) \o x
        /\ FlattenSeq(Append(u, x)) = FlattenSeq(u) \o x
    BY <2>1, <2>3, FlatAppend
  <2>5. FlattenSeq(s) \in Seq(T) /\ FlattenSeq(u) \in Seq(T)
    BY <2>1, FlatType
  <2>6. (FlattenSeq(s) \o FlattenSeq(u)) \o x = FlattenSeq(s) \o (FlattenSeq(u) \o x)
    <3> HIDE DEF S
    <3> DEFINE a == FlattenSeq(s)
    <3> DEFINE b == FlattenSeq(u)
    <3>1. a \in Seq(T) /\ b \in Seq(T) /\ x \in Seq(T)
      BY <2>1, <2>5
    <3> HIDE DEF a, b
    <3>2. Regroup(a, b, x)
      BY <3>1, Regrouping
    <3> QED
      BY <3>2 DEF a, b, Regroup
  <2> QED
    BY <2>1, <2>2, <2>3, <2>4, <2>6
<1> HIDE DEF S
<1>3. Len(t) \in Nat /\ Len(t) \in S
  <2>1. Nat \subseteq S
    BY <1>1, <1>2, Induct
  <2> QED
    BY <2>1
<1>4. SubSeq(t, 1, Len(t)) = t
  OBVIOUS
<1>5. FlattenSeq(s \o SubSeq(t, 1, Len(t))) = FlattenSeq(s) \o FlattenSeq(SubSeq(t, 1, Len(t)))
  BY <1>3 DEF S
<1> QED
  BY <1>4, <1>5

(* What concatenates empty sequences is empty. *)
LEMMA FlatEmpties ==
  ASSUME NEW s, Len(s) \in Nat, s = [i \in 1 .. Len(s) |-> << >>]
  PROVE  FlattenSeq(s) = << >>
<1>1. CASE Len(s) = 0
  <2>1. s = << >>
    BY <1>1
  <2> QED
    BY <2>1, FlatEmpty
<1>2. CASE Len(s) # 0
  <2>1. PICK f : Runs(s, Len(s), f) /\ FlattenSeq(s) = f[Len(s)]
    BY <1>2, FlatRuns
  <2>2. Step(s, Len(s), f)
    BY <2>1, RunsStep
  <2> DEFINE S == {m \in Nat : m + 1 \in 1 .. Len(s) => f[m + 1] = << >>}
  <2>3. 0 \in S
    BY <2>2 DEF Step
  <2>4. ASSUME NEW m \in Nat, m \in S
        PROVE  m + 1 \in S
    <3> SUFFICES ASSUME m + 2 \in 1 .. Len(s)
                 PROVE  f[m + 2] = << >>
      OBVIOUS
    <3>1. f[m + 1] = << >>
      BY <2>4
    <3>2. (m + 2) - 1 = m + 1 /\ m + 2 # 1
      OBVIOUS
    <3>3. f[m + 2] = f[m + 1] \o s[m + 2] /\ s[m + 2] = << >>
      BY <2>2, <3>2 DEF Step
    <3> QED
      BY <3>1, <3>3
  <2> HIDE DEF S
  <2>5. Len(s) - 1 \in Nat /\ Len(s) - 1 \in S
    <3>1. Nat \subseteq S
      BY <2>3, <2>4, Induct
    <3> QED
      BY <1>2, <3>1
  <2> QED
    BY <1>2, <2>1, <2>5 DEF S
<1> QED
  BY <1>1, <1>2

(* The same, for a function that extends a sequence by one element. *)
LEMMA FlatOneMore ==
  ASSUME NEW T, NEW s, NEW x, NEW m, s \in Seq(Seq(T)), x \in Seq(T),
         Extends(m, s, x)
  PROVE  FlattenSeq(m) = FlattenSeq(s) \o x /\ FlattenSeq(s) \in Seq(T)
<1>1. m = Append(s, x)
  <2> DEFINE U == Seq(T)
  <2>1. s \in Seq(U) /\ x \in U
    OBVIOUS
  <2> HIDE DEF U
  <2> QED
    BY <2>1, OneMore
<1> QED
  BY <1>1, FlatAppend, FlatType

----------------------------------------------------------------------------
(* What the model says. *)

Id == ({"id"} \X Nat \X Nat) \cup ({"call"} \X Nat)
ArgPiece == ({"args"} \X Nat \X Nat) \cup {Closing, EmptyObject}
TextPartType == [type : {"text"}, text : Text]
CallPartType == [type : {"call"}, id : Id \cup {None}, name : Name, args : Seq(ArgPiece)]
Part == TextPartType \cup CallPartType

(* A part of an answer is a text or a call. *)
LEMMA PartCases ==
  ASSUME NEW p \in Part
  PROVE  /\ p.type \in {"text", "call"}
         /\ p.type = "text" => p \in TextPartType /\ p.text \in Seq(TextPiece)
         /\ p.type = "call" => p \in CallPartType /\ p.args \in Seq(ArgPiece)
BY DEF Part, TextPartType, CallPartType, Text

(* An answer with no part says nothing. *)
LEMMA NothingSaid == TextSaid(<< >>) = << >> /\ CallsOf(<< >>) = << >> /\ CountCalls(<< >>) = 0
<1>1. /\ [i \in DOMAIN << >> |-> IF << >>[i].type = "text" THEN << >>[i].text ELSE Blank] = << >>
      /\ [i \in DOMAIN << >> |-> IF << >>[i].type = "call" THEN << << >>[i] >> ELSE << >>] = << >>
  OBVIOUS
<1>2. {i \in DOMAIN << >> : << >>[i].type = "call"} = {}
  OBVIOUS
<1> QED
  BY <1>1, <1>2, FlatEmpty, FS_EmptySet DEF TextSaid, CallsOf, CountCalls

(* What one more part adds to the text that was said, to the calls, and to
   their number. *)
LEMMA SayOneMore ==
  ASSUME NEW parts, NEW p, parts \in Seq(Part), p \in Part
  PROVE  /\ TextSaid(parts) \in Seq(TextPiece)
         /\ TextSaid(Append(parts, p))
              = TextSaid(parts) \o (IF p.type = "text" THEN p.text ELSE << >>)
<1> DEFINE E(q) == IF q.type = "text" THEN q.text ELSE Blank
<1> DEFINE all == Append(parts, p)
<1> DEFINE s == [i \in DOMAIN parts |-> E(parts[i])]
<1> DEFINE m == [i \in DOMAIN all |-> E(all[i])]
<1>1. \A q \in Part : E(q) \in Seq(TextPiece)
  BY PartCases DEF Blank
<1>2. DOMAIN parts = 1 .. Len(parts) /\ Len(parts) \in Nat /\ \A i \in DOMAIN parts : parts[i] \in Part
  OBVIOUS
<1>3. /\ DOMAIN all = 1 .. Len(parts) + 1 /\ all[Len(parts) + 1] = p
      /\ \A i \in 1 .. Len(parts) : all[i] = parts[i]
  OBVIOUS
<1> HIDE DEF all, E
<1>4. s \in Seq(Seq(TextPiece)) /\ Len(s) = Len(parts)
  BY <1>1, <1>2
<1>5. Extends(m, s, E(p))
  BY <1>2, <1>3, <1>4 DEF Same, IsFun, Extends
<1>6. E(p) \in Seq(TextPiece)
  BY <1>1
<1>7. TextSaid(all) = FlattenSeq(m) /\ TextSaid(parts) = FlattenSeq(s)
  BY DEF TextSaid, E
<1> HIDE DEF s, m
<1>8. FlattenSeq(m) = FlattenSeq(s) \o E(p) /\ FlattenSeq(s) \in Seq(TextPiece)
  BY <1>4, <1>5, <1>6, FlatOneMore
<1> QED
  BY <1>7, <1>8 DEF all, E, Blank

LEMMA CallOneMore ==
  ASSUME NEW parts, NEW p, parts \in Seq(Part), p \in Part
  PROVE  /\ CallsOf(parts) \in Seq(CallPartType)
         /\ CallsOf(Append(parts, p))
              = CallsOf(parts) \o (IF p.type = "call" THEN << p >> ELSE << >>)
<1> DEFINE E(q) == IF q.type = "call" THEN << q >> ELSE << >>
<1> DEFINE all == Append(parts, p)
<1> DEFINE s == [i \in DOMAIN parts |-> E(parts[i])]
<1> DEFINE m == [i \in DOMAIN all |-> E(all[i])]
<1>1. \A q \in Part : E(q) \in Seq(CallPartType)
  BY PartCases
<1>2. DOMAIN parts = 1 .. Len(parts) /\ Len(parts) \in Nat /\ \A i \in DOMAIN parts : parts[i] \in Part
  OBVIOUS
<1>3. /\ DOMAIN all = 1 .. Len(parts) + 1 /\ all[Len(parts) + 1] = p
      /\ \A i \in 1 .. Len(parts) : all[i] = parts[i]
  OBVIOUS
<1> HIDE DEF all, E
<1>4. s \in Seq(Seq(CallPartType)) /\ Len(s) = Len(parts)
  BY <1>1, <1>2
<1>5. Extends(m, s, E(p))
  BY <1>2, <1>3, <1>4 DEF Same, IsFun, Extends
<1>6. E(p) \in Seq(CallPartType)
  BY <1>1
<1>7. CallsOf(all) = FlattenSeq(m) /\ CallsOf(parts) = FlattenSeq(s)
  BY DEF CallsOf, E
<1> HIDE DEF s, m
<1>8. FlattenSeq(m) = FlattenSeq(s) \o E(p) /\ FlattenSeq(s) \in Seq(CallPartType)
  BY <1>4, <1>5, <1>6, FlatOneMore
<1> QED
  BY <1>7, <1>8 DEF all, E

LEMMA CountOneMore ==
  ASSUME NEW parts, NEW p, parts \in Seq(Part), p \in Part
  PROVE  /\ CountCalls(parts) \in Nat
         /\ CountCalls(Append(parts, p)) = CountCalls(parts) + (IF p.type = "call" THEN 1 ELSE 0)
<1> DEFINE all == Append(parts, p)
<1> DEFINE s == {i \in DOMAIN parts : parts[i].type = "call"}
<1> DEFINE m == {i \in DOMAIN all : all[i].type = "call"}
<1> DEFINE last == Len(parts) + 1
<1>2. DOMAIN parts = 1 .. Len(parts) /\ Len(parts) \in Nat
  OBVIOUS
<1>3. /\ DOMAIN all = 1 .. last /\ all[last] = p
      /\ \A i \in 1 .. Len(parts) : all[i] = parts[i]
  OBVIOUS
<1> HIDE DEF all
<1>4. m = IF p.type = "call" THEN s \cup {last} ELSE s
  <2>1. \A i \in 1 .. last : i \in 1 .. Len(parts) \/ i = last
    BY <1>2
  <2>2. \A i \in 1 .. Len(parts) : i \in 1 .. last
    BY <1>2
  <2>3. last \in 1 .. last
    BY <1>2
  <2> HIDE DEF last
  <2> QED
    BY <1>2, <1>3, <2>1, <2>2, <2>3
<1>5. IsFiniteSet(s) /\ last \notin s
  <2>1. s \subseteq 1 .. Len(parts) /\ IsFiniteSet(1 .. Len(parts))
    BY <1>2, FS_Interval
  <2>2. last \notin s
    BY <1>2
  <2> HIDE DEF s
  <2> QED
    BY <2>1, <2>2, FS_Subset
<1>7. CountCalls(all) = Cardinality(m) /\ CountCalls(parts) = Cardinality(s)
  BY DEF CountCalls
<1> HIDE DEF s, m, last
<1>6. Cardinality(s) \in Nat /\ Cardinality(s \cup {last}) = Cardinality(s) + 1
  BY <1>5, FS_CardinalityType, FS_AddElement
<1> QED
  BY <1>4, <1>6, <1>7 DEF all

----------------------------------------------------------------------------
(* What was written to the client. *)

TextChunkType == [kind : {"text"}, text : Text]
CallChunkType ==
  [kind : {"call"}, index : Nat, id : Id \cup {None}, name : Name \cup {None}, args : Seq(ArgPiece)]
FinishChunkType == [kind : {"finish"}, reason : Reason \cup {None}]
Chunk ==
  [kind : {"role", "error", "done"}] \cup TextChunkType \cup CallChunkType \cup FinishChunkType

(* A chunk is of one of six kinds. *)
LEMMA ChunkCases ==
  ASSUME NEW c \in Chunk
  PROVE  /\ c.kind \in {"role", "text", "call", "finish", "error", "done"}
         /\ c.kind = "text" => c \in TextChunkType /\ c.text \in Seq(TextPiece)
         /\ c.kind = "call" =>
              c \in CallChunkType /\ c.index \in Nat /\ c.args \in Seq(ArgPiece)
         /\ c.kind = "finish" => c.reason \in Reason \cup {None}
BY DEF Chunk, TextChunkType, CallChunkType, FinishChunkType, Text

(* The text a client puts together. *)
TextWritten(chunks) ==
  FlattenSeq([k \in DOMAIN chunks |->
                IF chunks[k].kind = "text" THEN chunks[k].text ELSE Blank])

LEMMA Appended ==
  ASSUME NEW U, NEW o, NEW c, o \in Seq(U), c \in U
  PROVE  /\ Append(o, c) \in Seq(U)
         /\ DOMAIN o = 1 .. Len(o) /\ Len(o) \in Nat
         /\ DOMAIN Append(o, c) = 1 .. Len(o) + 1 /\ Append(o, c)[Len(o) + 1] = c
         /\ \A i \in 1 .. Len(o) : Append(o, c)[i] = o[i] /\ o[i] \in U
         /\ Len(Append(o, c)) = Len(o) + 1
OBVIOUS

(* What one more chunk adds to the text a client puts together, to the kinds
   and the indexes it has seen, and to the arguments of each call. *)
LEMMA NothingWritten ==
  TextWritten(<< >>) = << >> /\ Indexes(<< >>) = {} /\ Kinds(<< >>) = {}
<1>1. [k \in DOMAIN << >> |-> IF << >>[k].kind = "text" THEN << >>[k].text ELSE Blank] = << >>
  OBVIOUS
<1>2. ToSet(<< >>) = {}
  BY DEF ToSet
<1> QED
  BY <1>1, <1>2, FlatEmpty DEF TextWritten, Indexes, Kinds

LEMMA WriteText ==
  ASSUME NEW o, NEW c, o \in Seq(Chunk), c \in Chunk
  PROVE  /\ TextWritten(o) \in Seq(TextPiece)
         /\ TextWritten(Append(o, c))
              = TextWritten(o) \o (IF c.kind = "text" THEN c.text ELSE << >>)
<1> DEFINE E(q) == IF q.kind = "text" THEN q.text ELSE Blank
<1> DEFINE all == Append(o, c)
<1> DEFINE s == [i \in DOMAIN o |-> E(o[i])]
<1> DEFINE m == [i \in DOMAIN all |-> E(all[i])]
<1>1. \A q \in Chunk : E(q) \in Seq(TextPiece)
  BY ChunkCases DEF Blank
<1>2. DOMAIN o = 1 .. Len(o) /\ Len(o) \in Nat /\ \A i \in DOMAIN o : o[i] \in Chunk
  OBVIOUS
<1>3. /\ DOMAIN all = 1 .. Len(o) + 1 /\ all[Len(o) + 1] = c
      /\ \A i \in 1 .. Len(o) : all[i] = o[i]
  OBVIOUS
<1> HIDE DEF all, E
<1>4. s \in Seq(Seq(TextPiece)) /\ Len(s) = Len(o)
  BY <1>1, <1>2
<1>5. Extends(m, s, E(c))
  BY <1>2, <1>3, <1>4 DEF Same, IsFun, Extends
<1>6. E(c) \in Seq(TextPiece)
  BY <1>1
<1>7. TextWritten(all) = FlattenSeq(m) /\ TextWritten(o) = FlattenSeq(s)
  BY DEF TextWritten, E
<1> HIDE DEF s, m
<1>8. FlattenSeq(m) = FlattenSeq(s) \o E(c) /\ FlattenSeq(s) \in Seq(TextPiece)
  BY <1>4, <1>5, <1>6, FlatOneMore
<1> QED
  BY <1>7, <1>8 DEF all, E, Blank

LEMMA WriteSets ==
  ASSUME NEW o, NEW c, o \in Seq(Chunk), c \in Chunk
  PROVE  /\ Kinds(Append(o, c)) = Kinds(o) \cup {c.kind}
         /\ Indexes(Append(o, c)) = Indexes(o) \cup (IF c.kind = "call" THEN {c.index} ELSE {})
<1> DEFINE all == Append(o, c)
<1>1. ToSet(all) = ToSet(o) \cup {c}
  BY Appended DEF ToSet
<1> HIDE DEF all
<1>2. Kinds(all) = Kinds(o) \cup {c.kind}
  BY <1>1 DEF Kinds
<1>3. Indexes(all) = Indexes(o) \cup (IF c.kind = "call" THEN {c.index} ELSE {})
  BY <1>1 DEF Indexes
<1> QED
  BY <1>2, <1>3 DEF all

LEMMA HasIndex ==
  ASSUME NEW o, o \in Seq(Chunk), NEW i
  PROVE  i \in Indexes(o) <=> OfCall(o, i) # {}
BY DEF Indexes, OfCall, ToSet

(* The first chunk of a call, and the arguments of all its chunks. *)
FirstOf(S) == CHOOSE k \in S : \A j \in S : k <= j
ArgsAt(chunks, i) ==
  FlattenSeq([k \in DOMAIN chunks |-> IF k \in OfCall(chunks, i) THEN chunks[k].args ELSE << >>])

LEMMA CallParts ==
  ASSUME NEW o, NEW i
  PROVE  CallAt(o, i) = ToolCall(o[FirstOf(OfCall(o, i))].id, o[FirstOf(OfCall(o, i))].name, ArgsAt(o, i))
BY DEF CallAt, FirstOf, ArgsAt

(* The first chunk of a call is the least of its positions. *)
LEMMA FirstIs ==
  ASSUME NEW S, S \subseteq Nat, NEW k, k \in S, \A j \in S : k <= j
  PROVE  FirstOf(S) = k
<1>1. FirstOf(S) \in S /\ \A j \in S : FirstOf(S) <= j
  BY Zenon DEF FirstOf
<1>2. FirstOf(S) \in Nat /\ k \in Nat /\ FirstOf(S) <= k /\ k <= FirstOf(S)
  BY <1>1
<1> QED
  BY <1>2

LEMMA FirstExists ==
  ASSUME NEW S, S \subseteq Nat, S # {}
  PROVE  FirstOf(S) \in S /\ \A j \in S : FirstOf(S) <= j
<1>1. \E k \in S : \A j \in S : k <= j
  BY Least
<1> QED
  BY <1>1, Zenon DEF FirstOf

LEMMA OfCallOneMore ==
  ASSUME NEW o, NEW c, o \in Seq(Chunk), c \in Chunk, NEW i
  PROVE  /\ OfCall(o, i) \subseteq 1 .. Len(o)
         /\ OfCall(Append(o, c), i)
              = OfCall(o, i) \cup (IF c.kind = "call" /\ c.index = i THEN {Len(o) + 1} ELSE {})
<1> DEFINE all == Append(o, c)
<1>1. /\ DOMAIN o = 1 .. Len(o) /\ Len(o) \in Nat
      /\ DOMAIN all = 1 .. Len(o) + 1 /\ all[Len(o) + 1] = c
      /\ \A j \in 1 .. Len(o) : all[j] = o[j]
  BY Appended
<1> HIDE DEF all
<1>2. OfCall(o, i) \subseteq 1 .. Len(o)
  BY <1>1 DEF OfCall
<1>3. OfCall(all, i) = OfCall(o, i) \cup (IF c.kind = "call" /\ c.index = i THEN {Len(o) + 1} ELSE {})
  BY <1>1 DEF OfCall
<1> QED
  BY <1>2, <1>3 DEF all

LEMMA WriteArgs ==
  ASSUME NEW o, NEW c, o \in Seq(Chunk), c \in Chunk, NEW i
  PROVE  /\ ArgsAt(o, i) \in Seq(ArgPiece)
         /\ ArgsAt(Append(o, c), i)
              = ArgsAt(o, i) \o (IF c.kind = "call" /\ c.index = i THEN c.args ELSE << >>)
         /\ OfCall(o, i) = {} => ArgsAt(o, i) = << >>
<1> DEFINE all == Append(o, c)
<1> DEFINE s == [k \in DOMAIN o |-> IF k \in OfCall(o, i) THEN o[k].args ELSE << >>]
<1> DEFINE m == [k \in DOMAIN all |-> IF k \in OfCall(all, i) THEN all[k].args ELSE << >>]
<1> DEFINE more == IF c.kind = "call" /\ c.index = i THEN c.args ELSE << >>
<1>1. /\ DOMAIN o = 1 .. Len(o) /\ Len(o) \in Nat
      /\ DOMAIN all = 1 .. Len(o) + 1 /\ all[Len(o) + 1] = c
      /\ \A j \in 1 .. Len(o) : all[j] = o[j] /\ o[j] \in Chunk
  BY Appended
<1>2. /\ OfCall(o, i) \subseteq 1 .. Len(o)
      /\ OfCall(all, i)
           = OfCall(o, i) \cup (IF c.kind = "call" /\ c.index = i THEN {Len(o) + 1} ELSE {})
  BY OfCallOneMore
<1> HIDE DEF all
<1>3. \A k \in OfCall(o, i) : o[k].args \in Seq(ArgPiece)
  BY <1>1, ChunkCases DEF OfCall
<1>4. s \in Seq(Seq(ArgPiece)) /\ Len(s) = Len(o)
  BY <1>1, <1>3
<1>5. \A k \in 1 .. Len(o) : k \in OfCall(all, i) <=> k \in OfCall(o, i)
  BY <1>1, <1>2
<1>6. Len(o) + 1 \in OfCall(all, i) <=> (c.kind = "call" /\ c.index = i)
  BY <1>1, <1>2
<1>7. Extends(m, s, more)
  <2> HIDE DEF more
  <2>1. IsFun(m, Len(s) + 1) /\ \A k \in 1 .. Len(o) : m[k] = s[k]
    BY <1>1, <1>4, <1>5 DEF IsFun
  <2>2. m[Len(o) + 1] = more
    BY <1>1, <1>6 DEF more
  <2> QED
    BY <1>1, <1>4, <2>1, <2>2 DEF Same, Extends
<1>8. more \in Seq(ArgPiece)
  BY ChunkCases
<1>9. ArgsAt(all, i) = FlattenSeq(m) /\ ArgsAt(o, i) = FlattenSeq(s)
  BY DEF ArgsAt
<1>10. OfCall(o, i) = {} => s = [k \in 1 .. Len(s) |-> << >>]
  BY <1>1, <1>4
<1> HIDE DEF s, m, more
<1>11. FlattenSeq(m) = FlattenSeq(s) \o more /\ FlattenSeq(s) \in Seq(ArgPiece)
  BY <1>4, <1>7, <1>8, FlatOneMore
<1>12. OfCall(o, i) = {} => FlattenSeq(s) = << >>
  BY <1>4, <1>10, <1>1, FlatEmpties
<1> QED
  BY <1>9, <1>11, <1>12 DEF all, more

(* The fields of a chunk of a call. *)
LEMMA ChunkOfCall ==
  ASSUME NEW o, o \in Seq(Chunk), NEW k, k \in 1 .. Len(o), NEW c, c = o[k], c.kind = "call"
  PROVE  c.id \in Id \cup {None} /\ c.name \in Name \cup {None} /\ c.args \in Seq(ArgPiece)
<1>1. c \in Chunk
  OBVIOUS
<1>2. c \in CallChunkType
  BY <1>1, ChunkCases
<1> QED
  BY <1>2 DEF CallChunkType

(* A call as it is written: its first chunk names it, the others add
   arguments, and the chunks of other calls leave it alone. *)
LEMMA WriteCall ==
  ASSUME NEW o, NEW c, o \in Seq(Chunk), c \in Chunk, NEW i
  PROVE  /\ ~(c.kind = "call" /\ c.index = i) /\ i \in Indexes(o) =>
              CallAt(Append(o, c), i) = CallAt(o, i)
         /\ c.kind = "call" /\ c.index = i /\ i \in Indexes(o) =>
              CallAt(Append(o, c), i)
                = ToolCall(CallAt(o, i).id, CallAt(o, i).name, CallAt(o, i).args \o c.args)
         /\ c.kind = "call" /\ c.index = i /\ i \notin Indexes(o) =>
              CallAt(Append(o, c), i) = ToolCall(c.id, c.name, c.args)
<1> DEFINE all == Append(o, c)
<1> DEFINE own == OfCall(o, i)
<1> DEFINE mine == c.kind = "call" /\ c.index = i
<1>1. Len(o) \in Nat /\ all[Len(o) + 1] = c /\ \A j \in 1 .. Len(o) : all[j] = o[j]
  BY Appended
<1>2. /\ own \subseteq 1 .. Len(o)
      /\ OfCall(all, i) = own \cup (IF mine THEN {Len(o) + 1} ELSE {})
  BY OfCallOneMore
<1>3. /\ ArgsAt(o, i) \in Seq(ArgPiece)
      /\ ArgsAt(all, i) = ArgsAt(o, i) \o (IF mine THEN c.args ELSE << >>)
      /\ own = {} => ArgsAt(o, i) = << >>
  BY WriteArgs
<1>4. i \in Indexes(o) <=> own # {}
  BY HasIndex
<1>5. mine => c.args \in Seq(ArgPiece)
  BY ChunkCases
<1>6. /\ CallAt(o, i) = ToolCall(o[FirstOf(own)].id, o[FirstOf(own)].name, ArgsAt(o, i))
      /\ CallAt(all, i) = ToolCall(all[FirstOf(OfCall(all, i))].id,
                                   all[FirstOf(OfCall(all, i))].name, ArgsAt(all, i))
  BY CallParts
<1> HIDE DEF all, own, mine
<1>7. CASE own # {}
  <2>1. FirstOf(own) \in own /\ \A j \in own : FirstOf(own) <= j
    <3>1. own \subseteq Nat
      BY <1>1, <1>2
    <3> QED
      BY <1>7, <3>1, FirstExists
  <2>2. FirstOf(own) \in 1 .. Len(o)
    BY <1>2, <2>1
  <2>3. FirstOf(OfCall(all, i)) = FirstOf(own)
    <3>1. OfCall(all, i) \subseteq Nat
      <4>1. own \subseteq Nat /\ Len(o) + 1 \in Nat
        BY <1>1, <1>2
      <4>2. OfCall(all, i) \subseteq own \cup {Len(o) + 1}
        BY <1>2
      <4> QED
        BY <4>1, <4>2
    <3>2. \A j \in OfCall(all, i) : FirstOf(own) <= j
      BY <1>1, <1>2, <2>1, <2>2
    <3> QED
      BY <1>2, <2>1, <3>1, <3>2, FirstIs
  <2>4. all[FirstOf(own)] = o[FirstOf(own)]
    BY <1>1, <2>2
  <2>5. CallAt(o, i).id = o[FirstOf(own)].id /\ CallAt(o, i).name = o[FirstOf(own)].name
        /\ CallAt(o, i).args = ArgsAt(o, i)
    BY <1>6 DEF ToolCall
  <2>6. CallAt(all, i) = ToolCall(CallAt(o, i).id, CallAt(o, i).name, ArgsAt(all, i))
    BY <1>6, <2>3, <2>4, <2>5
  <2>7. CallAt(o, i) = ToolCall(CallAt(o, i).id, CallAt(o, i).name, ArgsAt(o, i))
    BY <1>6, <2>5
  <2>8. CASE mine
    <3>1. CallAt(all, i) = ToolCall(CallAt(o, i).id, CallAt(o, i).name, CallAt(o, i).args \o c.args)
      BY <1>3, <2>5, <2>6, <2>8
    <3> QED
      BY <1>4, <1>7, <2>8, <3>1 DEF all, mine
  <2>9. CASE ~mine
    <3>1. ArgsAt(all, i) = ArgsAt(o, i)
      BY <1>3, <2>9
    <3>2. CallAt(all, i) = CallAt(o, i)
      BY <2>6, <2>7, <3>1
    <3> QED
      BY <1>4, <1>7, <2>9, <3>2 DEF all, mine
  <2> QED
    BY <2>8, <2>9
<1>8. CASE own = {}
  <2>1. CASE mine
    <3>1. OfCall(all, i) = {Len(o) + 1}
      BY <1>2, <1>8, <2>1
    <3>2. FirstOf(OfCall(all, i)) = Len(o) + 1
      <4> DEFINE S == OfCall(all, i)
      <4> DEFINE n == Len(o) + 1
      <4>1. n \in Nat /\ S = {n}
        BY <1>1, <3>1
      <4> HIDE DEF S, n
      <4>2. S \subseteq Nat /\ n \in S /\ \A j \in S : n <= j
        BY <4>1
      <4>3. FirstOf(S) = n
        BY <4>2, FirstIs
      <4> QED
        BY <4>3 DEF S, n
    <3>3. ArgsAt(all, i) = c.args
      BY <1>3, <1>5, <1>8, <2>1
    <3>4. CallAt(all, i) = ToolCall(c.id, c.name, c.args)
      BY <1>1, <1>6, <3>2, <3>3
    <3> QED
      BY <1>4, <1>8, <2>1, <3>4 DEF all, mine
  <2>2. CASE ~mine
    BY <1>4, <1>8, <2>2 DEF mine
  <2> QED
    BY <2>1, <2>2
<1> QED
  BY <1>7, <1>8

----------------------------------------------------------------------------
(* A well-formed stream, chunk by chunk, and what it lacks when events were
   missed: the role when message_start was, the announcement of a call when a
   content_block_start was. *)

Headless(missed) == "message_start" \in missed
Garbled(missed) == "content_block_start" \in missed

(* A stream that missed an event has missed it when more are missed. *)
LEMMA MissingMore ==
  ASSUME NEW missed, NEW kind
  PROVE  /\ Headless(missed) => Headless(missed \cup {kind})
         /\ Garbled(missed) => Garbled(missed \cup {kind})
         /\ Headless(missed \cup {"message_start"})
         /\ Garbled(missed \cup {"content_block_start"})
         /\ ~Headless(missed) => ~Headless(missed \cup {"content_block_start"})
         /\ ~Garbled(missed) /\ kind # "content_block_start" => ~Garbled(missed \cup {kind})
BY DEF Headless, Garbled

Rules(o, missed, i) ==
  /\ o[i].kind = "role" => i = 1
  /\ o[i].kind \in {"text", "call"} => Headless(missed) \/ o[1].kind = "role"
  /\ o[i].kind = "done" => i = Len(o)
  /\ o[i].kind \in {"finish", "error"} => \A j \in i + 1 .. Len(o) : o[j].kind = "done"
  /\ o[i].kind = "call" =>
       LET earlier == Indexes(SubSeq(o, 1, i - 1))
       IN IF o[i].index \in earlier THEN ~Announces(o[i])
          ELSE /\ o[i].index = Cardinality(earlier)
               /\ ~Garbled(missed) => Announces(o[i])

WellFormed(o, missed) == \A i \in DOMAIN o : Rules(o, missed, i)

(* What may be written after what was written. *)
MayFollow(o, missed, c) ==
  /\ c.kind = "role" => o = << >>
  /\ c.kind \in {"text", "call"} => Headless(missed) \/ (o # << >> /\ o[1].kind = "role")
  /\ "done" \notin Kinds(o)
  /\ c.kind # "done" => "finish" \notin Kinds(o) /\ "error" \notin Kinds(o)
  /\ c.kind = "call" =>
       IF c.index \in Indexes(o) THEN ~Announces(c)
       ELSE /\ c.index = Cardinality(Indexes(o))
            /\ ~Garbled(missed) => Announces(c)

(* A stream with no chunk is well formed. *)
LEMMA WellFormedNothing == \A missed : WellFormed(<< >>, missed)
BY DEF WellFormed

LEMMA WellFormedMissing ==
  ASSUME NEW o, NEW missed, NEW kind, WellFormed(o, missed)
  PROVE  WellFormed(o, missed \cup {kind})
<1> DEFINE more == missed \cup {kind}
<1>1. (Headless(missed) => Headless(more)) /\ (Garbled(missed) => Garbled(more))
  BY MissingMore
<1> HIDE DEF more
<1>2. WellFormed(o, more)
  BY <1>1 DEF WellFormed, Rules
<1> QED
  BY <1>2 DEF more

LEMMA KindsAre ==
  ASSUME NEW o, o \in Seq(Chunk), NEW k
  PROVE  k \notin Kinds(o) <=> \A i \in 1 .. Len(o) : o[i].kind # k
BY DEF Kinds, ToSet

SamePrefixes(s, t) == \A i \in 1 .. Len(s) : SubSeq(t, 1, i - 1) = SubSeq(s, 1, i - 1)

LEMMA PrefixesKept ==
  ASSUME NEW U, NEW o, NEW c, o \in Seq(U), c \in U
  PROVE  SubSeq(Append(o, c), 1, Len(o)) = o /\ SamePrefixes(o, Append(o, c))
<1>1. SubSeq(Append(o, c), 1, Len(o)) = o
  OBVIOUS
<1>2. ASSUME NEW i \in 1 .. Len(o)
      PROVE  SubSeq(Append(o, c), 1, i - 1) = SubSeq(o, 1, i - 1)
  <2> DEFINE k == i - 1
  <2>1. k \in Nat /\ k <= Len(o)
    OBVIOUS
  <2> HIDE DEF k
  <2>2. SubSeq(Append(o, c), 1, k) = SubSeq(o, 1, k)
    BY <2>1
  <2> QED
    BY <2>2 DEF k
<1> QED
  BY <1>1, <1>2 DEF SamePrefixes

(* A well-formed stream stays so when the next chunk may follow it. *)
LEMMA WriteOneMore ==
  ASSUME NEW o, NEW c, NEW missed, o \in Seq(Chunk), c \in Chunk,
         WellFormed(o, missed), MayFollow(o, missed, c)
  PROVE  WellFormed(Append(o, c), missed)
<1> DEFINE all == Append(o, c)
<1>1. /\ DOMAIN o = 1 .. Len(o) /\ Len(o) \in Nat /\ Len(all) = Len(o) + 1
      /\ DOMAIN all = 1 .. Len(o) + 1 /\ all[Len(o) + 1] = c
      /\ \A j \in 1 .. Len(o) : all[j] = o[j]
  BY Appended
<1>2. /\ SubSeq(all, 1, Len(o)) = o
      /\ \A i \in 1 .. Len(o) : SubSeq(all, 1, i - 1) = SubSeq(o, 1, i - 1)
  <2>1. SubSeq(all, 1, Len(o)) = o /\ SamePrefixes(o, all)
    BY PrefixesKept
  <2> HIDE DEF all
  <2> QED
    BY <2>1 DEF SamePrefixes
<1>3. \A i \in 1 .. Len(o) : o[i].kind # "done"
  BY KindsAre DEF MayFollow
<1>4. c.kind # "done" => \A i \in 1 .. Len(o) : o[i].kind \notin {"finish", "error"}
  BY KindsAre DEF MayFollow
<1> HIDE DEF all
<1>5. ASSUME NEW i \in 1 .. Len(o)
      PROVE  Rules(all, missed, i)
  <2>1. Rules(o, missed, i)
    BY <1>1 DEF WellFormed
  <2>2. all[i] = o[i] /\ all[1] = o[1] /\ SubSeq(all, 1, i - 1) = SubSeq(o, 1, i - 1)
    BY <1>1, <1>2
  <2>3. all[i].kind = "role" => i = 1
    BY <2>1, <2>2 DEF Rules
  <2>4. all[i].kind \in {"text", "call"} => Headless(missed) \/ all[1].kind = "role"
    BY <2>1, <2>2 DEF Rules
  <2>5. all[i].kind # "done"
    BY <1>3, <2>2
  <2>6. ASSUME all[i].kind \in {"finish", "error"}, NEW j \in i + 1 .. Len(all)
        PROVE  all[j].kind = "done"
    <3>1. CASE j = Len(o) + 1
      BY <1>1, <1>4, <2>2, <2>6, <3>1
    <3>2. CASE j # Len(o) + 1
      <4>1. j \in i + 1 .. Len(o) /\ j \in 1 .. Len(o)
        BY <1>1, <3>2
      <4> QED
        BY <1>1, <2>1, <2>2, <2>6, <4>1 DEF Rules
    <3> QED
      BY <3>1, <3>2
  <2>7. all[i].kind = "call" =>
          LET earlier == Indexes(SubSeq(all, 1, i - 1))
          IN IF all[i].index \in earlier THEN ~Announces(all[i])
             ELSE /\ all[i].index = Cardinality(earlier)
                  /\ ~Garbled(missed) => Announces(all[i])
    BY <2>1, <2>2 DEF Rules
  <2> QED
    BY <2>3, <2>4, <2>5, <2>6, <2>7 DEF Rules
<1>6. Rules(all, missed, Len(o) + 1)
  <2> DEFINE n == Len(o) + 1
  <2>1. n \in Nat /\ n - 1 = Len(o) /\ n = Len(all) /\ all[n] = c
    BY <1>1
  <2>2. c.kind = "role" => n = 1
    BY <1>1 DEF MayFollow
  <2>3. c.kind \in {"text", "call"} => Headless(missed) \/ all[1].kind = "role"
    <3>1. o # << >> => all[1] = o[1]
      BY <1>1
    <3> QED
      BY <3>1 DEF MayFollow
  <2>4. \A j \in n + 1 .. Len(all) : FALSE
    BY <1>1
  <2>5. c.kind = "call" =>
          LET earlier == Indexes(SubSeq(all, 1, n - 1))
          IN IF c.index \in earlier THEN ~Announces(c)
             ELSE /\ c.index = Cardinality(earlier)
                  /\ ~Garbled(missed) => Announces(c)
    BY <1>2, <2>1 DEF MayFollow
  <2> HIDE DEF n
  <2>6. Rules(all, missed, n)
    BY <2>1, <2>2, <2>3, <2>4, <2>5 DEF Rules
  <2> QED
    BY <2>6 DEF n
<1> QED
  BY <1>1, <1>5, <1>6 DEF WellFormed, all

(* To replace the last element is to append to all but the last. *)
LEMMA ChangeLast ==
  ASSUME NEW U, NEW s, NEW x, s \in Seq(U), x \in U, s # << >>
  PROVE  [s EXCEPT ![Len(s)] = x] = Append(Front(s), x)
<1> DEFINE l == [s EXCEPT ![Len(s)] = x]
<1> DEFINE f == Front(s)
<1>1. /\ f \in Seq(U) /\ Len(f) = Len(s) - 1 /\ s = Append(f, Last(s)) /\ Len(s) \in Nat
      /\ Len(s) # 0
  BY FrontLast
<1>2. l \in Seq(U) /\ Len(l) = Len(s) /\ l[Len(s)] = x
      /\ \A i \in 1 .. Len(s) - 1 : l[i] = s[i]
  OBVIOUS
<1> HIDE DEF l, f
<1>3. \A i \in 1 .. Len(s) - 1 : s[i] = f[i]
  BY <1>1
<1>4. l = Append(f, x)
  BY <1>1, <1>2, <1>3
<1> QED
  BY <1>4 DEF l, f

----------------------------------------------------------------------------
(* What was written is what the model said. *)

(* The call a client should end up with for the i-th the model made: one
   without an id is numbered. *)
HeardCall(c, i) ==
  ToolCall(IF c.id = None THEN << "call", i - 1 >> ELSE c.id, c.name, c.args)

CarriesCalls(o, calls) == \A i \in 1 .. Len(calls) : CallAt(o, i - 1) = HeardCall(calls[i], i)

(* n calls were written. *)
Carries(o, parts, n, missed) ==
  /\ Indexes(o) = 0 .. n - 1
  /\ TextWritten(o) = TextSaid(parts)
  /\ "text" \notin Kinds(o) => TextWritten(o) = << >>
  /\ ~Garbled(missed) => n = Len(CallsOf(parts)) /\ CarriesCalls(o, CallsOf(parts))

(* A stream with no chunk carries an answer with no part; a chunk that is
   neither text nor call carries nothing. *)
LEMMA CarriesNothing == \A missed : Carries(<< >>, << >>, 0, missed)
<1>1. 0 .. 0 - 1 = {} /\ Len(<< >>) = 0 /\ \A i \in 1 .. 0 : FALSE
  OBVIOUS
<1> QED
  BY <1>1, NothingSaid, NothingWritten DEF Carries, CarriesCalls

LEMMA CarriesMissing ==
  ASSUME NEW o, NEW parts, NEW n, NEW missed, NEW kind, Carries(o, parts, n, missed)
  PROVE  Carries(o, parts, n, missed \cup {kind})
BY MissingMore DEF Carries

LEMMA CarriesOther ==
  ASSUME NEW o, NEW parts, NEW n, NEW missed, NEW c, o \in Seq(Chunk), parts \in Seq(Part),
         n \in Nat, Carries(o, parts, n, missed), c \in Chunk, c.kind \notin {"text", "call"}
  PROVE  Carries(Append(o, c), parts, n, missed)
<1>1. /\ Indexes(Append(o, c)) = Indexes(o)
      /\ Kinds(Append(o, c)) = Kinds(o) \cup {c.kind}
  BY WriteSets
<1>2. TextWritten(Append(o, c)) = TextWritten(o)
  BY WriteText
<1>3. ASSUME ~Garbled(missed)
      PROVE  CarriesCalls(Append(o, c), CallsOf(parts))
  <2>1. n = Len(CallsOf(parts)) /\ CarriesCalls(o, CallsOf(parts)) /\ Indexes(o) = 0 .. n - 1
    BY <1>3 DEF Carries
  <2>2. ASSUME NEW i \in 1 .. Len(CallsOf(parts))
        PROVE  CallAt(Append(o, c), i - 1) = CallAt(o, i - 1)
    <3>1. i - 1 \in Indexes(o)
      BY <2>1
    <3> QED
      BY <3>1, WriteCall
  <2> QED
    BY <2>1, <2>2 DEF CarriesCalls
<1> QED
  BY <1>1, <1>2, <1>3 DEF Carries

(* Text: a part of its own, or more of the last part. *)
LEMMA CarriesText ==
  ASSUME NEW o, NEW parts, NEW after, NEW n, NEW missed, NEW t,
         o \in Seq(Chunk), n \in Nat, t \in Seq(TextPiece), Carries(o, parts, n, missed),
         TextSaid(after) = TextSaid(parts) \o t, CallsOf(after) = CallsOf(parts)
  PROVE  TextChunk(t) \in Chunk /\ Carries(Append(o, TextChunk(t)), after, n, missed)
<1> DEFINE c == TextChunk(t)
<1>1. c \in Chunk /\ c.kind = "text" /\ c.text = t
  BY DEF TextChunk, Chunk, TextChunkType, Text
<1> HIDE DEF c
<1>2. Indexes(Append(o, c)) = Indexes(o) /\ Kinds(Append(o, c)) = Kinds(o) \cup {"text"}
  BY <1>1, WriteSets
<1>3. TextWritten(Append(o, c)) = TextWritten(o) \o t
  BY <1>1, WriteText
<1>4. ASSUME ~Garbled(missed)
      PROVE  CarriesCalls(Append(o, c), CallsOf(parts))
  <2>1. n = Len(CallsOf(parts)) /\ CarriesCalls(o, CallsOf(parts)) /\ Indexes(o) = 0 .. n - 1
    BY <1>4 DEF Carries
  <2>2. ASSUME NEW i \in 1 .. Len(CallsOf(parts))
        PROVE  CallAt(Append(o, c), i - 1) = CallAt(o, i - 1)
    <3>1. i - 1 \in Indexes(o)
      BY <2>1
    <3> QED
      BY <1>1, <3>1, WriteCall
  <2> QED
    BY <2>1, <2>2 DEF CarriesCalls
<1>5. Carries(Append(o, c), after, n, missed)
  BY <1>2, <1>3, <1>4 DEF Carries
<1> QED
  BY <1>1, <1>5 DEF c

(* The fields of a chunk that begins a call, and of one that adds to its
   arguments. *)
LEMMA CallChunkIs ==
  ASSUME NEW i \in Nat, NEW id \in Id \cup {None}, NEW name \in Name \cup {None},
         NEW args \in Seq(ArgPiece)
  PROVE  /\ CallChunk(i, id, name, args) \in Chunk
         /\ CallChunk(i, id, name, args).kind = "call"
         /\ CallChunk(i, id, name, args).index = i
         /\ CallChunk(i, id, name, args).id = id
         /\ CallChunk(i, id, name, args).name = name
         /\ CallChunk(i, id, name, args).args = args
BY DEF CallChunk, Chunk, CallChunkType

(* A call begins. *)
LEMMA CarriesCall ==
  ASSUME NEW o, NEW parts, NEW n, NEW missed, NEW p, NEW id,
         o \in Seq(Chunk), parts \in Seq(Part), n \in Nat, Carries(o, parts, n, missed),
         p \in CallPartType, id \in Id, id = IF p.id = None THEN << "call", n >> ELSE p.id
  PROVE  /\ CallChunk(n, id, p.name, p.args) \in Chunk
         /\ Carries(Append(o, CallChunk(n, id, p.name, p.args)), Append(parts, p), n + 1, missed)
<1> DEFINE c == CallChunk(n, id, p.name, p.args)
<1> DEFINE all == Append(o, c)
<1> DEFINE calls == CallsOf(parts)
<1>1. p.type = "call" /\ p.name \in Name /\ p.args \in Seq(ArgPiece) /\ p \in Part
  BY DEF CallPartType, Part
<1>2. /\ c \in Chunk /\ c.kind = "call" /\ c.index = n /\ c.id = id /\ c.name = p.name
      /\ c.args = p.args
  BY <1>1, CallChunkIs
<1>3. calls \in Seq(CallPartType) /\ CallsOf(Append(parts, p)) = calls \o << p >>
  BY <1>1, CallOneMore
<1>4. TextSaid(parts) \in Seq(TextPiece) /\ TextSaid(Append(parts, p)) = TextSaid(parts) \o << >>
  BY <1>1, SayOneMore
<1> HIDE DEF c, calls
<1>5. Indexes(all) = Indexes(o) \cup {n} /\ Kinds(all) = Kinds(o) \cup {"call"}
  BY <1>2, WriteSets
<1>6. TextWritten(o) \in Seq(TextPiece) /\ TextWritten(all) = TextWritten(o) \o << >>
  BY <1>2, WriteText
<1>7. Indexes(o) = 0 .. n - 1
  BY DEF Carries
<1>8. Indexes(all) = 0 .. (n + 1) - 1
  BY <1>5, <1>7
<1>9. TextWritten(all) = TextSaid(Append(parts, p)) /\ TextWritten(all) = TextWritten(o)
  BY <1>4, <1>6 DEF Carries
<1>10. ASSUME ~Garbled(missed)
       PROVE  n + 1 = Len(calls \o << p >>) /\ CarriesCalls(all, calls \o << p >>)
  <2>1. n = Len(calls) /\ CarriesCalls(o, calls)
    BY <1>10 DEF Carries, calls
  <2>2. Len(calls \o << p >>) = n + 1 /\ (calls \o << p >>)[n + 1] = p
        /\ \A i \in 1 .. n : (calls \o << p >>)[i] = calls[i]
    BY <1>3, <2>1
  <2>3. ASSUME NEW i \in 1 .. n
        PROVE  CallAt(all, i - 1) = HeardCall(calls[i], i)
    <3>1. i - 1 \in Indexes(o) /\ i - 1 # n
      BY <1>7
    <3>2. CallAt(all, i - 1) = CallAt(o, i - 1)
      BY <1>2, <3>1, WriteCall
    <3> QED
      BY <2>1, <3>2 DEF CarriesCalls
  <2>4. CallAt(all, n) = HeardCall(p, n + 1)
    <3>1. n \notin Indexes(o)
      BY <1>7
    <3>2. CallAt(all, n) = ToolCall(id, p.name, p.args)
      BY <1>2, <3>1, WriteCall
    <3>3. (n + 1) - 1 = n
      OBVIOUS
    <3> QED
      BY <3>2, <3>3 DEF HeardCall
  <2> HIDE DEF all
  <2>5. \A i \in 1 .. n + 1 : i \in 1 .. n \/ i = n + 1
    OBVIOUS
  <2>6. (n + 1) - 1 = n
    OBVIOUS
  <2> QED
    BY <2>2, <2>3, <2>4, <2>5, <2>6 DEF CarriesCalls
<1> HIDE DEF all
<1>11. "text" \notin Kinds(all) => TextWritten(all) = << >>
  BY <1>5, <1>9 DEF Carries
<1>12. Carries(all, Append(parts, p), n + 1, missed)
  BY <1>3, <1>8, <1>9, <1>10, <1>11 DEF Carries
<1> QED
  BY <1>2, <1>12 DEF c, all

LEMMA MoreIs ==
  ASSUME NEW i, i \in Nat, NEW args, args \in Seq(ArgPiece)
  PROVE  /\ CallChunk(i, None, None, args) \in Chunk
         /\ CallChunk(i, None, None, args).kind = "call"
         /\ CallChunk(i, None, None, args).index = i
         /\ CallChunk(i, None, None, args).args = args
         /\ ~Announces(CallChunk(i, None, None, args))
<1>1. None \in Id \cup {None} /\ None \in Name \cup {None}
  OBVIOUS
<1> DEFINE c == CallChunk(i, None, None, args)
<1>2. c \in Chunk /\ c.kind = "call" /\ c.index = i /\ c.id = None /\ c.args = args
  BY <1>1 DEF CallChunk, Chunk, CallChunkType
<1> HIDE DEF c
<1>3. ~Announces(c)
  BY <1>2 DEF Announces
<1> QED
  BY <1>2, <1>3 DEF c

(* More of the arguments of the call that was begun last. *)
LEMMA CarriesArguments ==
  ASSUME NEW o, NEW before, NEW p, NEW n, NEW missed, NEW args, ~Garbled(missed),
         o \in Seq(Chunk), before \in Seq(Part), p \in CallPartType, n \in Nat,
         args \in Seq(ArgPiece), Carries(o, Append(before, p), n, missed)
  PROVE  /\ n # 0
         /\ Carries(Append(o, CallChunk(n - 1, None, None, args)),
                    Append(before, [p EXCEPT !.args = @ \o args]), n, missed)
<1> DEFINE q == [p EXCEPT !.args = @ \o args]
<1> DEFINE c == CallChunk(n - 1, None, None, args)
<1> DEFINE all == Append(o, c)
<1> DEFINE calls == CallsOf(before)
<1>1. /\ p.type = "call" /\ p.args \in Seq(ArgPiece) /\ p \in Part
      /\ q \in CallPartType /\ q \in Part /\ q.type = "call"
      /\ q.id = p.id /\ q.name = p.name /\ q.args = p.args \o args
  <2>1. p.type = "call" /\ p.args \in Seq(ArgPiece) /\ p \in Part
    BY DEF CallPartType, Part
  <2>2. p.args \o args \in Seq(ArgPiece)
    BY <2>1
  <2>3. /\ q \in CallPartType /\ q.type = "call"
        /\ q.id = p.id /\ q.name = p.name /\ q.args = p.args \o args
    BY <2>2 DEF CallPartType
  <2> QED
    BY <2>1, <2>3 DEF Part
<1> HIDE DEF q
<1>2. /\ calls \in Seq(CallPartType)
      /\ CallsOf(Append(before, p)) = calls \o << p >>
      /\ CallsOf(Append(before, q)) = calls \o << q >>
  BY <1>1, CallOneMore
<1>3. /\ TextSaid(before) \in Seq(TextPiece)
      /\ TextSaid(Append(before, p)) = TextSaid(before) \o << >>
      /\ TextSaid(Append(before, q)) = TextSaid(before) \o << >>
  BY <1>1, SayOneMore
<1> HIDE DEF calls
<1>4. /\ n = Len(calls \o << p >>) /\ CarriesCalls(o, calls \o << p >>)
      /\ Indexes(o) = 0 .. n - 1 /\ TextWritten(o) = TextSaid(Append(before, p))
      /\ "text" \notin Kinds(o) => TextWritten(o) = << >>
  BY <1>2 DEF Carries
<1>5. Len(calls) \in Nat /\ n = Len(calls) + 1 /\ n # 0 /\ n - 1 \in Nat
  BY <1>2, <1>4
<1>6. c \in Chunk /\ c.kind = "call" /\ c.index = n - 1 /\ c.args = args
  BY <1>5, MoreIs
<1> HIDE DEF c
<1>7. Indexes(all) = 0 .. n - 1 /\ Kinds(all) = Kinds(o) \cup {"call"}
  <2>1. Indexes(all) = Indexes(o) \cup {n - 1} /\ Kinds(all) = Kinds(o) \cup {"call"}
    BY <1>6, WriteSets
  <2>2. 0 .. n - 1 = (0 .. n - 1) \cup {n - 1}
    BY <1>5
  <2> QED
    BY <1>4, <2>1, <2>2
<1>8. TextWritten(o) \in Seq(TextPiece) /\ TextWritten(all) = TextWritten(o) \o << >>
  BY <1>6, WriteText
<1>9. /\ Len(calls \o << q >>) = n /\ (calls \o << q >>)[n] = q /\ (calls \o << p >>)[n] = p
      /\ \A i \in 1 .. n - 1 : (calls \o << q >>)[i] = (calls \o << p >>)[i]
  BY <1>2, <1>5
<1>10. ASSUME NEW i \in 1 .. n - 1
       PROVE  CallAt(all, i - 1) = HeardCall((calls \o << q >>)[i], i)
  <2>1. i - 1 \in Indexes(o) /\ i - 1 # n - 1 /\ i \in 1 .. n
    BY <1>4, <1>5
  <2>2. CallAt(all, i - 1) = CallAt(o, i - 1)
    BY <1>6, <2>1, WriteCall
  <2>3. CallAt(o, i - 1) = HeardCall((calls \o << p >>)[i], i)
    BY <1>4, <2>1 DEF CarriesCalls
  <2> QED
    BY <1>9, <2>2, <2>3
<1>11. CallAt(all, n - 1) = HeardCall(q, n)
  <2>1. n - 1 \in Indexes(o) /\ n \in 1 .. n
    BY <1>4, <1>5
  <2>2. CallAt(o, n - 1) = HeardCall(p, n)
    BY <1>4, <1>9, <2>1 DEF CarriesCalls
  <2>3. CallAt(all, n - 1)
          = ToolCall(CallAt(o, n - 1).id, CallAt(o, n - 1).name, CallAt(o, n - 1).args \o args)
    BY <1>6, <2>1, WriteCall
  <2>4. CallAt(o, n - 1).id = (IF p.id = None THEN << "call", n - 1 >> ELSE p.id)
        /\ CallAt(o, n - 1).name = p.name /\ CallAt(o, n - 1).args = p.args
    BY <2>2 DEF HeardCall, ToolCall
  <2>5. CallAt(all, n - 1)
          = ToolCall(IF q.id = None THEN << "call", n - 1 >> ELSE q.id, q.name, q.args)
    BY <1>1, <2>3, <2>4
  <2> QED
    BY <2>5 DEF HeardCall
<1>12. CarriesCalls(all, calls \o << q >>)
  <2>1. \A i \in 1 .. n : i \in 1 .. n - 1 \/ i = n
    BY <1>5
  <2> HIDE DEF all
  <2> QED
    BY <1>9, <1>10, <1>11, <2>1 DEF CarriesCalls
<1> HIDE DEF all
<1>13. TextWritten(all) = TextWritten(o)
  BY <1>8
<1>14. Carries(all, Append(before, q), n, missed)
  BY <1>2, <1>3, <1>4, <1>7, <1>9, <1>12, <1>13 DEF Carries
<1> QED
  BY <1>5, <1>14 DEF all, c, q

(* When an event was lost only the texts and the numbers are kept: a call the
   client does not hear of, and arguments of a call with any number. *)
LEMMA GarbledPart ==
  ASSUME NEW o, NEW before, NEW after, NEW n, NEW missed, Carries(o, before, n, missed),
         TextSaid(after) = TextSaid(before)
  PROVE  Carries(o, after, n, missed \cup {"content_block_start"})
BY MissingMore DEF Carries

(* A stream that lost an event keeps its numbering. *)
LEMMA GarbledChunk ==
  ASSUME NEW o, NEW parts, NEW n, NEW missed, NEW c, Garbled(missed), o \in Seq(Chunk), n \in Nat,
         Carries(o, parts, n, missed), c \in Chunk, c.kind = "call"
  PROVE  /\ c.index \in 0 .. n - 1 => Carries(Append(o, c), parts, n, missed)
         /\ c.index = n => Carries(Append(o, c), parts, n + 1, missed)
<1>1. /\ Indexes(Append(o, c)) = Indexes(o) \cup {c.index}
      /\ Kinds(Append(o, c)) = Kinds(o) \cup {"call"}
  BY WriteSets
<1>2. TextWritten(Append(o, c)) = TextWritten(o)
  BY WriteText
<1>3. c.index = n => Indexes(o) \cup {c.index} = 0 .. (n + 1) - 1
  BY DEF Carries
<1>4. c.index \in 0 .. n - 1 => Indexes(o) \cup {c.index} = 0 .. n - 1
  BY DEF Carries
<1> QED
  BY <1>1, <1>2, <1>3, <1>4 DEF Carries

----------------------------------------------------------------------------
(* Types. *)

SaidType ==
  [parts : Seq(Part), reason : Reason \cup {None}, begun : BOOLEAN, missed : SUBSET Event]
Call == [id : Id \cup {None}, name : Name \cup {None}, args : Seq(ArgPiece)]
Msg ==
  [role : Role \cup {Unknown}, content : Content,
   calls : Seq(Call), answers : Id \cup {None}, name : Name \cup {None}]

GeminiTr == [roleSent : BOOLEAN, next : Nat, finish : Reason \cup {None}]
Numbering == UNION {[S -> Nat] : S \in SUBSET Nat}
AnthropicTr == [index : Numbering, next : Nat, finish : Reason \cup {None}]

Typed ==
  /\ phase \in {"idle", "open", "ended", "refused"}
  /\ asked \in [proto : Protocol, streaming : BOOLEAN]
  /\ params \in {[choice |-> r.choice, stop |-> r.stop] : r \in Requests}
  /\ outcome \in {"none", "ok", "failed"}
  /\ used \in [turns : 0 .. MaxTurns, parts : 0 .. MaxParts, lost : 0 .. MaxLost]
  /\ said \in SaidType
  /\ out \in Seq(Chunk)
  /\ phase \in {"open", "ended"} =>
       IF asked.proto = "gemini" THEN tr \in GeminiTr ELSE tr \in AnthropicTr
  /\ conv \in Seq(Msg)

(* What the assumption on the constants says. *)
LEMMA Bounds ==
  /\ MaxTurns \in Nat /\ MaxParts \in Nat /\ MaxLost \in Nat
  /\ Protocol \subseteq {"anthropic", "gemini", "openai"} /\ Protocol # {}
  /\ None \notin Name /\ None \notin Id /\ None \notin Reason /\ Unknown \notin Role
  /\ Image \notin Text /\ Unknown \notin Text
  /\ None \notin Seq(Text \cup {Image, Unknown})
BY TranslationAssumption DEF TranslationAssumption, Id

(* The fields of what the model said, by their names. *)
LEMMA SaidFields ==
  ASSUME Typed
  PROVE  /\ said = [parts |-> said.parts, reason |-> said.reason,
                    begun |-> said.begun, missed |-> said.missed]
         /\ said.parts \in Seq(Part) /\ said.reason \in Reason \cup {None}
         /\ said.begun \in BOOLEAN /\ said.missed \in SUBSET Event
         /\ asked.proto \in {"anthropic", "gemini", "openai"} /\ asked.proto \in Protocol
         /\ asked.streaming \in BOOLEAN
         /\ used.turns \in Nat /\ used.parts \in Nat /\ used.lost \in Nat
         /\ used = [turns |-> used.turns, parts |-> used.parts, lost |-> used.lost]
<1>1. said \in SaidType /\ asked \in [proto : Protocol, streaming : BOOLEAN]
      /\ used \in [turns : 0 .. MaxTurns, parts : 0 .. MaxParts, lost : 0 .. MaxLost]
  BY DEF Typed
<1>2. /\ said = [parts |-> said.parts, reason |-> said.reason,
                 begun |-> said.begun, missed |-> said.missed]
      /\ said.parts \in Seq(Part) /\ said.reason \in Reason \cup {None}
      /\ said.begun \in BOOLEAN /\ said.missed \in SUBSET Event
  BY <1>1 DEF SaidType
<1>3. asked.proto \in Protocol /\ asked.streaming \in BOOLEAN
  BY <1>1
<1>4. /\ used.turns \in Nat /\ used.parts \in Nat /\ used.lost \in Nat
      /\ used = [turns |-> used.turns, parts |-> used.parts, lost |-> used.lost]
  BY <1>1, Bounds
<1> QED
  BY <1>2, <1>3, <1>4, Bounds

(* The pieces the model says. *)
LEMMA Pieces ==
  ASSUME Typed
  PROVE  /\ Piece("model") \in TextPiece /\ << Piece("model") >> \in Seq(TextPiece)
         /\ Piece("id") \in Id /\ Piece("args") \in ArgPiece /\ Closing \in ArgPiece
         /\ Piece("id") = << "id", used.turns, used.parts >>
BY SaidFields DEF Piece, TextPiece, Id, ArgPiece

(* What a step makes of the stream. *)
LEMMA Emits ==
  ASSUME Typed, NEW step, Emit(step)
  PROVE  /\ asked.streaming => tr' = step.tr /\ out' = out \o step.chunks
         /\ ~asked.streaming => tr' = tr /\ out' = out
BY SaidFields DEF Emit

LEMMA EmitsOne ==
  ASSUME NEW c, NEW t, Emit([tr |-> t, chunks |-> << c >>]), Typed
  PROVE  /\ asked.streaming => tr' = t /\ out' = Append(out, c)
         /\ ~asked.streaming => tr' = tr /\ out' = out
<1> DEFINE step == [tr |-> t, chunks |-> << c >>]
<1>1. out \o << c >> = Append(out, c)
  BY DEF Typed
<1>2. step.tr = t /\ step.chunks = << c >>
  OBVIOUS
<1> HIDE DEF step
<1>3. /\ asked.streaming => tr' = step.tr /\ out' = out \o step.chunks
      /\ ~asked.streaming => tr' = tr /\ out' = out
  BY Emits DEF step
<1> QED
  BY <1>1, <1>2, <1>3

LEMMA EmitsNone ==
  ASSUME NEW t, Emit([tr |-> t, chunks |-> << >>]), Typed
  PROVE  /\ asked.streaming => tr' = t
         /\ ~asked.streaming => tr' = tr
         /\ out' = out
<1> DEFINE step == [tr |-> t, chunks |-> << >>]
<1>1. out \o << >> = out
  BY DEF Typed
<1>2. step.tr = t /\ step.chunks = << >>
  OBVIOUS
<1> HIDE DEF step
<1>3. /\ asked.streaming => tr' = step.tr /\ out' = out \o step.chunks
      /\ ~asked.streaming => tr' = tr /\ out' = out
  BY Emits DEF step
<1> QED
  BY <1>1, <1>2, <1>3, SaidFields

LEMMA EmitsTwo ==
  ASSUME NEW c, NEW d, NEW t, Emit([tr |-> t, chunks |-> << c, d >>]), Typed
  PROVE  /\ asked.streaming => tr' = t /\ out' = Append(Append(out, c), d)
         /\ ~asked.streaming => tr' = tr /\ out' = out
<1> DEFINE step == [tr |-> t, chunks |-> << c, d >>]
<1>1. out \o << c, d >> = Append(Append(out, c), d)
  BY DEF Typed
<1>2. step.tr = t /\ step.chunks = << c, d >>
  OBVIOUS
<1> HIDE DEF step
<1>3. /\ asked.streaming => tr' = step.tr /\ out' = out \o step.chunks
      /\ ~asked.streaming => tr' = tr /\ out' = out
  BY Emits DEF step
<1> QED
  BY <1>1, <1>2, <1>3

(* The chunks of the translators are the client's. *)
LEMMA SameChunks ==
  /\ \A t, x : A!Writes(t, x) = [tr |-> t, chunks |-> x]
  /\ A!RoleChunk = RoleChunk /\ A!Done = Done /\ A!ErrorChunk = ErrorChunk
  /\ \A x : A!TextChunk(x) = TextChunk(x)
  /\ \A r : A!FinishChunk(r) = FinishChunk(r)
  /\ \A i, d, n, x : A!CallChunk(i, d, n, x) = CallChunk(i, d, n, x)
  /\ G!RoleChunk = RoleChunk /\ G!Done = Done
  /\ \A x : G!TextChunk(x) = TextChunk(x)
  /\ \A r : G!FinishChunk(r) = FinishChunk(r)
  /\ \A i, d, n, x : G!CallChunk(i, d, n, x) = CallChunk(i, d, n, x)
BY DEF A!Writes, A!RoleChunk, A!Done, A!ErrorChunk, A!TextChunk, A!FinishChunk, A!CallChunk,
       G!RoleChunk, G!Done, G!TextChunk, G!FinishChunk, G!CallChunk,
       RoleChunk, Done, ErrorChunk, TextChunk, FinishChunk, CallChunk

(* What each action writes, and what it does to the state of the translator:
   nothing unless the answer is streamed. *)
LEMMA BeginEmits ==
  ASSUME Typed, Begin
  PROVE  /\ tr' = tr
         /\ asked.streaming => out' = Append(out, RoleChunk)
         /\ ~asked.streaming => out' = out
<1>1. Emit([tr |-> tr, chunks |-> << RoleChunk >>])
  <2>1. A!MessageStart(tr) = [tr |-> tr, chunks |-> << RoleChunk >>]
    BY SameChunks DEF A!MessageStart
  <2>2. A!Writes(tr, << RoleChunk >>) = [tr |-> tr, chunks |-> << RoleChunk >>]
    BY SameChunks
  <2> QED
    BY <2>1, <2>2 DEF Begin
<1> QED
  BY <1>1, EmitsOne, SaidFields

LEMMA SayTextEmits ==
  ASSUME Typed, SayText
  PROVE  /\ tr' = tr
         /\ asked.streaming => out' = Append(out, TextChunk(<< Piece("model") >>))
         /\ ~asked.streaming => out' = out
<1> DEFINE c == TextChunk(<< Piece("model") >>)
<1>1. Emit([tr |-> tr, chunks |-> << c >>])
  <2>1. A!TextDelta(tr, << Piece("model") >>) = [tr |-> tr, chunks |-> << c >>]
    BY SameChunks DEF A!TextDelta
  <2>2. A!Writes(tr, << c >>) = [tr |-> tr, chunks |-> << c >>]
    BY SameChunks
  <2> QED
    BY <2>1, <2>2 DEF SayText
<1> HIDE DEF c
<1>2. /\ asked.streaming => tr' = tr /\ out' = Append(out, c)
      /\ ~asked.streaming => tr' = tr /\ out' = out
  BY <1>1, EmitsOne
<1> QED
  BY <1>2, SaidFields DEF c

(* A numbering with one more block. *)
Numbered(t, b) ==
  [index |-> [x \in {b} \cup DOMAIN t.index |-> IF x = b THEN t.next ELSE t.index[x]],
   next |-> t.next + 1, finish |-> t.finish]

(* A block takes the next index. *)
LEMMA NumbersOneMore ==
  ASSUME NEW t \in AnthropicTr, NEW b \in Nat
  PROVE  A!NewIndex(t, b) = Numbered(t, b) /\ Numbered(t, b) \in AnthropicTr
<1>1. t.next \in Nat /\ t.finish \in Reason \cup {None} /\ t.index \in Numbering
  BY DEF AnthropicTr
<1>2. PICK S \in SUBSET Nat : t.index \in [S -> Nat]
  BY <1>1 DEF Numbering
<1> DEFINE f == [x \in {b} \cup DOMAIN t.index |-> IF x = b THEN t.next ELSE t.index[x]]
<1>3. f \in [{b} \cup S -> Nat]
  BY <1>1, <1>2
<1>4. A!Numbered(t.index, b, t.next) = f
  BY DEF A!Numbered
<1>5. A!NewIndex(t, b) = [index |-> f, next |-> t.next + 1, finish |-> t.finish]
  BY <1>4 DEF A!NewIndex
<1>6. Numbered(t, b) = [index |-> f, next |-> t.next + 1, finish |-> t.finish]
  BY DEF Numbered
<1> HIDE DEF f
<1>7. f \in Numbering
  <2>1. {b} \cup S \in SUBSET Nat
    OBVIOUS
  <2> QED
    BY <1>3, <2>1 DEF Numbering
<1>8. Numbered(t, b) \in AnthropicTr
  BY <1>1, <1>6, <1>7 DEF AnthropicTr
<1> QED
  BY <1>5, <1>6, <1>8

LEMMA SayCallEmits ==
  ASSUME Typed, NEW name \in Name, NEW readable \in BOOLEAN, SayCall(name, readable)
  PROVE  LET index == IF asked.proto = "openai" THEN CountCalls(said.parts) ELSE tr.next
         IN /\ ~readable => asked.proto = "anthropic" /\ asked.streaming /\ tr' = tr /\ out' = out
            /\ readable /\ asked.streaming =>
                 /\ tr' = IF asked.proto = "openai" THEN tr ELSE Numbered(tr, Len(said.parts))
                 /\ out' = Append(out, CallChunk(index, Piece("id"), name, << >>))
            /\ ~asked.streaming => tr' = tr /\ out' = out
<1>1. asked.proto \in {"anthropic", "openai"} /\ phase = "open"
  BY SaidFields DEF SayCall, StillSaying, Open
<1>2. CASE ~readable
  <2>1. asked.proto = "anthropic" /\ asked.streaming
    BY <1>2 DEF SayCall, MayMiss
  <2>2. Emit([tr |-> tr, chunks |-> << >>])
    BY <1>2, SameChunks DEF SayCall
  <2> QED
    BY <1>2, <2>1, <2>2, EmitsNone
<1>3. CASE readable /\ asked.proto = "anthropic"
  <2> DEFINE c == CallChunk(tr.next, Piece("id"), name, << >>)
  <2> DEFINE t == Numbered(tr, Len(said.parts))
  <2>1. tr \in AnthropicTr /\ Len(said.parts) \in Nat
    BY <1>1, <1>3, SaidFields DEF Typed
  <2>2. A!BlockStart(tr, Len(said.parts), Piece("id"), name) = [tr |-> t, chunks |-> << c >>]
    BY <2>1, NumbersOneMore, SameChunks DEF A!BlockStart
  <2>3. Emit([tr |-> t, chunks |-> << c >>])
    BY <1>3, <2>2 DEF SayCall
  <2> HIDE DEF c, t
  <2>4. /\ asked.streaming => tr' = t /\ out' = Append(out, c)
        /\ ~asked.streaming => tr' = tr /\ out' = out
    BY <2>3, EmitsOne
  <2> QED
    BY <1>3, <2>4 DEF c, t
<1>4. CASE readable /\ asked.proto = "openai"
  <2> DEFINE c == CallChunk(CountCalls(said.parts), Piece("id"), name, << >>)
  <2>1. Emit([tr |-> tr, chunks |-> << c >>])
    BY <1>4, SameChunks DEF SayCall
  <2> HIDE DEF c
  <2>2. /\ asked.streaming => tr' = tr /\ out' = Append(out, c)
        /\ ~asked.streaming => tr' = tr /\ out' = out
    BY <2>1, EmitsOne
  <2> QED
    BY <1>4, <2>2 DEF c
<1> QED
  BY <1>1, <1>2, <1>3, <1>4

LEMMA NumberedAt ==
  ASSUME NEW t, NEW b
  PROVE  Numbered(t, b).index[b] = t.next /\ b \in DOMAIN Numbered(t, b).index
BY DEF Numbered

(* Arguments go to the index of their block, or to a new one when its
   beginning was lost. *)
LEMMA SayArgumentsEmits ==
  ASSUME Typed, NEW piece \in {Piece("args"), Closing}, SayArguments(piece)
  PROVE  LET block == Len(said.parts) - 1
         IN /\ asked.proto \in {"anthropic", "openai"} /\ block \in Nat
            /\ asked.streaming /\ asked.proto = "openai" =>
                 /\ tr' = tr
                 /\ out' = Append(out, CallChunk(CountCalls(said.parts) - 1, None, None, << piece >>))
            /\ asked.streaming /\ asked.proto = "anthropic" /\ block \in DOMAIN tr.index =>
                 /\ tr' = tr
                 /\ out' = Append(out, CallChunk(tr.index[block], None, None, << piece >>))
            /\ asked.streaming /\ asked.proto = "anthropic" /\ block \notin DOMAIN tr.index =>
                 /\ tr' = Numbered(tr, block)
                 /\ out' = Append(out, CallChunk(tr.next, None, None, << piece >>))
            /\ ~asked.streaming => tr' = tr /\ out' = out
<1> DEFINE block == Len(said.parts) - 1
<1>1. asked.proto \in {"anthropic", "openai"} /\ phase = "open"
  BY SaidFields DEF SayArguments, StillSaying, Open
<1>2. block \in Nat
  BY SaidFields DEF SayArguments, CallOpen, EndsWith
<1>3. CASE asked.proto = "openai"
  <2> DEFINE c == CallChunk(CountCalls(said.parts) - 1, None, None, << piece >>)
  <2>1. Emit([tr |-> tr, chunks |-> << c >>])
    BY <1>3, SameChunks DEF SayArguments
  <2> HIDE DEF c
  <2>2. /\ asked.streaming => tr' = tr /\ out' = Append(out, c)
        /\ ~asked.streaming => tr' = tr /\ out' = out
    BY <2>1, EmitsOne
  <2> QED
    BY <1>2, <1>3, <2>2 DEF c
<1>4. CASE asked.proto = "anthropic"
  <2> DEFINE seen == IF block \in DOMAIN tr.index THEN tr ELSE Numbered(tr, block)
  <2> DEFINE c == CallChunk(seen.index[block], None, None, << piece >>)
  <2>1. tr \in AnthropicTr
    BY <1>1, <1>4 DEF Typed
  <2>2. A!InputDelta(tr, block, piece) = [tr |-> seen, chunks |-> << c >>]
    BY <1>2, <2>1, NumbersOneMore, SameChunks DEF A!InputDelta
  <2>3. Emit([tr |-> seen, chunks |-> << c >>])
    BY <1>4, <2>2 DEF SayArguments
  <2>4. block \notin DOMAIN tr.index => c = CallChunk(tr.next, None, None, << piece >>)
    BY NumberedAt
  <2>5. block \in DOMAIN tr.index => c = CallChunk(tr.index[block], None, None, << piece >>)
    OBVIOUS
  <2>6. /\ block \notin DOMAIN tr.index => seen = Numbered(tr, block)
        /\ block \in DOMAIN tr.index => seen = tr
    OBVIOUS
  <2> HIDE DEF c, seen
  <2>7. /\ asked.streaming => tr' = seen /\ out' = Append(out, c)
        /\ ~asked.streaming => tr' = tr /\ out' = out
    BY <2>3, EmitsOne
  <2> QED
    BY <1>2, <1>4, <2>4, <2>5, <2>6, <2>7
<1> QED
  BY <1>1, <1>3, <1>4

(* A reason is kept until the stream stops (Anthropic) or written at once
   (OpenAI). *)
LEMMA SayReasonEmits ==
  ASSUME Typed, NEW reason \in {"end_turn", "max_tokens", "tool_use"}, SayReason(reason)
  PROVE  /\ asked.proto \in {"anthropic", "openai"} /\ A!MapStopReason(reason) \in Reason
         /\ asked.streaming /\ asked.proto = "anthropic" =>
              tr' = [tr EXCEPT !.finish = A!MapStopReason(reason)] /\ out' = out
         /\ asked.streaming /\ asked.proto = "openai" =>
              tr' = tr /\ out' = Append(out, FinishChunk(A!MapStopReason(reason)))
         /\ ~asked.streaming => tr' = tr /\ out' = out
<1>1. asked.proto \in {"anthropic", "openai"}
  BY SaidFields DEF SayReason
<1>3. None \notin Reason /\ reason \in Reason
  BY Bounds DEF Reason
<1>6. reason # None
  BY <1>3
<1>2. A!MapStopReason(reason) \in Reason
  <2>1. A!MapStopReason(reason) \in {"length", "tool_calls", "stop"}
    BY <1>6 DEF A!MapStopReason
  <2> QED
    BY <2>1 DEF Reason
<1>4. CASE asked.proto = "openai"
  <2> DEFINE c == FinishChunk(A!MapStopReason(reason))
  <2>1. Emit([tr |-> tr, chunks |-> << c >>])
    BY <1>4, SameChunks DEF SayReason
  <2> HIDE DEF c
  <2>2. /\ asked.streaming => tr' = tr /\ out' = Append(out, c)
        /\ ~asked.streaming => tr' = tr /\ out' = out
    BY <2>1, EmitsOne
  <2> QED
    BY <1>2, <1>4, <2>2 DEF c
<1>5. CASE asked.proto = "anthropic"
  <2> DEFINE t == [tr EXCEPT !.finish = A!MapStopReason(reason)]
  <2>1. A!MessageDelta(tr, reason) = [tr |-> t, chunks |-> << >>]
    BY <1>6, SameChunks DEF A!MessageDelta
  <2>2. Emit([tr |-> t, chunks |-> << >>])
    BY <1>5, <2>1 DEF SayReason
  <2> HIDE DEF t
  <2>3. /\ asked.streaming => tr' = t
        /\ ~asked.streaming => tr' = tr
        /\ out' = out
    BY <2>2, EmitsNone
  <2> QED
    BY <1>2, <1>5, <2>3 DEF t
<1> QED
  BY <1>1, <1>4, <1>5

LEMMA AnswerEndsEmits ==
  ASSUME Typed, AnswerEnds
  PROVE  /\ tr' = tr
         /\ ~asked.streaming => out' = out
         /\ asked.streaming /\ asked.proto = "openai" => out' = Append(out, Done)
         /\ asked.streaming /\ asked.proto # "openai" =>
              \E r \in Reason \cup {None} : out' = Append(Append(out, FinishChunk(r)), Done)
<1>1. asked.proto \in {"anthropic", "openai", "gemini"} /\ phase = "open"
  BY SaidFields DEF AnswerEnds, Open
<1>2. CASE asked.proto = "openai"
  <2>1. Emit([tr |-> tr, chunks |-> << Done >>])
    BY <1>2, SameChunks DEF AnswerEnds
  <2> QED
    BY <1>2, <2>1, EmitsOne, SaidFields
<1>3. CASE asked.proto # "openai"
  <2> DEFINE r == IF asked.proto = "gemini" /\ tr.finish = None THEN "stop" ELSE tr.finish
  <2>1. tr.finish \in Reason \cup {None}
    BY <1>1 DEF Typed, GeminiTr, AnthropicTr
  <2>2. r \in Reason \cup {None}
    <3>1. "stop" \in Reason
      BY DEF Reason
    <3> QED
      BY <2>1, <3>1, Zenon
  <2>3. A!MessageStop(tr) = [tr |-> tr, chunks |-> << FinishChunk(tr.finish), Done >>]
    BY SameChunks DEF A!MessageStop
  <2>4. A!Writes(tr, G!StreamEnds(tr))
          = [tr |-> tr, chunks |-> << FinishChunk(IF tr.finish = None THEN "stop" ELSE tr.finish), Done >>]
    BY SameChunks DEF G!StreamEnds
  <2>5. Emit([tr |-> tr, chunks |-> << FinishChunk(r), Done >>])
    <3>1. CASE asked.proto = "anthropic"
      BY <3>1, <2>3 DEF AnswerEnds
    <3>2. CASE asked.proto = "gemini"
      BY <3>2, <2>4 DEF AnswerEnds
    <3> QED
      BY <1>1, <1>3, <3>1, <3>2
  <2> HIDE DEF r
  <2>6. /\ asked.streaming => tr' = tr /\ out' = Append(Append(out, FinishChunk(r)), Done)
        /\ ~asked.streaming => tr' = tr /\ out' = out
    BY <2>5, EmitsTwo
  <2> QED
    BY <1>3, <2>2, <2>6, SaidFields
<1> QED
  BY <1>2, <1>3

LEMMA ErrorEventEmits ==
  ASSUME Typed, ErrorEvent
  PROVE  tr' = tr /\ out' = Append(Append(out, ErrorChunk), Done)
<1>1. A!ErrorEvent(tr) = [tr |-> tr, chunks |-> << ErrorChunk, Done >>]
  BY SameChunks DEF A!ErrorEvent
<1>2. Emit([tr |-> tr, chunks |-> << ErrorChunk, Done >>]) /\ asked.streaming
  BY <1>1 DEF ErrorEvent
<1> QED
  BY <1>2, EmitsTwo

LEMMA EndsEarlyEmits ==
  ASSUME Typed, EndsEarly
  PROVE  /\ tr' = tr
         /\ asked.proto # "gemini" => out' = out
         /\ asked.proto = "gemini" =>
              \E r \in Reason \cup {None} : out' = Append(Append(out, FinishChunk(r)), Done)
<1>1. asked.streaming /\ phase = "open"
  BY DEF EndsEarly, Open
<1>2. CASE asked.proto # "gemini"
  <2>1. Emit([tr |-> tr, chunks |-> << >>])
    BY <1>2, SameChunks DEF EndsEarly
  <2> QED
    BY <1>1, <1>2, <2>1, EmitsNone
<1>3. CASE asked.proto = "gemini"
  <2> DEFINE r == IF tr.finish = None THEN "stop" ELSE tr.finish
  <2>1. tr.finish \in Reason \cup {None}
    BY <1>1, <1>3 DEF Typed, GeminiTr
  <2>2. A!Writes(tr, G!StreamEnds(tr)) = [tr |-> tr, chunks |-> << FinishChunk(r), Done >>]
    BY SameChunks DEF G!StreamEnds
  <2>3. Emit([tr |-> tr, chunks |-> << FinishChunk(r), Done >>])
    BY <1>3, <2>2 DEF EndsEarly
  <2>4. r \in Reason \cup {None}
    <3>1. "stop" \in Reason
      BY DEF Reason
    <3> QED
      BY <2>1, <3>1, Zenon
  <2> HIDE DEF r
  <2> QED
    BY <1>1, <1>3, <2>3, <2>4, EmitsTwo
<1> QED
  BY <1>2, <1>3

----------------------------------------------------------------------------
(* One chunk of Gemini: what each of its parts is written as. *)

Counted(p) == IF p.type = "call" THEN 1 ELSE 0

PartWritten(n, p) ==
  IF p.type = "text" THEN TextChunk(p.text) ELSE CallChunk(n, << "call", n >>, p.name, p.args)

(* Gemini sends parts by the chunk: how many calls there are in one, and what
   is written for it. *)
LEMMA CountFew ==
  ASSUME NEW p, NEW q, p \in Part, q \in Part
  PROVE  /\ CountCalls(<< >>) = 0
         /\ CountCalls(<< p >>) = Counted(p)
         /\ CountCalls(<< p, q >>) = Counted(p) + Counted(q)
<1>1. << >> \in Seq(Part) /\ << p >> \in Seq(Part)
      /\ << p >> = Append(<< >>, p) /\ << p, q >> = Append(<< p >>, q)
  OBVIOUS
<1>2. CountCalls(<< p >>) = Counted(p)
  <2>1. CountCalls(Append(<< >>, p)) = CountCalls(<< >>) + Counted(p)
    BY <1>1, CountOneMore DEF Counted
  <2> QED
    BY <1>1, <2>1, NothingSaid DEF Counted
<1>3. CountCalls(<< p, q >>) = CountCalls(<< p >>) + Counted(q)
  BY <1>1, CountOneMore DEF Counted
<1> QED
  BY <1>2, <1>3, NothingSaid

LEMMA SameCount ==
  /\ \A parts : G!CountCalls(parts) = CountCalls(parts)
  /\ \A parts : A!CountCalls(parts) = CountCalls(parts)
BY DEF G!CountCalls, A!CountCalls, CountCalls, G!Cardinality, A!Cardinality, Cardinality

(* The parts of a chunk. *)
LEMMA GeminiPartsAre ==
  ASSUME Typed, NEW parts \in GeminiParts
  PROVE  /\ \A i \in DOMAIN parts : parts[i] \in Part /\ (parts[i].type = "call" => parts[i].id = None)
         /\ \/ parts = << >>
            \/ \E p \in Part : parts = << p >>
            \/ \E p, q \in Part : parts = << p, q >>
<1>1. Piece("model") \in TextPiece
  BY SaidFields DEF Piece, TextPiece
<1>2. << Piece("model") >> \in Text
  BY <1>1 DEF Text
<1>3. TextPart(<< Piece("model") >>) \in Part
  BY <1>2 DEF TextPart, Part, TextPartType
<1>4. ASSUME NEW n \in Name, NEW x \in {<< >>, << Closing >>}
      PROVE  CallPart(None, n, x) \in Part /\ CallPart(None, n, x).id = None
  <2>1. x \in Seq(ArgPiece)
    <3>1. Closing \in ArgPiece
      BY DEF ArgPiece
    <3>2. << >> \in Seq(ArgPiece) /\ << Closing >> \in Seq(ArgPiece)
      BY <3>1
    <3> QED
      BY <3>2
  <2> QED
    BY <2>1 DEF CallPart, Part, CallPartType
<1>5. TextPart(<< Piece("model") >>).type # "call"
  BY DEF TextPart
<1> DEFINE t == TextPart(<< Piece("model") >>)
<1> HIDE DEF t
<1>6. \/ parts = << >>
      \/ parts = << t >>
      \/ \E n \in Name, x \in {<< >>, << Closing >>} : parts = << CallPart(None, n, x) >>
      \/ \E n, m \in Name :
           parts = << CallPart(None, n, << Closing >>), CallPart(None, m, << >>) >>
      \/ \E n \in Name : parts = << t, CallPart(None, n, << Closing >>) >>
  BY DEF GeminiParts, t
<1>7. t \in Part /\ t.type # "call"
  BY <1>3, <1>5 DEF t
<1>8. CASE parts = << >>
  BY <1>8
<1>9. CASE parts = << t >>
  BY <1>7, <1>9
<1>10. CASE \E n \in Name, x \in {<< >>, << Closing >>} : parts = << CallPart(None, n, x) >>
  <2>1. PICK n \in Name, x \in {<< >>, << Closing >>} : parts = << CallPart(None, n, x) >>
    BY <1>10
  <2> QED
    BY <1>4, <2>1
<1>11. CASE \E n, m \in Name :
              parts = << CallPart(None, n, << Closing >>), CallPart(None, m, << >>) >>
  <2>1. PICK n \in Name, m \in Name :
          parts = << CallPart(None, n, << Closing >>), CallPart(None, m, << >>) >>
    BY <1>11
  <2>2. /\ CallPart(None, n, << Closing >>) \in Part /\ CallPart(None, n, << Closing >>).id = None
        /\ CallPart(None, m, << >>) \in Part /\ CallPart(None, m, << >>).id = None
    BY <1>4
  <2> QED
    BY <2>1, <2>2
<1>12. CASE \E n \in Name : parts = << t, CallPart(None, n, << Closing >>) >>
  <2>1. PICK n \in Name : parts = << t, CallPart(None, n, << Closing >>) >>
    BY <1>12
  <2>2. CallPart(None, n, << Closing >>) \in Part /\ CallPart(None, n, << Closing >>).id = None
    BY <1>4
  <2> QED
    BY <1>7, <2>1, <2>2
<1> QED
  BY <1>6, <1>8, <1>9, <1>10, <1>11, <1>12

(* The chunks of one or two parts. *)
ChunksOf(t, parts) == [i \in DOMAIN parts |-> G!PartChunk(t, parts, i)]

LEMMA PartChunks ==
  ASSUME NEW p, NEW q, p \in Part, q \in Part, NEW t, t.next \in Nat
  PROVE  /\ ChunksOf(t, << >>) = << >>
         /\ ChunksOf(t, << p >>) = << PartWritten(t.next, p) >>
         /\ ChunksOf(t, << p, q >>)
              = << PartWritten(t.next, p), PartWritten(t.next + Counted(p), q) >>
<1> DEFINE one == << p >>
<1> DEFINE two == << p, q >>
<1>1. /\ DOMAIN one = 1 .. 1 /\ one[1] = p /\ SubSeq(one, 1, 0) = << >>
      /\ DOMAIN two = 1 .. 2 /\ two[1] = p /\ two[2] = q
      /\ SubSeq(two, 1, 0) = << >> /\ SubSeq(two, 1, 1) = one
  <2>1. one = << p >> /\ two = << p, q >> /\ one \in Seq(Part) /\ two \in Seq(Part)
    OBVIOUS
  <2> HIDE DEF one, two
  <2>2. /\ DOMAIN one = 1 .. 1 /\ one[1] = p /\ Len(one) = 1
        /\ DOMAIN two = 1 .. 2 /\ two[1] = p /\ two[2] = q /\ Len(two) = 2
    BY <2>1
  <2>3. two = Append(one, q)
    BY <2>1
  <2>4. SubSeq(two, 1, 1) = one
    <3>1. SubSeq(Append(one, q), 1, Len(one)) = one
      BY <2>1, PrefixesKept
    <3> QED
      BY <2>2, <2>3, <3>1
  <2>5. SubSeq(one, 1, 0) = << >> /\ SubSeq(two, 1, 0) = << >>
    BY <2>1, <2>2
  <2> QED
    BY <2>2, <2>4, <2>5
<1>2. CountCalls(<< >>) = 0 /\ CountCalls(one) = Counted(p)
  BY CountFew
<1>3. Counted(p) \in Nat
  BY DEF Counted
<1> HIDE DEF one, two
<1>4. \A parts, i, x : x = parts[i] =>
        G!PartChunk(t, parts, i) = PartWritten(t.next + CountCalls(SubSeq(parts, 1, i - 1)), x)
  BY SameChunks, SameCount DEF G!PartChunk, PartWritten, G!CallId
<1>5. G!PartChunk(t, one, 1) = PartWritten(t.next, p)
  <2>1. G!PartChunk(t, one, 1) = PartWritten(t.next + CountCalls(SubSeq(one, 1, 1 - 1)), p)
    BY <1>1, <1>4
  <2>2. t.next + CountCalls(SubSeq(one, 1, 1 - 1)) = t.next
    <3>1. 1 - 1 = 0
      OBVIOUS
    <3>2. SubSeq(one, 1, 1 - 1) = << >>
      BY <1>1, <3>1, Zenon
    <3>3. CountCalls(SubSeq(one, 1, 1 - 1)) = 0
      BY <1>2, <3>2, Zenon
    <3> QED
      BY <3>3
  <2> QED
    BY <2>1, <2>2
<1>6. G!PartChunk(t, two, 1) = PartWritten(t.next, p)
  <2>1. G!PartChunk(t, two, 1) = PartWritten(t.next + CountCalls(SubSeq(two, 1, 1 - 1)), p)
    BY <1>1, <1>4
  <2>2. t.next + CountCalls(SubSeq(two, 1, 1 - 1)) = t.next
    <3>1. 1 - 1 = 0
      OBVIOUS
    <3>2. SubSeq(two, 1, 1 - 1) = << >>
      BY <1>1, <3>1, Zenon
    <3>3. CountCalls(SubSeq(two, 1, 1 - 1)) = 0
      BY <1>2, <3>2, Zenon
    <3> QED
      BY <3>3
  <2> QED
    BY <2>1, <2>2
<1>7. G!PartChunk(t, two, 2) = PartWritten(t.next + Counted(p), q)
  <2>1. G!PartChunk(t, two, 2) = PartWritten(t.next + CountCalls(SubSeq(two, 1, 2 - 1)), q)
    BY <1>1, <1>4
  <2>2. t.next + CountCalls(SubSeq(two, 1, 2 - 1)) = t.next + Counted(p)
    <3>1. 2 - 1 = 1
      OBVIOUS
    <3>2. SubSeq(two, 1, 2 - 1) = one
      BY <1>1, <3>1, Zenon
    <3>3. CountCalls(SubSeq(two, 1, 2 - 1)) = Counted(p)
      BY <1>2, <3>2, Zenon
    <3> QED
      BY <3>3
  <2> QED
    BY <2>1, <2>2
<1>8. ChunksOf(t, one) = << PartWritten(t.next, p) >>
  BY <1>1, <1>5 DEF ChunksOf
<1>9. ChunksOf(t, two)
        = << PartWritten(t.next, p), PartWritten(t.next + Counted(p), q) >>
  BY <1>1, <1>6, <1>7 DEF ChunksOf
<1>10. ChunksOf(t, << >>) = << >>
  BY DEF ChunksOf
<1> QED
  BY <1>8, <1>9, <1>10 DEF one, two

(* The stream after the role of the answer. *)
RoleFirst == IF tr.roleSent THEN out ELSE Append(out, RoleChunk)

LEMMA GeminiSaysEmits ==
  ASSUME Typed, NEW parts \in GeminiParts, NEW reason \in GeminiReasons, GeminiSays(parts, reason)
  PROVE  /\ asked.proto = "gemini" /\ phase = "open"
         /\ ~asked.streaming => tr' = tr /\ out' = out
         /\ asked.streaming =>
              /\ \E r \in Reason \cup {None} :
                   tr' = [roleSent |-> TRUE, next |-> tr.next + CountCalls(parts), finish |-> r]
              /\ parts = << >> => out' = RoleFirst
              /\ \A p \in Part : parts = << p >> => out' = Append(RoleFirst, PartWritten(tr.next, p))
              /\ \A p, q \in Part : parts = << p, q >> =>
                   out' = Append(Append(RoleFirst, PartWritten(tr.next, p)),
                                 PartWritten(tr.next + Counted(p), q))
<1>1. asked.proto = "gemini" /\ phase = "open"
  BY DEF GeminiSays, Streaming, Open
<1>2. tr \in GeminiTr
  BY <1>1 DEF Typed
<1>3. tr.next \in Nat /\ tr.finish \in Reason \cup {None} /\ tr.roleSent \in BOOLEAN /\ out \in Seq(Chunk)
  <2>1. out \in Seq(Chunk)
    BY DEF Typed
  <2>2. tr.next \in Nat /\ tr.finish \in Reason \cup {None} /\ tr.roleSent \in BOOLEAN
    BY <1>2 DEF GeminiTr
  <2> QED
    BY <2>1, <2>2
<1> DEFINE t == [roleSent |-> TRUE, next |-> tr.next + CountCalls(parts),
                 finish |-> G!FinishAfter(tr, parts, reason)]
<1> DEFINE first == IF tr.roleSent THEN << >> ELSE << RoleChunk >>
<1> DEFINE rest == ChunksOf(tr, parts)
<1>4. G!StreamChunk(tr, parts, reason) = [tr |-> t, chunks |-> first \o rest]
  BY SameChunks, SameCount DEF G!StreamChunk, ChunksOf
<1>5. G!FinishAfter(tr, parts, reason) \in Reason \cup {None}
  <2>1. G!MapFinishReason(reason) \in {"length", "content_filter", "stop"}
    BY DEF G!MapFinishReason
  <2>2. G!FinishAfter(tr, parts, reason) \in {tr.finish, "tool_calls", G!MapFinishReason(reason)}
    BY DEF G!FinishAfter
  <2> QED
    BY <1>3, <2>1, <2>2 DEF Reason
<1>6. Emit([tr |-> t, chunks |-> first \o rest])
  BY <1>4 DEF GeminiSays
<1> HIDE DEF t, first, rest
<1> DEFINE step == [tr |-> t, chunks |-> first \o rest]
<1>7. step.tr = t /\ step.chunks = first \o rest
  OBVIOUS
<1> HIDE DEF step
<1>8. /\ asked.streaming => tr' = t /\ out' = out \o (first \o rest)
      /\ ~asked.streaming => tr' = tr /\ out' = out
  <2>1. /\ asked.streaming => tr' = step.tr /\ out' = out \o step.chunks
        /\ ~asked.streaming => tr' = tr /\ out' = out
    BY <1>6, Emits DEF step
  <2> QED
    BY <1>7, <2>1
<1>9. ASSUME rest = << >>
      PROVE  out \o (first \o rest) = RoleFirst
  BY <1>3, <1>9 DEF first, RoleFirst
<1>10. ASSUME NEW c, rest = << c >>
       PROVE  out \o (first \o rest) = Append(RoleFirst, c)
  <2>1. CASE tr.roleSent
    BY <1>3, <1>10, <2>1 DEF first, RoleFirst
  <2>2. CASE ~tr.roleSent
    BY <1>3, <1>10, <2>2 DEF first, RoleFirst
  <2> QED
    BY <2>1, <2>2
<1>11. ASSUME NEW c, NEW d, rest = << c, d >>
       PROVE  out \o (first \o rest) = Append(Append(RoleFirst, c), d)
  <2>1. CASE tr.roleSent
    BY <1>3, <1>11, <2>1 DEF first, RoleFirst
  <2>2. CASE ~tr.roleSent
    BY <1>3, <1>11, <2>2 DEF first, RoleFirst
  <2> QED
    BY <2>1, <2>2
<1>12. parts = << >> => rest = << >>
  BY DEF rest, ChunksOf
<1>13. ASSUME NEW p \in Part, parts = << p >>
       PROVE  rest = << PartWritten(tr.next, p) >>
  <2>1. ChunksOf(tr, << p >>) = << PartWritten(tr.next, p) >>
    BY <1>3, <1>13, PartChunks
  <2> QED
    BY <1>13, <2>1 DEF rest
<1>14. ASSUME NEW p \in Part, NEW q \in Part, parts = << p, q >>
       PROVE  rest = << PartWritten(tr.next, p), PartWritten(tr.next + Counted(p), q) >>
  <2>1. ChunksOf(tr, << p, q >>)
          = << PartWritten(tr.next, p), PartWritten(tr.next + Counted(p), q) >>
    BY <1>3, PartChunks
  <2> QED
    BY <1>14, <2>1 DEF rest
<1>15. asked.streaming =>
         /\ \E r \in Reason \cup {None} :
              tr' = [roleSent |-> TRUE, next |-> tr.next + CountCalls(parts), finish |-> r]
         /\ parts = << >> => out' = RoleFirst
  BY <1>5, <1>8, <1>9, <1>12 DEF t
<1>16. ASSUME asked.streaming, NEW p \in Part, parts = << p >>
       PROVE  out' = Append(RoleFirst, PartWritten(tr.next, p))
  <2>1. out \o (first \o rest) = Append(RoleFirst, PartWritten(tr.next, p))
    BY <1>13, <1>10, <1>16
  <2> QED
    BY <1>8, <1>16, <2>1
<1>17. ASSUME asked.streaming, NEW p \in Part, NEW q \in Part, parts = << p, q >>
       PROVE  out' = Append(Append(RoleFirst, PartWritten(tr.next, p)), PartWritten(tr.next + Counted(p), q))
  <2>1. out \o (first \o rest)
          = Append(Append(RoleFirst, PartWritten(tr.next, p)), PartWritten(tr.next + Counted(p), q))
    BY <1>14, <1>11, <1>17
  <2> QED
    BY <1>8, <1>17, <2>1
<1> QED
  BY <1>1, <1>8, <1>15, <1>16, <1>17

----------------------------------------------------------------------------
(* A stream that was begun and may go on, and one that was told so far. *)

Begun(o, missed) ==
  /\ o \in Seq(Chunk)
  /\ Headless(missed) \/ (o # << >> /\ o[1].kind = "role")
  /\ "done" \notin Kinds(o) /\ "error" \notin Kinds(o)

Told(o, parts, n, missed) ==
  o \in Seq(Chunk) /\ WellFormed(o, missed) /\ Carries(o, parts, n, missed)

(* The chunks that are neither text nor call. *)
LEMMA SimpleChunks ==
  /\ RoleChunk \in Chunk /\ RoleChunk.kind = "role"
  /\ Done \in Chunk /\ Done.kind = "done"
  /\ ErrorChunk \in Chunk /\ ErrorChunk.kind = "error"
  /\ \A r \in Reason \cup {None} :
       FinishChunk(r) \in Chunk /\ FinishChunk(r).kind = "finish" /\ FinishChunk(r).reason = r
<1>1. /\ RoleChunk \in Chunk /\ RoleChunk.kind = "role"
      /\ Done \in Chunk /\ Done.kind = "done"
      /\ ErrorChunk \in Chunk /\ ErrorChunk.kind = "error"
  BY DEF RoleChunk, Done, ErrorChunk, Chunk
<1>2. ASSUME NEW r \in Reason \cup {None}
      PROVE  FinishChunk(r) \in Chunk /\ FinishChunk(r).kind = "finish" /\ FinishChunk(r).reason = r
  BY DEF FinishChunk, Chunk, FinishChunkType
<1> QED
  BY <1>1, <1>2

(* Writing to a stream keeps it begun unless it ends it. *)
LEMMA StillBegun ==
  ASSUME NEW o, NEW missed, NEW c, Begun(o, missed), c \in Chunk, c.kind \notin {"done", "error"}
  PROVE  Begun(Append(o, c), missed)
<1>1. /\ o \in Seq(Chunk) /\ (Headless(missed) \/ (o # << >> /\ o[1].kind = "role"))
      /\ "done" \notin Kinds(o) /\ "error" \notin Kinds(o)
  BY DEF Begun
<1>2. Kinds(Append(o, c)) = Kinds(o) \cup {c.kind}
  BY <1>1, WriteSets
<1>3. /\ Append(o, c) \in Seq(Chunk) /\ Len(o) \in Nat /\ Len(Append(o, c)) = Len(o) + 1
      /\ \A i \in 1 .. Len(o) : Append(o, c)[i] = o[i]
  BY <1>1, Appended
<1>4. o # << >> => 1 \in 1 .. Len(o)
  BY <1>1
<1>5. o # << >> => Append(o, c) # << >> /\ Append(o, c)[1] = o[1]
  BY <1>3, <1>4
<1> QED
  BY <1>1, <1>2, <1>3, <1>5 DEF Begun

(* The role begins an answer. *)
LEMMA RoleTold ==
  ASSUME NEW o, NEW missed, o = << >>
  PROVE  /\ Begun(Append(o, RoleChunk), missed) /\ "finish" \notin Kinds(Append(o, RoleChunk))
         /\ Told(Append(o, RoleChunk), << >>, 0, missed)
<1> DEFINE c == RoleChunk
<1>1. c \in Chunk /\ c.kind = "role"
  BY SimpleChunks
<1> HIDE DEF c
<1>2. o \in Seq(Chunk) /\ Kinds(o) = {} /\ WellFormed(o, missed) /\ Carries(o, << >>, 0, missed)
  <2>1. << >> \in Seq(Chunk)
    OBVIOUS
  <2>2. Kinds(<< >>) = {} /\ WellFormed(<< >>, missed) /\ Carries(<< >>, << >>, 0, missed)
    BY NothingWritten, WellFormedNothing, CarriesNothing, Zenon
  <2> QED
    BY <2>1, <2>2
<1>3. Kinds(Append(o, c)) = {"role"}
  <2>1. Kinds(Append(o, c)) = Kinds(o) \cup {c.kind}
    BY <1>1, <1>2, WriteSets
  <2> QED
    BY <1>1, <1>2, <2>1
<1>4. Append(o, c) \in Seq(Chunk) /\ Append(o, c) # << >> /\ Append(o, c)[1] = c
  BY <1>1, <1>2
<1>5. MayFollow(o, missed, c)
  BY <1>1, <1>2 DEF MayFollow
<1>6. WellFormed(Append(o, c), missed)
  BY <1>1, <1>2, <1>5, WriteOneMore
<1>7. Carries(Append(o, c), << >>, 0, missed)
  <2>1. << >> \in Seq(Part)
    OBVIOUS
  <2> QED
    BY <1>1, <1>2, <2>1, CarriesOther
<1> QED
  BY <1>1, <1>3, <1>4, <1>6, <1>7 DEF Begun, Told, c

(* The end of an answer: a finish, an error, or [DONE]. *)
LEMMA EndTold ==
  ASSUME NEW o, NEW parts, NEW n, NEW missed, NEW c, Told(o, parts, n, missed),
         parts \in Seq(Part), n \in Nat, c \in Chunk, c.kind \in {"finish", "error", "done"},
         "done" \notin Kinds(o),
         c.kind # "done" => "finish" \notin Kinds(o) /\ "error" \notin Kinds(o)
  PROVE  /\ Told(Append(o, c), parts, n, missed)
         /\ Kinds(Append(o, c)) = Kinds(o) \cup {c.kind}
<1>1. o \in Seq(Chunk) /\ WellFormed(o, missed) /\ Carries(o, parts, n, missed)
  BY DEF Told
<1>2. MayFollow(o, missed, c)
  BY DEF MayFollow
<1>3. WellFormed(Append(o, c), missed)
  BY <1>1, <1>2, WriteOneMore
<1>4. Carries(Append(o, c), parts, n, missed)
  BY <1>1, CarriesOther
<1>5. Append(o, c) \in Seq(Chunk) /\ Kinds(Append(o, c)) = Kinds(o) \cup {c.kind}
  BY <1>1, WriteSets
<1> QED
  BY <1>3, <1>4, <1>5 DEF Told

(* A text chunk tells the text that was said. *)
LEMMA TextTold ==
  ASSUME NEW o, NEW parts, NEW after, NEW n, NEW missed, NEW t,
         Begun(o, missed), "finish" \notin Kinds(o), Told(o, parts, n, missed),
         n \in Nat, t \in Seq(TextPiece),
         TextSaid(after) = TextSaid(parts) \o t, CallsOf(after) = CallsOf(parts)
  PROVE  /\ Told(Append(o, TextChunk(t)), after, n, missed)
         /\ Begun(Append(o, TextChunk(t)), missed) /\ "finish" \notin Kinds(Append(o, TextChunk(t)))
<1> DEFINE c == TextChunk(t)
<1>1. o \in Seq(Chunk) /\ WellFormed(o, missed) /\ Carries(o, parts, n, missed)
  BY DEF Told
<1>2. c \in Chunk /\ Carries(Append(o, c), after, n, missed)
  BY <1>1, CarriesText
<1>3. c.kind = "text"
  BY DEF TextChunk
<1> HIDE DEF c
<1>4. MayFollow(o, missed, c)
  BY <1>3 DEF MayFollow, Begun
<1>5. WellFormed(Append(o, c), missed)
  BY <1>1, <1>2, <1>4, WriteOneMore
<1>6. Append(o, c) \in Seq(Chunk) /\ Kinds(Append(o, c)) = Kinds(o) \cup {"text"}
  BY <1>1, <1>2, <1>3, WriteSets
<1>7. Begun(Append(o, c), missed)
  BY <1>2, <1>3, StillBegun
<1> QED
  BY <1>2, <1>5, <1>6, <1>7 DEF Told, c

LEMMA Interval ==
  ASSUME NEW n \in Nat
  PROVE  Cardinality(0 .. n - 1) = n /\ n \notin 0 .. n - 1
<1>1. Cardinality(0 .. n - 1) = IF 0 > n - 1 THEN 0 ELSE n - 1 - 0 + 1
  BY FS_Interval
<1> QED
  BY <1>1

(* A call begins, under the next index. *)
LEMMA CallTold ==
  ASSUME NEW o, NEW parts, NEW n, NEW missed, NEW p, NEW id,
         Begun(o, missed), "finish" \notin Kinds(o), Told(o, parts, n, missed),
         parts \in Seq(Part), n \in Nat, None \notin Id, None \notin Name,
         p \in CallPartType, id \in Id, id = IF p.id = None THEN << "call", n >> ELSE p.id
  PROVE  LET c == CallChunk(n, id, p.name, p.args)
         IN /\ Told(Append(o, c), Append(parts, p), n + 1, missed)
            /\ Begun(Append(o, c), missed) /\ "finish" \notin Kinds(Append(o, c))
<1> DEFINE c == CallChunk(n, id, p.name, p.args)
<1>1. o \in Seq(Chunk) /\ WellFormed(o, missed) /\ Carries(o, parts, n, missed)
  BY DEF Told
<1>2. c \in Chunk /\ Carries(Append(o, c), Append(parts, p), n + 1, missed)
  BY <1>1, CarriesCall
<1>3. p.name \in Name /\ p.args \in Seq(ArgPiece)
  BY DEF CallPartType
<1>4. c.kind = "call" /\ c.index = n /\ c.id = id /\ c.name = p.name
  BY DEF CallChunk
<1> HIDE DEF c
<1>5. Announces(c)
  BY <1>3, <1>4 DEF Announces
<1>6. c.index \notin Indexes(o) /\ c.index = Cardinality(Indexes(o))
  BY <1>1, <1>4, Interval DEF Carries
<1>7. MayFollow(o, missed, c)
  BY <1>4, <1>5, <1>6 DEF MayFollow, Begun
<1>8. WellFormed(Append(o, c), missed)
  BY <1>1, <1>2, <1>7, WriteOneMore
<1>9. Append(o, c) \in Seq(Chunk) /\ Kinds(Append(o, c)) = Kinds(o) \cup {"call"}
  BY <1>1, <1>2, <1>4, WriteSets
<1>10. Begun(Append(o, c), missed)
  BY <1>2, <1>4, StillBegun
<1> QED
  BY <1>2, <1>8, <1>9, <1>10 DEF Told, c

(* More arguments of the last call. *)
LEMMA ArgumentsTold ==
  ASSUME NEW o, NEW before, NEW p, NEW n, NEW missed, NEW args, ~Garbled(missed),
         Begun(o, missed), "finish" \notin Kinds(o), Told(o, Append(before, p), n, missed),
         before \in Seq(Part), p \in CallPartType, n \in Nat, args \in Seq(ArgPiece)
  PROVE  LET c == CallChunk(n - 1, None, None, args)
         IN /\ n - 1 \in Nat
            /\ Told(Append(o, c), Append(before, [p EXCEPT !.args = @ \o args]), n, missed)
            /\ Begun(Append(o, c), missed) /\ "finish" \notin Kinds(Append(o, c))
<1> DEFINE c == CallChunk(n - 1, None, None, args)
<1> DEFINE after == Append(before, [p EXCEPT !.args = @ \o args])
<1>1. o \in Seq(Chunk) /\ WellFormed(o, missed) /\ Carries(o, Append(before, p), n, missed)
  BY DEF Told
<1>2. n # 0 /\ Carries(Append(o, c), after, n, missed)
  BY <1>1, CarriesArguments
<1>3. n - 1 \in Nat
  BY <1>2
<1>4. c \in Chunk /\ c.kind = "call" /\ c.index = n - 1 /\ ~Announces(c)
  BY <1>3, MoreIs
<1> HIDE DEF c, after
<1>5. c.index \in Indexes(o)
  BY <1>1, <1>3, <1>4 DEF Carries
<1>6. MayFollow(o, missed, c)
  BY <1>4, <1>5 DEF MayFollow, Begun
<1>7. WellFormed(Append(o, c), missed)
  BY <1>1, <1>4, <1>6, WriteOneMore
<1>8. Append(o, c) \in Seq(Chunk) /\ Kinds(Append(o, c)) = Kinds(o) \cup {"call"}
  BY <1>1, <1>4, WriteSets
<1>9. Begun(Append(o, c), missed)
  BY <1>4, StillBegun
<1> QED
  BY <1>2, <1>3, <1>7, <1>8, <1>9 DEF Told, c, after

(* After an event was missed: what was written stays told.  When it began a
   call, what is said is not what is written, but the indexes still are those
   of the calls that were written. *)
LEMMA MissedTold ==
  ASSUME NEW o, NEW parts, NEW n, NEW missed, NEW kind, Told(o, parts, n, missed)
  PROVE  Told(o, parts, n, missed \cup {kind})
BY WellFormedMissing, CarriesMissing DEF Told

LEMMA MissedBegun ==
  ASSUME NEW o, NEW missed, NEW kind, Begun(o, missed)
  PROVE  Begun(o, missed \cup {kind})
BY MissingMore DEF Begun

(* A call whose beginning was missed is told as the calls that were not. *)
LEMMA SkippedTold ==
  ASSUME NEW o, NEW before, NEW after, NEW n, NEW missed,
         Told(o, before, n, missed), TextSaid(after) = TextSaid(before)
  PROVE  Told(o, after, n, missed \cup {"content_block_start"})
<1>1. o \in Seq(Chunk) /\ WellFormed(o, missed) /\ Carries(o, before, n, missed)
  BY DEF Told
<1>2. WellFormed(o, missed \cup {"content_block_start"})
  BY <1>1, WellFormedMissing
<1>3. Carries(o, after, n, missed \cup {"content_block_start"})
  BY <1>1, GarbledPart
<1> QED
  BY <1>1, <1>2, <1>3 DEF Told

(* Once a call was missed it does not matter which calls are said. *)
LEMMA RetoldGarbled ==
  ASSUME NEW o, NEW before, NEW after, NEW n, NEW missed, Garbled(missed),
         Told(o, before, n, missed), TextSaid(after) = TextSaid(before)
  PROVE  Told(o, after, n, missed)
BY DEF Told, Carries

(* Arguments of a call whose beginning was lost break no rule. *)
LEMMA StrayTold ==
  ASSUME NEW o, NEW parts, NEW n, NEW missed, NEW i, NEW args, Garbled(missed),
         Begun(o, missed), "finish" \notin Kinds(o), Told(o, parts, n, missed),
         n \in Nat, i \in 0 .. n, args \in Seq(ArgPiece)
  PROVE  LET c == CallChunk(i, None, None, args)
         IN /\ Told(Append(o, c), parts, IF i = n THEN n + 1 ELSE n, missed)
            /\ Begun(Append(o, c), missed) /\ "finish" \notin Kinds(Append(o, c))
<1> DEFINE c == CallChunk(i, None, None, args)
<1>1. o \in Seq(Chunk) /\ WellFormed(o, missed) /\ Carries(o, parts, n, missed)
  BY DEF Told
<1>2. i \in Nat
  OBVIOUS
<1>3. c \in Chunk /\ c.kind = "call" /\ c.index = i /\ ~Announces(c)
  BY <1>2, MoreIs
<1> HIDE DEF c
<1>4. Carries(Append(o, c), parts, IF i = n THEN n + 1 ELSE n, missed)
  <2>1. c.index \in 0 .. n - 1 => Carries(Append(o, c), parts, n, missed)
    BY <1>1, <1>3, GarbledChunk
  <2>2. c.index = n => Carries(Append(o, c), parts, n + 1, missed)
    BY <1>1, <1>3, GarbledChunk
  <2>3. CASE i = n
    BY <1>3, <2>2, <2>3
  <2>4. CASE i # n
    <3>1. i \in 0 .. n - 1
      BY <2>4
    <3> QED
      BY <1>3, <2>1, <2>4, <3>1
  <2> QED
    BY <2>3, <2>4
<1>5. c.index \notin Indexes(o) => c.index = Cardinality(Indexes(o))
  <2>1. Indexes(o) = 0 .. n - 1
    BY <1>1 DEF Carries
  <2>2. i \notin 0 .. n - 1 => i = n
    OBVIOUS
  <2>3. Cardinality(0 .. n - 1) = n
    BY Interval
  <2> QED
    BY <1>3, <2>1, <2>2, <2>3
<1>6. MayFollow(o, missed, c)
  BY <1>3, <1>5 DEF MayFollow, Begun
<1>7. WellFormed(Append(o, c), missed)
  BY <1>1, <1>3, <1>6, WriteOneMore
<1>8. Append(o, c) \in Seq(Chunk) /\ Kinds(Append(o, c)) = Kinds(o) \cup {"call"}
  BY <1>1, <1>3, WriteSets
<1>9. Begun(Append(o, c), missed)
  BY <1>3, StillBegun
<1> QED
  BY <1>4, <1>7, <1>8, <1>9 DEF Told, c

(* A part of a Gemini chunk. *)
LEMMA PartTold ==
  ASSUME NEW o, NEW parts, NEW n, NEW missed, NEW p,
         Begun(o, missed), "finish" \notin Kinds(o), Told(o, parts, n, missed),
         parts \in Seq(Part), n \in Nat, None \notin Id, None \notin Name,
         p \in Part, p.type = "call" => p.id = None
  PROVE  LET c == PartWritten(n, p)
         IN /\ Told(Append(o, c), Append(parts, p), n + Counted(p), missed)
            /\ Begun(Append(o, c), missed) /\ "finish" \notin Kinds(Append(o, c))
<1>1. CASE p.type = "text"
  <2>1. p.text \in Seq(TextPiece)
    BY <1>1, PartCases
  <2>2. TextSaid(Append(parts, p)) = TextSaid(parts) \o p.text
    BY <1>1, SayOneMore
  <2>3. CallsOf(Append(parts, p)) = CallsOf(parts)
    <3>1. CallsOf(parts) \in Seq(CallPartType) /\ CallsOf(Append(parts, p)) = CallsOf(parts) \o << >>
      BY <1>1, CallOneMore
    <3> QED
      BY <3>1
  <2>4. PartWritten(n, p) = TextChunk(p.text) /\ n + Counted(p) = n
    BY <1>1 DEF PartWritten, Counted
  <2> QED
    BY <2>1, <2>2, <2>3, <2>4, TextTold
<1>2. CASE p.type = "call"
  <2>1. p \in CallPartType /\ p.id = None
    BY <1>2, PartCases
  <2>2. << "call", n >> \in Id
    BY DEF Id
  <2>3. PartWritten(n, p) = CallChunk(n, << "call", n >>, p.name, p.args) /\ n + Counted(p) = n + 1
    BY <1>2 DEF PartWritten, Counted
  <2> QED
    BY <2>1, <2>2, <2>3, CallTold
<1> QED
  BY <1>1, <1>2, PartCases
=============================================================================
