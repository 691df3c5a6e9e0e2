------------------------- MODULE NodeSessionProofs -------------------------
(***************************************************************************)
(* Proofs about a session, for any command files, any number of commands,  *)
(* ticks and keepalives, and a node that sends its output in any pieces.   *)
(***************************************************************************)
EXTENDS NodeSessionProps, SequenceTheorems, FiniteSetTheorems, WellFoundedInduction, TLAPS

-----------------------------------------------------------------------------
(* Sequences                                                               *)

\* A set of natural numbers that is not empty has a least member.
LEMMA Least ==
  ASSUME NEW S, S \subseteq Nat, S # {}
  PROVE  \E x \in S : \A y \in S : x <= y
<1> DEFINE R == {p \in Nat \X Nat : p[1] < p[2]}
<1>1. IsWellFoundedOn(R, Nat)
  BY NatLessThanWellFounded DEF OpToRel
<1>2. \A x, y \in Nat : x < y => <<x, y>> \in R
  OBVIOUS
<1> HIDE DEF R
<1>3. PICK x \in S : \A y \in S : ~ (<<y, x>> \in R)
  BY <1>1, WFMin
<1>4. ASSUME NEW y \in S PROVE x <= y
  <2>1. x \in Nat /\ y \in Nat /\ <<y, x>> \notin R
    BY <1>3
  <2>2. ~ (y < x)
    BY <1>2, <2>1
  <2>3. QED
    BY <2>1, <2>2
<1>5. QED
  BY <1>4

\* What FlattenSeq builds, piece by piece.
LEMMA FlattenUnfolds ==
  ASSUME NEW T, NEW s \in Seq(Seq(T)), s # <<>>
  PROVE  \E f \in [1 .. Len(s) -> Seq(T)] :
           /\ f[1] = s[1]
           /\ \A i \in 2 .. Len(s) : f[i] = f[i - 1] \o s[i]
           /\ FlattenSeq(s) = f[Len(s)]
<1> DEFINE Unfolds(f, m) == /\ f \in [1 .. m -> Seq(T)]
                            /\ f[1] = s[1]
                            /\ \A i \in 2 .. m : f[i] = f[i - 1] \o s[i]
           Bad == {m \in 1 .. Len(s) : ~ \E f : Unfolds(f, m)}
           F == CHOOSE f : f = [i \in 1 .. Len(s) |-> IF i = 1 THEN s[i] ELSE f[i - 1] \o s[i]]
<1>0. Len(s) \in Nat \ {0} /\ \A i \in 1 .. Len(s) : s[i] \in Seq(T)
  OBVIOUS
<1>1. ASSUME NEW m \in 2 .. Len(s), NEW f, Unfolds(f, m - 1)
      PROVE  \E g : Unfolds(g, m)
  <2> DEFINE g == [i \in 1 .. m |-> IF i = m THEN f[m - 1] \o s[m] ELSE f[i]]
  <2>1. f[m - 1] \in Seq(T) /\ f[m - 1] \o s[m] \in Seq(T)
    BY <1>0, <1>1
  <2>2. g \in [1 .. m -> Seq(T)]
    BY <1>0, <1>1, <2>1
  <2>3. g[1] = s[1]
    BY <1>0, <1>1
  <2>4. ASSUME NEW i \in 2 .. m PROVE g[i] = g[i - 1] \o s[i]
    <3>1. i - 1 \in 1 .. m /\ i - 1 # m /\ i \in 1 .. m
      BY <1>0
    <3>2. g[i - 1] = f[i - 1]
      BY <3>1
    <3>3. CASE i = m
      BY <3>1, <3>2, <3>3
    <3>4. CASE i # m
      <4>1. i \in 2 .. m - 1 /\ g[i] = f[i]
        BY <1>0, <3>1, <3>4
      <4>2. QED
        BY <1>1, <3>2, <4>1
    <3>5. QED
      BY <3>3, <3>4
  <2> HIDE DEF g
  <2>5. Unfolds(g, m)
    BY <2>2, <2>3, <2>4
  <2>6. QED
    BY <2>5
<1>2. \E f : Unfolds(f, 1)
  <2>1. Unfolds([i \in 1 .. 1 |-> s[1]], 1)
    BY <1>0
  <2>2. QED
    BY <2>1
<1> HIDE DEF Unfolds
<1>3. Bad = {}
  <2>1. SUFFICES ASSUME Bad # {} PROVE FALSE
    OBVIOUS
  <2>2. Bad \subseteq Nat
    BY <1>0
  <2> HIDE DEF Bad
  <2>3. PICK m \in Bad : \A k \in Bad : m <= k
    BY <2>1, <2>2, Least
  <2> USE DEF Bad
  <2>4. m # 1
    BY <1>2
  <2>5. m \in 2 .. Len(s) /\ m - 1 \in 1 .. Len(s) /\ m - 1 < m
    BY <1>0, <2>3, <2>4
  <2>6. m - 1 \notin Bad
    <3> HIDE DEF Bad
    <3>1. QED
      BY <2>2, <2>3, <2>5
  <2>7. QED
    BY <1>1, <2>5, <2>6
<1>4. PICK f : Unfolds(f, Len(s))
  <2>1. Len(s) \in 1 .. Len(s)
    BY <1>0
  <2>2. QED
    BY <1>3, <2>1
<1> USE DEF Unfolds
<1>5. f = [i \in 1 .. Len(s) |-> IF i = 1 THEN s[i] ELSE f[i - 1] \o s[i]]
  <2>1. f \in [1 .. Len(s) -> Seq(T)]
    BY <1>4
  <2>2. \A i \in 1 .. Len(s) : f[i] = IF i = 1 THEN s[i] ELSE f[i - 1] \o s[i]
    <3>1. \A i \in 1 .. Len(s) : i # 1 => i \in 2 .. Len(s)
      BY <1>0
    <3>2. QED
      BY <1>4, <3>1
  <2>3. QED
    BY <2>1, <2>2
<1>6. F = [i \in 1 .. Len(s) |-> IF i = 1 THEN s[i] ELSE F[i - 1] \o s[i]]
  BY <1>5
<1>7. FlattenSeq(s) = F[Len(s)]
  BY <1>0 DEF FlattenSeq
<1> HIDE DEF F
<1>8. F[1] = s[1] /\ \A i \in 2 .. Len(s) : F[i] = F[i - 1] \o s[i]
  <2>1. \A i \in 1 .. Len(s) : F[i] = IF i = 1 THEN s[i] ELSE F[i - 1] \o s[i]
    BY <1>6
  <2>2. 1 \in 1 .. Len(s) /\ \A i \in 2 .. Len(s) : i \in 1 .. Len(s) /\ i # 1
    BY <1>0
  <2>3. QED
    BY <2>1, <2>2
<1>9. \A i \in 1 .. Len(s) : F[i] = f[i]
  <2> DEFINE Off == {i \in 1 .. Len(s) : F[i] # f[i]}
  <2>1. SUFFICES ASSUME Off # {} PROVE FALSE
    OBVIOUS
  <2>2. Off \subseteq Nat
    BY <1>0
  <2> HIDE DEF Off
  <2>3. PICK m \in Off : \A k \in Off : m <= k
    BY <2>1, <2>2, Least
  <2> USE DEF Off
  <2>4. m # 1
    BY <1>4, <1>8
  <2>5. m \in 2 .. Len(s) /\ m - 1 \in 1 .. Len(s) /\ m - 1 < m
    BY <1>0, <2>3, <2>4
  <2>6. m - 1 \notin Off
    <3> HIDE DEF Off
    <3>1. QED
      BY <2>2, <2>3, <2>5
  <2>7. QED
    BY <1>4, <1>8, <2>5, <2>6
<1>10. QED
  <2>1. FlattenSeq(s) = f[Len(s)]
    BY <1>0, <1>7, <1>9
  <2>2. QED
    BY <1>4, <2>1
\* One more piece, one more stretch of text.
LEMMA FlattenAppend ==
  ASSUME NEW T, NEW s \in Seq(Seq(T)), NEW e \in Seq(T)
  PROVE  /\ FlattenSeq(s) \in Seq(T)
         /\ FlattenSeq(Append(s, e)) = FlattenSeq(s) \o e
<1> DEFINE t == Append(s, e)
<1>1. /\ t \in Seq(Seq(T)) /\ t # <<>> /\ Len(t) = Len(s) + 1 /\ Len(s) \in Nat
      /\ \A i \in 1 .. Len(s) : t[i] = s[i]
      /\ t[Len(s) + 1] = e
  BY AppendProperties
<1> HIDE DEF t
<1>2. PICK g \in [1 .. Len(t) -> Seq(T)] :
        /\ g[1] = t[1] /\ \A i \in 2 .. Len(t) : g[i] = g[i - 1] \o t[i]
        /\ FlattenSeq(t) = g[Len(t)]
  BY <1>1, FlattenUnfolds
<1>3. CASE s = <<>>
  <2>1. FlattenSeq(s) = <<>>
    BY <1>3 DEF FlattenSeq
  <2>2. FlattenSeq(t) = e
    BY <1>1, <1>2, <1>3
  <2>3. QED
    BY <2>1, <2>2 DEF t
<1>4. CASE s # <<>>
  <2>1. Len(s) \in 1 .. Len(s) /\ Len(t) \in 2 .. Len(t) /\ Len(t) - 1 = Len(s)
    BY <1>1, <1>4
  <2>2. PICK f \in [1 .. Len(s) -> Seq(T)] :
          /\ f[1] = s[1] /\ \A i \in 2 .. Len(s) : f[i] = f[i - 1] \o s[i]
          /\ FlattenSeq(s) = f[Len(s)]
    BY <1>4, FlattenUnfolds
  <2>3. \A i \in 1 .. Len(s) : f[i] = g[i]
    <3> DEFINE Off == {i \in 1 .. Len(s) : f[i] # g[i]}
    <3>1. SUFFICES ASSUME Off # {} PROVE FALSE
      OBVIOUS
    <3>2. Off \subseteq Nat
      BY <1>1
    <3> HIDE DEF Off
    <3>3. PICK m \in Off : \A k \in Off : m <= k
      BY <3>1, <3>2, Least
    <3> USE DEF Off
    <3>4. m # 1
      BY <1>1, <1>2, <2>1, <2>2
    <3>5. m \in 2 .. Len(s) /\ m \in 2 .. Len(t) /\ m - 1 \in 1 .. Len(s) /\ m - 1 < m
      BY <1>1, <3>3, <3>4
    <3>6. m - 1 \notin Off
      <4> HIDE DEF Off
      <4>1. QED
        BY <3>2, <3>3, <3>5
    <3>7. QED
      <4>1. f[m - 1] = g[m - 1] /\ t[m] = s[m]
        BY <1>1, <3>5, <3>6
      <4>2. f[m] = f[m - 1] \o s[m] /\ g[m] = g[m - 1] \o t[m]
        BY <1>2, <2>2, <3>5
      <4>3. QED
        BY <3>3, <4>1, <4>2
  <2>4. FlattenSeq(t) = f[Len(s)] \o e
    <3>1. t[Len(t)] = e
      BY <1>1, <2>1
    <3>2. g[Len(t)] = g[Len(t) - 1] \o t[Len(t)]
      BY <1>2, <2>1
    <3>3. g[Len(t) - 1] = f[Len(s)]
      BY <2>1, <2>3
    <3>4. QED
      BY <1>2, <3>1, <3>2, <3>3
  <2>5. FlattenSeq(s) \in Seq(T)
    <3>1. f[Len(s)] \in Seq(T)
      BY <2>1, <2>2
    <3>2. QED
      BY <2>2, <3>1
  <2>6. QED
    BY <2>2, <2>4, <2>5 DEF t
<1>5. QED
  BY <1>3, <1>4

-----------------------------------------------------------------------------
(* The operators of the model                                              *)

\* A command file holds commands once blank lines and comments are gone.
LEMMA ReadsCommands ==
  ASSUME NEW f \in Seq(Commands \cup Blanks)
  PROVE  ReadCommandFile(f) \in Seq(Commands)
<1> DEFINE s == [i \in DOMAIN f |-> IF f[i] \in Blanks THEN <<>> ELSE <<f[i]>>]
<1>1. DOMAIN f = 1 .. Len(f) /\ Len(f) \in Nat
  OBVIOUS
<1>2. ASSUME NEW i \in DOMAIN f
      PROVE  (IF f[i] \in Blanks THEN <<>> ELSE <<f[i]>>) \in Seq(Commands)
  <2>1. f[i] \in Commands \cup Blanks
    OBVIOUS
  <2>2. f[i] \in Commands => <<f[i]>> \in Seq(Commands)
    OBVIOUS
  <2>3. QED
    BY <2>1, <2>2
<1>3. s \in Seq(Seq(Commands))
  BY <1>1, <1>2
<1>4. FlattenSeq(s) \in Seq(Commands)
  <2> HIDE DEF s
  <2>1. QED
    BY <1>3, FlattenAppend
<1>5. QED
  BY <1>4 DEF ReadCommandFile, Without

\* The texts of the pieces are a text.
LEMMA TextsTyped ==
  ASSUME NEW k \in Seq(Pieces)
  PROVE  FlattenSeq([i \in DOMAIN k |-> k[i].text]) \in Seq(Tokens)
<1> DEFINE s == [i \in DOMAIN k |-> k[i].text]
<1>1. \A i \in DOMAIN k : k[i].text \in Seq(Tokens)
  <2>1. \A i \in DOMAIN k : k[i] \in Pieces
    OBVIOUS
  <2>2. QED
    BY <2>1 DEF Pieces
<1>2. s \in Seq(Seq(Tokens))
  BY <1>1
<1> HIDE DEF s
<1>3. FlattenSeq(s) \in Seq(Tokens)
  BY <1>2, FlattenAppend
<1>4. QED
  BY <1>3 DEF s

\* One piece more.
LEMMA TextsAppend ==
  ASSUME NEW k \in Seq(Pieces), NEW r \in Pieces
  PROVE  FlattenSeq([i \in DOMAIN Append(k, r) |-> Append(k, r)[i].text])
           = FlattenSeq([i \in DOMAIN k |-> k[i].text]) \o r.text
<1> DEFINE s == [i \in DOMAIN k |-> k[i].text]
           t == [i \in DOMAIN Append(k, r) |-> Append(k, r)[i].text]
<1>1. r.text \in Seq(Tokens) /\ \A i \in DOMAIN k : k[i].text \in Seq(Tokens)
  <2>1. \A i \in DOMAIN k : k[i] \in Pieces
    OBVIOUS
  <2>2. QED
    BY <2>1 DEF Pieces
<1>2. s \in Seq(Seq(Tokens)) /\ Len(s) = Len(k)
  BY <1>1
<1>3. t = Append(s, r.text)
  <2>1. /\ DOMAIN Append(k, r) = 1 .. Len(k) + 1 /\ Len(k) \in Nat
        /\ \A i \in 1 .. Len(k) : Append(k, r)[i] = k[i]
        /\ Append(k, r)[Len(k) + 1] = r
    BY AppendProperties
  <2>2. /\ DOMAIN Append(s, r.text) = 1 .. Len(k) + 1
        /\ \A i \in 1 .. Len(k) : Append(s, r.text)[i] = s[i]
        /\ Append(s, r.text)[Len(k) + 1] = r.text
        /\ Append(s, r.text) = [i \in 1 .. Len(k) + 1 |-> Append(s, r.text)[i]]
    BY <1>1, <1>2, AppendProperties
  <2>3. \A i \in 1 .. Len(k) + 1 : Append(k, r)[i].text = Append(s, r.text)[i]
    <3>1. \A i \in 1 .. Len(k) + 1 : i \in 1 .. Len(k) \/ i = Len(k) + 1
      BY <2>1
    <3>2. \A i \in 1 .. Len(k) : s[i] = k[i].text
      OBVIOUS
    <3>3. QED
      BY <2>1, <2>2, <3>1, <3>2
  <2>4. QED
    BY <2>1, <2>2, <2>3
<1>4. QED
  BY <1>1, <1>2, <1>3, FlattenAppend

\* The signs in two texts, one after the other.
LEMMA SignsConcat ==
  ASSUME NEW a \in Seq(Tokens), NEW b \in Seq(Tokens)
  PROVE  /\ Signs(a) \in Nat /\ Signs(b) \in Nat
         /\ Signs(a \o b) = Signs(a) + Signs(b)
<1> DEFINE A == {i \in DOMAIN a : a[i].is \in Modes}
           B == {i \in DOMAIN b : b[i].is \in Modes}
           C == {i \in DOMAIN (a \o b) : (a \o b)[i].is \in Modes}
           D == {i \in C : i > Len(a)}
<1>1. /\ Len(a) \in Nat /\ Len(b) \in Nat
      /\ DOMAIN a = 1 .. Len(a) /\ DOMAIN b = 1 .. Len(b)
      /\ DOMAIN (a \o b) = 1 .. Len(a) + Len(b)
      /\ \A i \in 1 .. Len(a) : (a \o b)[i] = a[i]
      /\ \A i \in 1 .. Len(b) : (a \o b)[Len(a) + i] = b[i]
  <2>1. /\ Len(a \o b) = Len(a) + Len(b) /\ a \o b \in Seq(Tokens)
        /\ \A i \in 1 .. Len(a) + Len(b) : (a \o b)[i] = IF i <= Len(a) THEN a[i] ELSE b[i - Len(a)]
    BY ConcatProperties
  <2>2. QED
    BY <2>1
<1>2. IsFiniteSet(A) /\ IsFiniteSet(B) /\ IsFiniteSet(C) /\ IsFiniteSet(D)
  <2>1. IsFiniteSet(1 .. Len(a)) /\ IsFiniteSet(1 .. Len(b)) /\ IsFiniteSet(1 .. Len(a) + Len(b))
    BY <1>1, FS_Interval
  <2>2. A \subseteq 1 .. Len(a) /\ B \subseteq 1 .. Len(b) /\ C \subseteq 1 .. Len(a) + Len(b)
        /\ D \subseteq 1 .. Len(a) + Len(b)
    BY <1>1
  <2> HIDE DEF A, B, C, D
  <2>3. QED
    BY <2>1, <2>2, FS_Subset
<1>3. C = A \cup D /\ A \cap D = {}
  BY <1>1
<1>4. Cardinality(D) = Cardinality(B)
  <2> DEFINE f == [i \in B |-> i + Len(a)]
  <2>1. \A i \in B : i + Len(a) \in D
    BY <1>1
  <2>2. \A j \in D : j - Len(a) \in B /\ (j - Len(a)) + Len(a) = j
    BY <1>1
  <2>3. f \in [B -> D]
    BY <2>1
  <2>4. \A i, j \in B : f[i] = f[j] => i = j
    BY <1>1
  <2>5. \A j \in D : \E i \in B : f[i] = j
    BY <2>2
  <2>6. f \in Bijection(B, D)
    <3> HIDE DEF f, B, D
    <3>1. QED
      BY <2>3, <2>4, <2>5 DEF Bijection, Injection, Surjection, IsInjective
  <2> HIDE DEF f, B, D
  <2>7. QED
    BY <1>2, <2>6, FS_Bijection DEF ExistsBijection
<1>5. /\ Cardinality(A) \in Nat /\ Cardinality(B) \in Nat
      /\ Cardinality(C) = Cardinality(A) + Cardinality(B)
  <2> HIDE DEF A, B, C, D
  <2>1. /\ Cardinality(A) \in Nat /\ Cardinality(B) \in Nat
        /\ Cardinality(A \cap D) = 0
        /\ Cardinality(A \cup D) = Cardinality(A) + Cardinality(D) - Cardinality(A \cap D)
    BY <1>2, <1>3, FS_CardinalityType, FS_Union, FS_EmptySet
  <2>2. QED
    BY <1>3, <1>4, <2>1
<1>6. QED
  BY <1>5 DEF Signs

\* A sequence cut in two.
LEMMA SplitFacts ==
  ASSUME NEW S, NEW s \in Seq(S), NEW m \in 1 .. Len(s)
  PROVE  /\ SubSeq(s, 1, m) \in Seq(S) /\ Len(SubSeq(s, 1, m)) = m
         /\ SubSeq(s, m + 1, Len(s)) \in Seq(S)
         /\ Len(SubSeq(s, m + 1, Len(s))) = Len(s) - m
         /\ SubSeq(s, 1, m) \o SubSeq(s, m + 1, Len(s)) = s
<1>1. Len(s) \in Nat /\ m \in Nat /\ \A i \in 1 .. Len(s) : s[i] \in S
  OBVIOUS
<1>2. SubSeq(s, 1, m) \in Seq(S) /\ Len(SubSeq(s, 1, m)) = m
  BY <1>1
<1>3. SubSeq(s, m + 1, Len(s)) \in Seq(S) /\ Len(SubSeq(s, m + 1, Len(s))) = Len(s) - m
  BY <1>1
<1>4. SubSeq(s, 1, m) \o SubSeq(s, m + 1, Len(s)) = SubSeq(s, 1, Len(s))
  BY <1>1, ConcatAdjacentSubSeq
<1>5. SubSeq(s, 1, Len(s)) = s
  BY <1>1, SubSeqFull
<1>6. QED
  BY <1>2, <1>3, <1>4, <1>5

\* w is what was read before, the buffer b and the rest o of the node's
\* output; one Read takes c of it, and t is the text the prompt is sought in.
Stretch(a, b, c, d, t, o, w) == t = b \o c /\ o = c \o d /\ w = (a \o b) \o o

LEMMA StretchFacts ==
  ASSUME NEW S, NEW a \in Seq(S), NEW b \in Seq(S), NEW c \in Seq(S), NEW d \in Seq(S),
         NEW t, NEW o, NEW w, Stretch(a, b, c, d, t, o, w)
  PROVE  /\ t \in Seq(S) /\ Len(t) = Len(b) + Len(c)
         /\ (a \o t) \o d = w
         /\ Len(w) = Len(a) + Len(b) + Len(c) + Len(d)
         /\ \A i \in 1 .. Len(b) : t[i] = b[i]
         /\ \A i \in 1 .. Len(c) : t[Len(b) + i] = c[i]
         /\ \A i \in 1 .. Len(b) + Len(c) : t[i] = w[Len(a) + i]
<1>1. t \in Seq(S) /\ Len(t) = Len(b) + Len(c)
  BY DEF Stretch
<1>2. (a \o t) \o d = w
  <2>1. (a \o b) \o (c \o d) = (a \o (b \o c)) \o d
    BY SMTT(60)
  <2>2. QED
    BY <2>1 DEF Stretch
<1>3. Len(w) = Len(a) + Len(b) + Len(c) + Len(d)
  BY DEF Stretch
<1>4. \A i \in 1 .. Len(b) : t[i] = b[i]
  BY DEF Stretch
<1>5. \A i \in 1 .. Len(c) : t[Len(b) + i] = c[i]
  BY DEF Stretch
<1>6. \A i \in 1 .. Len(b) + Len(c) : t[i] = w[Len(a) + i]
  BY DEF Stretch
<1>7. QED
  BY <1>1, <1>2, <1>3, <1>4, <1>5, <1>6

\* One Read takes m tokens: pre of the node's output, and it leaves rest.
Takes(m, pre, text, rest) ==
  /\ m \in 1 .. Len(out) /\ pre = SubSeq(out, 1, m)
  /\ text = buf \o pre /\ rest = SubSeq(out, m + 1, Len(out))

\* Between what was kept and rest stands text, and nothing is missing.
Whole(text, rest) == (Texts \o text) \o rest = sent

\* The text the prompt is sought in is a stretch of what the node has sent.
LEMMA ReadFacts ==
  ASSUME TypeOK, Intact, NEW m, NEW pre, NEW text, NEW rest, Takes(m, pre, text, rest)
  PROVE  /\ m \in 1 .. Len(out) /\ pre \in Seq(Tokens) /\ text \in Seq(Tokens) /\ rest \in Seq(Tokens)
         /\ Len(buf) \in Nat /\ Len(out) \in Nat /\ Len(sent) \in Nat /\ Len(pre) = m
         /\ Len(text) = Len(buf) + m /\ Len(rest) = Len(out) - m
         /\ pre \o rest = out
         /\ Whole(text, rest)
         /\ Texts \in Seq(Tokens) /\ Len(Texts) \in Nat /\ Got = Len(Texts) + Len(buf)
         /\ \A i \in 1 .. Len(text) : text[i] = sent[Len(Texts) + i]
         /\ \A i \in 1 .. Len(buf) : text[i] = buf[i]
         /\ \A i \in 1 .. m : text[Len(buf) + i] = pre[i]
<1>1. /\ buf \in Seq(Tokens) /\ out \in Seq(Tokens) /\ sent \in Seq(Tokens)
      /\ Len(buf) \in Nat /\ Len(out) \in Nat /\ Len(sent) \in Nat /\ m \in 1 .. Len(out)
      /\ Texts \in Seq(Tokens) /\ Len(Texts) \in Nat
  <2>1. kept \in Seq(Pieces) /\ buf \in Seq(Tokens) /\ out \in Seq(Tokens) /\ sent \in Seq(Tokens)
    BY DEF TypeOK
  <2>2. Texts \in Seq(Tokens)
    BY <2>1, TextsTyped DEF Texts
  <2>3. m \in 1 .. Len(out)
    BY DEF Takes
  <2>4. QED
    BY <2>1, <2>2, <2>3
<1>2. /\ pre \in Seq(Tokens) /\ Len(pre) = m /\ rest \in Seq(Tokens)
      /\ Len(rest) = Len(out) - m /\ pre \o rest = out
  <2>1. \A k \in 1 .. Len(out) :
          LET x == SubSeq(out, 1, k)
              y == SubSeq(out, k + 1, Len(out))
          IN  /\ x \in Seq(Tokens) /\ Len(x) = k
              /\ y \in Seq(Tokens) /\ Len(y) = Len(out) - k /\ x \o y = out
    BY <1>1, SplitFacts
  <2>2. QED
    BY <1>1, <2>1 DEF Takes
<1>3. /\ text \in Seq(Tokens) /\ Len(text) = Len(buf) + Len(pre)
      /\ (Texts \o text) \o rest = sent
      /\ Len(sent) = Len(Texts) + Len(buf) + Len(pre) + Len(rest)
      /\ \A i \in 1 .. Len(buf) : text[i] = buf[i]
      /\ \A i \in 1 .. Len(pre) : text[Len(buf) + i] = pre[i]
      /\ \A i \in 1 .. Len(buf) + Len(pre) : text[i] = sent[Len(Texts) + i]
  <2>1. Stretch(Texts, buf, pre, rest, text, out, sent)
    BY <1>2 DEF Stretch, Intact, Takes
  <2>2. buf \in Seq(Tokens) /\ Texts \in Seq(Tokens) /\ pre \in Seq(Tokens) /\ rest \in Seq(Tokens)
    BY <1>1, <1>2
  <2>3. QED
    BY ONLY <2>1, <2>2, StretchFacts, SMTT(60)
<1>4. Got = Len(Texts) + Len(buf)
  BY <1>1, <1>2, <1>3 DEF Got
<1>5. Whole(text, rest)
  BY <1>3 DEF Whole
<1>6. QED
  BY <1>1, <1>2, <1>3, <1>4, <1>5

\* The replies among the pieces, when one piece is kept more.
LEMMA ReturnedAppend ==
  ASSUME NEW k \in Seq(Pieces), NEW r \in Pieces
  PROVE  LET R(s) == Cardinality({i \in DOMAIN s : s[i].why \in {"match", "eof"}})
         IN  /\ R(k) \in Nat
             /\ R(Append(k, r)) = R(k) + (IF r.why \in {"match", "eof"} THEN 1 ELSE 0)
<1> DEFINE A == {i \in DOMAIN k : k[i].why \in {"match", "eof"}}
           B == {i \in DOMAIN Append(k, r) : Append(k, r)[i].why \in {"match", "eof"}}
<1>1. /\ DOMAIN k = 1 .. Len(k) /\ DOMAIN Append(k, r) = 1 .. Len(k) + 1 /\ Len(k) \in Nat
      /\ \A i \in 1 .. Len(k) : Append(k, r)[i] = k[i]
      /\ Append(k, r)[Len(k) + 1] = r
  BY AppendProperties
<1>2. IsFiniteSet(A) /\ Len(k) + 1 \notin A
  <2>1. IsFiniteSet(1 .. Len(k))
    BY <1>1, FS_Interval
  <2>2. A \subseteq 1 .. Len(k)
    BY <1>1
  <2>3. Len(k) + 1 \notin A
    BY <1>1, <2>2
  <2> HIDE DEF A
  <2>4. QED
    BY <2>1, <2>2, <2>3, FS_Subset
<1>3. B = IF r.why \in {"match", "eof"} THEN A \cup {Len(k) + 1} ELSE A
  <2>1. \A i \in 1 .. Len(k) + 1 : i \in 1 .. Len(k) \/ i = Len(k) + 1
    BY <1>1
  <2>2. \A i \in 1 .. Len(k) : i \in B <=> i \in A
    BY <1>1
  <2>3. Len(k) + 1 \in B <=> r.why \in {"match", "eof"}
    BY <1>1
  <2>4. A \subseteq 1 .. Len(k) + 1 /\ B \subseteq 1 .. Len(k) + 1
    BY <1>1
  <2> DEFINE z == Len(k) + 1
  <2>5. z \in 1 .. z /\ z \notin A
    BY <1>1, <1>2
  <2> HIDE DEF A, B, z
  <2>6. CASE r.why \in {"match", "eof"}
    <3>1. \A i \in 1 .. z : i \in B <=> i \in A \cup {z}
      BY <2>1, <2>2, <2>3, <2>5, <2>6 DEF z
    <3>2. B = A \cup {z}
      BY <2>4, <2>5, <3>1 DEF z
    <3>3. QED
      BY <2>6, <3>2 DEF z
  <2>7. CASE r.why \notin {"match", "eof"}
    <3>1. \A i \in 1 .. z : i \in B <=> i \in A
      BY <2>1, <2>2, <2>3, <2>5, <2>7 DEF z
    <3>2. B = A
      BY <2>4, <3>1 DEF z
    <3>3. QED
      BY <2>7, <3>2
  <2>8. QED
    BY <2>6, <2>7
<1>4. Cardinality(A) \in Nat /\ Cardinality(A \cup {Len(k) + 1}) = Cardinality(A) + 1
  <2> HIDE DEF A
  <2>1. QED
    BY <1>2, FS_CardinalityType, FS_AddElement
<1>5. Cardinality(B) = Cardinality(A) + (IF r.why \in {"match", "eof"} THEN 1 ELSE 0)
  <2> HIDE DEF A, B
  <2>1. QED
    BY <1>3, <1>4
<1>6. QED
  BY <1>4, <1>5

\* One token holds one sign or none.
LEMMA SignsToken ==
  ASSUME NEW x \in Tokens
  PROVE  /\ <<x>> \in Seq(Tokens)
         /\ Signs(<<x>>) = IF x.is \in Modes THEN 1 ELSE 0
<1> DEFINE A == {i \in DOMAIN <<x>> : <<x>>[i].is \in Modes}
<1>1. DOMAIN <<x>> = {1} /\ <<x>>[1] = x
  OBVIOUS
<1>2. A = IF x.is \in Modes THEN {1} ELSE {}
  BY <1>1
<1> HIDE DEF A
<1>3. Cardinality(A) = IF x.is \in Modes THEN 1 ELSE 0
  BY <1>2, FS_Singleton, FS_EmptySet
<1>4. QED
  BY <1>3 DEF A, Signs

\* A text with a sign in it.
LEMMA SignsSome ==
  ASSUME NEW s \in Seq(Tokens), NEW i \in 1 .. Len(s), s[i].is \in Modes
  PROVE  Signs(s) >= 1
<1> DEFINE A == {j \in DOMAIN s : s[j].is \in Modes}
<1>1. DOMAIN s = 1 .. Len(s) /\ Len(s) \in Nat
  OBVIOUS
<1>2. IsFiniteSet(A)
  <2>1. IsFiniteSet(1 .. Len(s)) /\ A \subseteq 1 .. Len(s)
    BY <1>1, FS_Interval
  <2> HIDE DEF A
  <2>2. QED
    BY <2>1, FS_Subset
<1>3. A # {}
  BY <1>1
<1> HIDE DEF A
<1>4. Cardinality(A) \in Nat /\ Cardinality(A) # 0
  BY <1>2, <1>3, FS_CardinalityType, FS_EmptySet
<1>5. QED
  BY <1>4 DEF A, Signs

\* The empty text holds none.
LEMMA SignsNone == <<>> \in Seq(Tokens) /\ Signs(<<>>) = 0
<1>1. {i \in DOMAIN <<>> : <<>>[i].is \in Modes} = {}
  OBVIOUS
<1>2. QED
  BY <1>1, FS_EmptySet DEF Signs

\* The prompt holds one sign, its last token.
LEMMA PromptFacts ==
  ASSUME NEW k \in Nat, NEW mode \in Modes
  PROVE  /\ Prompt(k, mode) \in Seq(Tokens) /\ Len(Prompt(k, mode)) = 2
         /\ Prompt(k, mode)[1] = Token("name", k) /\ Prompt(k, mode)[2] = Token(mode, k)
         /\ Signs(Prompt(k, mode)) = 1
<1>1. /\ Token("name", k) \in Tokens /\ Token("name", k).is \notin Modes
      /\ Token(mode, k) \in Tokens /\ Token(mode, k).is \in Modes
  BY DEF Token, Tokens, Modes
<1>2. DOMAIN Prompt(k, mode) = {1, 2} /\ Len(Prompt(k, mode)) = 2
  BY DEF Prompt
<1>3. Prompt(k, mode)[1] = Token("name", k) /\ Prompt(k, mode)[2] = Token(mode, k)
  BY DEF Prompt
<1>4. Prompt(k, mode) \in Seq(Tokens)
  <2>1. \A x, y \in Tokens : <<x, y>> \in Seq(Tokens)
    OBVIOUS
  <2>2. QED
    BY <1>1, <2>1 DEF Prompt
<1>5. {i \in DOMAIN Prompt(k, mode) : Prompt(k, mode)[i].is \in Modes} = {2}
  BY <1>1, <1>2, <1>3
<1>6. Signs(Prompt(k, mode)) = 1
  BY <1>5, FS_Singleton DEF Signs
<1>7. QED
  BY <1>2, <1>3, <1>4, <1>6

\* The answer to a line: its output, unless it has none, and the prompts.
Answer(cmd, k, mode) ==
  (IF cmd = "dumb" THEN <<>> ELSE <<Token("body", k)>>) \o Prompts(k, mode)

\* The prompts after a line: as many signs as it counts for, and the last
\* two tokens are a name and the node's mode.
LEMMA PromptsFacts ==
  ASSUME NEW k \in Nat, NEW mode \in Modes
  PROVE  LET s == Prompts(k, mode) IN
         /\ s \in Seq(Tokens) /\ Len(s) = 2 * PerLine /\ Signs(s) = PerLine
         /\ s[Len(s) - 1] = Token("name", k) /\ s[Len(s)] = Token(mode, k)
         /\ \A i \in 1 .. Len(s) : s[i].line = k
<1>1. PICK q \in Seq(Tokens) : q = Prompt(k, mode)
  BY PromptFacts
<1>2. Len(q) = 2 /\ q[1] = Token("name", k) /\ q[2] = Token(mode, k) /\ Signs(q) = 1
  BY <1>1, PromptFacts
<1>3. Token("name", k).line = k /\ Token(mode, k).line = k
  BY DEF Token
<1>4. CASE ~node.doubles
  <2>1. Prompts(k, mode) = q /\ PerLine = 1
    BY <1>1, <1>4 DEF Prompts, PerLine
  <2>2. \A i \in 1 .. Len(q) : q[i].line = k
    <3>1. \A i \in 1 .. 2 : i = 1 \/ i = 2
      OBVIOUS
    <3>2. QED
      BY <1>2, <1>3, <3>1
  <2>3. Len(q) - 1 = 1 /\ 2 * PerLine = 2
    BY <1>2, <2>1
  <2>4. QED
    BY <1>2, <2>1, <2>2, <2>3
<1>5. CASE node.doubles
  <2>1. Prompts(k, mode) = q \o q /\ PerLine = 2
    BY <1>1, <1>5 DEF Prompts, PerLine
  <2>2. /\ q \o q \in Seq(Tokens) /\ Len(q \o q) = Len(q) + Len(q)
        /\ \A i \in 1 .. Len(q) + Len(q) :
             (q \o q)[i] = IF i <= Len(q) THEN q[i] ELSE q[i - Len(q)]
    BY ConcatProperties
  <2>3. Len(q \o q) = 4 /\ 2 * PerLine = 4 /\ Len(q \o q) - 1 = 3
    BY <1>2, <2>1, <2>2
  <2>4. /\ (q \o q)[1] = q[1] /\ (q \o q)[2] = q[2]
        /\ (q \o q)[3] = q[1] /\ (q \o q)[4] = q[2]
    BY <1>2, <2>2
  <2>5. Signs(q \o q) = 2
    BY <1>2, SignsConcat
  <2>6. \A i \in 1 .. 4 : (q \o q)[i].line = k
    <3>1. \A i \in 1 .. 4 : i = 1 \/ i = 2 \/ i = 3 \/ i = 4
      OBVIOUS
    <3>2. QED
      BY <1>2, <1>3, <2>4, <3>1
  <2>7. QED
    BY <1>2, <2>1, <2>2, <2>3, <2>4, <2>5, <2>6
<1>6. QED
  BY <1>4, <1>5

\* A token before a text.
LEMMA ConsFacts ==
  ASSUME NEW S, NEW b \in S, NEW s \in Seq(S), NEW w \in Seq(S), NEW a,
         w = <<b>>, a = w \o s
  PROVE  /\ a \in Seq(S) /\ Len(a) = Len(s) + 1
         /\ a[1] = b /\ \A i \in 1 .. Len(s) : a[i + 1] = s[i]
  OBVIOUS

\* The answer to a line is about that line and ends with the prompt.
LEMMA AnswerFacts ==
  ASSUME NEW cmd \in Commands \cup {"dumb"}, NEW k \in Nat, NEW mode \in Modes
  PROVE  LET a == Answer(cmd, k, mode) IN
         /\ a \in Seq(Tokens) /\ Signs(a) = PerLine /\ Len(a) >= 2
         /\ a[Len(a) - 1] = Token("name", k) /\ a[Len(a)] = Token(mode, k)
         /\ \A i \in 1 .. Len(a) : a[i].line = k
         /\ cmd # "dumb" => a[1] = Token("body", k)
         /\ cmd # "dumb" /\ ~node.doubles =>
              Len(a) = 3 /\ a[2].is \notin Modes
<1>1. PICK s \in Seq(Tokens) : s = Prompts(k, mode)
  BY PromptsFacts
<1>2. /\ Len(s) = 2 * PerLine /\ Signs(s) = PerLine
      /\ s[Len(s) - 1] = Token("name", k) /\ s[Len(s)] = Token(mode, k)
      /\ \A i \in 1 .. Len(s) : s[i].line = k
  BY <1>1, PromptsFacts
<1>3. PerLine \in {1, 2} /\ (~node.doubles => PerLine = 1)
  BY DEF PerLine
<1>4. PICK b \in Tokens : b = Token("body", k)
  BY DEF Token, Tokens
<1>5. b.line = k /\ b.is \notin Modes /\ Token("name", k).is \notin Modes
  BY <1>4 DEF Token, Modes
<1>6. CASE cmd = "dumb"
  <2>1. Answer(cmd, k, mode) = <<>> \o s
    BY <1>1, <1>6 DEF Answer
  <2>2. <<>> \o s = s
    OBVIOUS
  <2>3. QED
    BY <1>2, <1>3, <1>6, <2>1, <2>2
<1>7. CASE cmd # "dumb"
  <2>1. Answer(cmd, k, mode) = <<b>> \o s
    BY <1>1, <1>4, <1>7 DEF Answer
  <2>2. PICK w \in Seq(Tokens) : w = <<b>>
    BY SignsToken
  <2>3. PICK a : a = w \o s
    OBVIOUS
  <2>4. /\ a \in Seq(Tokens) /\ Len(a) = Len(s) + 1
        /\ a[1] = b /\ \A i \in 1 .. Len(s) : a[i + 1] = s[i]
    BY <2>2, <2>3, ConsFacts
  <2>5. Signs(a) = PerLine
    <3>1. Signs(w) = 0
      BY <1>5, <2>2, SignsToken
    <3>2. Signs(w \o s) = Signs(w) + Signs(s)
      BY SignsConcat
    <3>3. QED
      BY <1>2, <1>3, <2>3, <3>1, <3>2
  <2>6. Len(s) \in {2, 4} /\ (~node.doubles => Len(s) = 2)
    BY <1>2, <1>3
  <2>7. a[Len(a) - 1] = s[Len(s) - 1] /\ a[Len(a)] = s[Len(s)]
    <3>0. CASE Len(s) = 2
      BY <2>4, <3>0
    <3>1. CASE Len(s) = 4
      BY <2>4, <3>1
    <3>2. QED
      BY <2>6, <3>0, <3>1
  <2>8. ASSUME NEW i \in 1 .. Len(a) PROVE a[i].line = k
    <3>1. i = 1 \/ (i - 1 \in 1 .. Len(s) /\ a[i] = a[(i - 1) + 1])
      BY <2>4, <2>6
    <3>2. QED
      BY <1>2, <1>5, <2>4, <3>1
  <2>9. ASSUME ~node.doubles PROVE Len(a) = 3 /\ a[2].is \notin Modes
    <3>0. PerLine = 1
      BY <2>9 DEF PerLine
    <3>1. Len(s) = 2 /\ 1 \in 1 .. Len(s) /\ Len(s) - 1 = 1
      BY <1>2, <3>0
    <3>2. a[1 + 1] = s[1] /\ s[1] = Token("name", k)
      BY <1>2, <2>4, <3>1
    <3>3. QED
      BY <1>5, <2>4, <3>1, <3>2
  <2>10. QED
    BY <1>2, <1>4, <2>1, <2>2, <2>3, <2>4, <2>5, <2>6, <2>7, <2>8, <2>9
<1>8. QED
  BY <1>6, <1>7

-----------------------------------------------------------------------------
(* Types                                                                   *)

\* The types hold at first: the command files are read (ReadsCommands).
LEMMA InitType == ASSUME Init PROVE TypeOK
<1>1. list \in Seq(Commands)
  <2>1. PICK f \in Files : list = ReadCommandFile(f)
    BY DEF Init
  <2>2. QED
    BY <2>1, ReadsCommands, NodeSessionAssumption DEF NodeSessionAssumption
<1>2. out \in Seq(Tokens) /\ sent \in Seq(Tokens)
  <2>1. "user" \in Modes
    BY DEF Modes
  <2>2. QED
    BY <2>1, PromptFacts DEF Init
<1>3. /\ buf \in Seq(Tokens) /\ kept \in Seq(Pieces) /\ inq \in Seq(Lines)
      /\ idx \in 1 .. Len(list) + 1
  BY <1>1 DEF Init
<1>4. /\ runs \in 0 .. (IF loop = "inbound" THEN MaxInbound ELSE MaxTicks)
      /\ alive \in 0 .. MaxKeepalives
  BY NodeSessionAssumption DEF Init, NodeSessionAssumption
<1>5. QED
  BY <1>1, <1>2, <1>3, <1>4 DEF Init, TypeOK, Pcs, Modes

\* A line written.
LEMMA WriteType ==
  ASSUME TypeOK, NEW cmd \in Commands \cup {"dumb"}, Write(cmd)
  PROVE  n' \in Nat /\ inq' \in Seq(Lines)
<1>1. [line |-> n + 1, cmd |-> cmd] \in Lines /\ inq \in Seq(Lines) /\ n \in Nat
  BY DEF TypeOK, Lines
<1>2. QED
  BY <1>1 DEF Write

\* A piece kept.
Piece(text, why) == [line |-> n, text |-> text, why |-> why]

\* It has its type.
LEMMA PieceType ==
  ASSUME TypeOK, NEW text \in Seq(Tokens), NEW why \in {"first", "flush", "match", "eof"}
  PROVE  LET r == Piece(text, why) IN
         /\ r \in Pieces /\ <<r>> \in Seq(Pieces) /\ Append(kept, r) \in Seq(Pieces)
         /\ r.line = n /\ r.text = text /\ r.why = why
<1> DEFINE r == Piece(text, why)
<1>1. r \in Pieces /\ kept \in Seq(Pieces) /\ r.line = n /\ r.text = text /\ r.why = why
  BY DEF TypeOK, Pieces, Piece
<1> HIDE DEF r
<1>2. <<r>> \in Seq(Pieces) /\ Append(kept, r) \in Seq(Pieces)
  BY <1>1
<1>3. QED
  BY <1>1, <1>2 DEF r

\* The mode waited for and the node's are modes.
LEMMA WantType ==
  ASSUME TypeOK, NEW cmd PROVE WantAfter(cmd) \in Modes /\ Level(cmd) \in Modes
  BY DEF TypeOK, WantAfter, Level, Modes

\* The reply to a line ends the wait.
LEMMA ReturnType ==
  ASSUME TypeOK, PlaceInv, pc = "wait", NEW text \in Seq(Tokens), NEW why \in {"match", "eof"},
         Return(text, why)
  PROVE  /\ kept' \in Seq(Pieces) /\ buf' \in Seq(Tokens)
         /\ idx' \in 1 .. Len(list) + 1 /\ pc' \in Pcs
<1>1. kept' \in Seq(Pieces) /\ buf' \in Seq(Tokens)
  <2>1. kept' = Append(kept, Piece(text, why)) /\ buf' = <<>>
    BY DEF Return, Piece
  <2>2. QED
    BY <2>1, PieceType
<1>2. pc' \in Pcs
  BY DEF Return, Pcs
<1>3. idx' \in 1 .. Len(list) + 1
  <2>1. list \in Seq(Commands) /\ Len(list) \in Nat /\ idx \in 1 .. Len(list) + 1
    BY DEF TypeOK
  <2>2. loop # "inbound" => idx <= Len(list)
    BY DEF PlaceInv
  <2>3. QED
    BY <2>1, <2>2 DEF Return
<1>4. QED
  BY <1>1, <1>2, <1>3

\* A Read returns something of what is on its way.
LEMMA ChunksInside == ASSUME TypeOK, out # <<>> PROVE Chunks \subseteq 1 .. Len(out)
<1>1. out \in Seq(Tokens) /\ Len(out) \in Nat /\ Len(out) # 0
  BY DEF TypeOK
<1>2. QED
  BY <1>1 DEF Chunks

\* The four ways in which a session opens.
LEMMA OpenCases ==
  ASSUME Open, TypeOK, PlaceInv
  PROVE  /\ UNCHANGED <<loop, node, list, idx, runs, alive, want, buf, level, sent, closed>>
         /\ \/ /\ loop # "inbound" /\ UNCHANGED <<kept, n, inq, out>>
               /\ pc' = IF loop = "stay" THEN "idle" ELSE IF list = <<>> THEN "done" ELSE "list"
            \/ /\ loop = "inbound" /\ n = 0 /\ Write("dumb") /\ UNCHANGED <<pc, kept, out>>
            \/ /\ loop = "inbound" /\ n = 1 /\ UNCHANGED inq /\ pc' = "idle"
               /\ kept = <<>> /\ buf = <<>> /\ UNCHANGED n
               /\ \E m, pre, text : Takes(m, pre, text, out') /\ kept' = <<Piece(text, "first")>>
            \/ /\ loop = "inbound" /\ n = 1 /\ pc' = "idle" /\ UNCHANGED <<kept, n, inq, out>>
<1> USE DEF loopVars, nodeVars
<1>1. CASE loop # "inbound"
  BY <1>1 DEF Open
<1>2. CASE loop = "inbound" /\ n = 0
  BY <1>2 DEF Open, Write
<1>3. CASE loop = "inbound" /\ n = 1 /\ out # <<>>
  <2>1. PICK m \in 1 .. Len(out) :
          /\ kept' = <<[line |-> 1, text |-> SubSeq(out, 1, m), why |-> "first"]>>
          /\ out' = SubSeq(out, m + 1, Len(out))
    BY <1>3 DEF Open
  <2>2. kept = <<>> /\ buf = <<>>
    BY <1>3 DEF Open, PlaceInv
  <2>3. buf \o SubSeq(out, 1, m) = SubSeq(out, 1, m)
    <3>1. out \in Seq(Tokens)
      BY DEF TypeOK
    <3>2. SubSeq(out, 1, m) \in Seq(Tokens)
      BY <3>1, SplitFacts
    <3>3. QED
      BY <2>2, <3>2
  <2>4. /\ Takes(m, SubSeq(out, 1, m), SubSeq(out, 1, m), out')
        /\ kept' = <<Piece(SubSeq(out, 1, m), "first")>>
    BY <1>3, <2>1, <2>3 DEF Piece, Takes
  <2>5. UNCHANGED <<loop, node, list, idx, runs, alive, want, buf, level, sent, closed, n, inq>> /\ pc' = "idle"
    BY <1>3 DEF Open
  <2>6. QED
    BY <1>3, <2>2, <2>4, <2>5
<1>4. CASE loop = "inbound" /\ n = 1 /\ out = <<>>
  BY <1>4 DEF Open
<1>5. QED
  BY <1>1, <1>2, <1>3, <1>4 DEF Open

\* What becomes of a reply.
LEMMA ReturnCases ==
  ASSUME TypeOK, NEW text, NEW why, Return(text, why)
  PROVE  /\ kept' = Append(kept, Piece(text, why)) /\ buf' = <<>>
         /\ pc' \in {"list", "idle", "done"}
         /\ loop = "once" => pc' # "idle"
         /\ loop = "inbound" => pc' = "idle"
         /\ pc' = "list" => idx' <= Len(list)
<1>1. Len(list) \in Nat /\ idx \in 1 .. Len(list) + 1
  BY DEF TypeOK
<1>2. pc' = "list" => idx' <= Len(list)
  BY <1>1 DEF Return
<1>3. QED
  BY <1>2 DEF Return, Piece

\* A Read ends the wait, flushes or goes on.
LEMMA ReadCases ==
  ASSUME Read, TypeOK, Intact
  PROVE  /\ UNCHANGED <<loop, node, list, runs, alive, want, n, inq, level, sent, closed>>
         /\ pc = "wait" /\ SleepOver
         /\ \E m, pre, text :
              /\ Takes(m, pre, text, out') /\ m \in Chunks
              /\ \/ Match(text, want) /\ Return(text, "match")
                 \/ /\ ~Match(text, want) /\ UNCHANGED <<idx, pc>> /\ loop = "once"
                    /\ kept' = Append(kept, Piece(text, "flush")) /\ buf' = <<>>
                 \/ /\ ~Match(text, want) /\ UNCHANGED <<idx, pc, kept>>
                    /\ buf' = text
<1>1. PICK m \in Chunks :
        LET text == buf \o SubSeq(out, 1, m) IN
        /\ out' = SubSeq(out, m + 1, Len(out))
        /\ IF Match(text, want)
           THEN Return(text, "match")
           ELSE /\ \/ Flush(text)
                   \/ buf' = text /\ UNCHANGED kept
                /\ UNCHANGED <<idx, pc>>
  BY DEF Read
<1>2. m \in 1 .. Len(out)
  BY ChunksInside DEF Read
<1>3. PICK text : text = buf \o SubSeq(out, 1, m)
  OBVIOUS
<1>4. Takes(m, SubSeq(out, 1, m), text, out')
  BY <1>1, <1>2, <1>3 DEF Takes
<1>5. \/ Match(text, want) /\ Return(text, "match")
      \/ /\ ~Match(text, want) /\ UNCHANGED <<idx, pc>> /\ loop = "once"
         /\ kept' = Append(kept, Piece(text, "flush")) /\ buf' = <<>>
      \/ /\ ~Match(text, want) /\ UNCHANGED <<idx, pc, kept>>
         /\ buf' = text
  <2>1. IF Match(text, want)
        THEN Return(text, "match")
        ELSE /\ \/ Flush(text)
                \/ buf' = text /\ UNCHANGED kept
             /\ UNCHANGED <<idx, pc>>
    BY <1>1, <1>3
  <2>2. Flush(text) => loop = "once" /\ kept' = Append(kept, Piece(text, "flush")) /\ buf' = <<>>
    BY DEF Flush, Piece
  <2>3. QED
    BY <2>1, <2>2
<1>6. QED
  BY <1>1, <1>4, <1>5 DEF Read

\* Every step keeps the types.
LEMMA TypeStep ==
  ASSUME TypeOK, PlaceInv, Intact, Next
  PROVE  TypeOK'
<1> USE DEF loopVars, nodeVars
<1>0. /\ list \in Seq(Commands) /\ Len(list) \in Nat
      /\ MaxTicks \in Nat /\ MaxKeepalives \in Nat /\ MaxInbound \in Nat
      /\ "dumb" \in Commands \cup {"dumb"}
  BY NodeSessionAssumption DEF TypeOK, NodeSessionAssumption
<1>1. CASE Open
  <2>0. UNCHANGED <<loop, node, list, idx, runs, alive, want, buf, level, sent, closed>>
    BY <1>1, OpenCases
  <2>1. CASE UNCHANGED <<kept, n, inq, out>>
    BY <1>1, <2>0, <2>1, OpenCases DEF TypeOK, Pcs
  <2>2. CASE Write("dumb") /\ UNCHANGED <<pc, kept, out>>
    <3>1. n' \in Nat /\ inq' \in Seq(Lines)
      BY <1>0, <2>2, WriteType
    <3>2. QED
      BY <2>0, <2>2, <3>1 DEF TypeOK
  <2>3. CASE /\ UNCHANGED <<n, inq>> /\ pc' = "idle"
             /\ \E m, pre, text : Takes(m, pre, text, out') /\ kept' = <<Piece(text, "first")>>
    <3>1. PICK m, pre, text : Takes(m, pre, text, out') /\ kept' = <<Piece(text, "first")>>
      BY <2>3
    <3>2. out' \in Seq(Tokens) /\ text \in Seq(Tokens)
      BY <3>1, ReadFacts, SMTT(30)
    <3>3. kept' \in Seq(Pieces)
      BY <3>1, <3>2, PieceType
    <3>4. QED
      BY <2>0, <2>3, <3>2, <3>3 DEF TypeOK, Pcs
  <2>4. QED
    BY <1>1, <2>1, <2>2, <2>3, OpenCases
<1>2. CASE Tick
  BY <1>0, <1>2 DEF Tick, TypeOK, Pcs
<1>3. CASE Keepalive
  <2>1. n' \in Nat /\ inq' \in Seq(Lines)
    BY <1>0, <1>3, WriteType DEF Keepalive
  <2>2. alive' \in 0 .. MaxKeepalives
    BY <1>0, <1>3 DEF Keepalive, TypeOK
  <2>3. QED
    BY <1>3, <2>1, <2>2 DEF Keepalive, TypeOK, Write
<1>4. CASE Command
  <2>1. list[idx] \in Commands
    <3>1. idx \in 1 .. Len(list)
      BY <1>0, <1>4 DEF Command, TypeOK, PlaceInv
    <3>2. QED
      BY <1>0, <3>1
  <2>2. n' \in Nat /\ inq' \in Seq(Lines) /\ want' \in Modes
    BY <1>4, <2>1, WriteType, WantType DEF Command
  <2>3. QED
    BY <1>4, <2>2 DEF Command, TypeOK, Write, Pcs
<1>5. CASE InboundCommand
  <2>1. PICK cmd \in Commands : Write(cmd) /\ want' = IF closed THEN want ELSE WantAfter(cmd)
    BY <1>5 DEF InboundCommand
  <2>2. n' \in Nat /\ inq' \in Seq(Lines) /\ WantAfter(cmd) \in Modes
    BY <2>1, WriteType, WantType
  <2>3. runs' \in 0 .. MaxInbound
    BY <1>0, <1>5 DEF InboundCommand, TypeOK
  <2>4. want' \in Modes
    BY <2>1, <2>2 DEF TypeOK
  <2>5. QED
    BY <1>5, <2>1, <2>2, <2>3, <2>4 DEF InboundCommand, TypeOK, Write, Pcs
<1>6. CASE Read
  <2>1. PICK m, pre, text :
          /\ Takes(m, pre, text, out') /\ m \in Chunks
          /\ \/ Match(text, want) /\ Return(text, "match")
             \/ /\ ~Match(text, want) /\ UNCHANGED <<idx, pc>> /\ loop = "once"
                /\ kept' = Append(kept, Piece(text, "flush")) /\ buf' = <<>>
             \/ /\ ~Match(text, want) /\ UNCHANGED <<idx, pc, kept>>
                /\ buf' = text
    BY <1>6, ReadCases
  <2>2. /\ pc = "wait"
        /\ UNCHANGED <<loop, node, list, runs, alive, want, n, inq, level, sent, closed>>
    BY <1>6, ReadCases
  <2>3. text \in Seq(Tokens) /\ out' \in Seq(Tokens)
    BY <2>1, ReadFacts, SMTT(30)
  <2>4. CASE Return(text, "match")
    <3>1. /\ kept' \in Seq(Pieces) /\ buf' \in Seq(Tokens)
          /\ idx' \in 1 .. Len(list) + 1 /\ pc' \in Pcs
      BY <2>2, <2>3, <2>4, ReturnType
    <3>2. QED
      BY <2>2, <2>3, <3>1 DEF TypeOK
  <2>5. CASE UNCHANGED <<idx, pc>> /\ kept' = Append(kept, Piece(text, "flush")) /\ buf' = <<>>
    <3>1. kept' \in Seq(Pieces) /\ buf' \in Seq(Tokens)
      BY <2>3, <2>5, PieceType
    <3>2. QED
      BY <2>2, <2>3, <2>5, <3>1 DEF TypeOK
  <2>6. CASE buf' = text /\ UNCHANGED <<idx, pc, kept>>
    BY <2>2, <2>3, <2>6 DEF TypeOK
  <2>7. QED
    BY <2>1, <2>4, <2>5, <2>6
<1>7. CASE ReadEof
  <2>1. /\ kept' \in Seq(Pieces) /\ buf' \in Seq(Tokens)
        /\ idx' \in 1 .. Len(list) + 1 /\ pc' \in Pcs
    <3>1. buf \in Seq(Tokens)
      BY DEF TypeOK
    <3>2. QED
      BY <1>7, <3>1, ReturnType DEF ReadEof
  <2>2. QED
    BY <1>7, <2>1 DEF ReadEof, TypeOK
<1>8. CASE NodeAnswers
  <2>1. inq \in Seq(Lines) /\ inq # <<>> /\ Head(inq) \in Lines /\ Tail(inq) \in Seq(Lines)
    BY <1>8 DEF NodeAnswers, TypeOK
  <2>2. CASE closed' = TRUE /\ inq' = <<>> /\ UNCHANGED <<level, out, sent>>
    BY <1>8, <2>2 DEF NodeAnswers, TypeOK
  <2>3. CASE ~ (Head(inq).cmd = "exit" /\ level = "user")
    <3>1. Head(inq).cmd \in Commands \cup {"dumb"} /\ Head(inq).line \in Nat
      BY <2>1 DEF Lines
    <3>2. PICK a \in Seq(Tokens) : a = Answer(Head(inq).cmd, Head(inq).line, Level(Head(inq).cmd))
      BY <3>1, AnswerFacts, WantType
    <3>3. out' = out \o a /\ sent' = sent \o a /\ inq' = Tail(inq) /\ UNCHANGED closed
          /\ level' = Level(Head(inq).cmd)
      BY <1>8, <2>3, <3>2 DEF NodeAnswers, Answer
    <3>4. out' \in Seq(Tokens) /\ sent' \in Seq(Tokens) /\ level' \in Modes
      BY <3>3, WantType DEF TypeOK
    <3>5. QED
      BY <1>8, <2>1, <3>3, <3>4 DEF NodeAnswers, TypeOK
  <2>4. QED
    BY <1>8, <2>2, <2>3 DEF NodeAnswers
<1>9. CASE NodeCloses
  BY <1>9 DEF NodeCloses, TypeOK
<1>10. QED
  BY <1>1, <1>2, <1>3, <1>4, <1>5, <1>6, <1>7, <1>8, <1>9 DEF Next

-----------------------------------------------------------------------------
(* Where a loop is                                                         *)

\* The empty text holds no prompt.
LEMMA NoMatch == ASSUME NEW mode PROVE ~Match(<<>>, mode)
  BY DEF Match

\* Every step keeps the loop where its program text allows it to be.
LEMMA PlaceStep ==
  ASSUME TypeOK, PlaceInv, Intact, Next
  PROVE  PlaceInv'
<1> USE DEF loopVars, nodeVars
<1>0. n \in Nat /\ list \in Seq(Commands) /\ Len(list) \in Nat /\ (list # <<>> => Len(list) # 0)
  BY DEF TypeOK
<1>1. CASE Open
  <2>1. /\ pc = "open"
        /\ UNCHANGED <<loop, node, list, idx, runs, alive, want, buf, level, sent, closed>>
    BY <1>1, OpenCases DEF Open
  <2>2. CASE loop # "inbound"
    <3>1. /\ UNCHANGED <<kept, n, inq, out>>
          /\ pc' = IF loop = "stay" THEN "idle" ELSE IF list = <<>> THEN "done" ELSE "list"
      BY <1>1, <2>2, OpenCases
    <3>2. idx = 1
      BY <2>1, <2>2 DEF PlaceInv
    <3>3. pc' = "list" => idx' <= Len(list')
      BY <1>0, <2>1, <3>1, <3>2
    <3>4. QED
      BY <2>1, <2>2, <3>1, <3>3 DEF PlaceInv, TypeOK
  <2>3. CASE loop = "inbound"
    <3>1. \/ n = 0 /\ n' = n + 1 /\ UNCHANGED <<pc, kept>>
          \/ n = 1 /\ n' = n /\ pc' = "idle"
      BY <1>1, <2>3, OpenCases DEF Write
    <3>2. QED
      BY <1>0, <2>1, <2>3, <3>1 DEF PlaceInv
  <2>4. QED
    BY <2>2, <2>3
<1>2. CASE Tick
  <2>1. list # <<>> => 1 <= Len(list)
    BY <1>0
  <2>2. QED
    BY <1>2, <2>1 DEF Tick, PlaceInv
<1>3. CASE Keepalive
  BY <1>0, <1>3 DEF Keepalive, Write, PlaceInv
<1>4. CASE Command
  <2>1. loop # "inbound" /\ buf = <<>>
    BY <1>4 DEF Command, PlaceInv
  <2>2. ~Match(buf', want')
    BY <1>4, <2>1, NoMatch DEF Command
  <2>3. QED
    BY <1>0, <1>4, <2>1, <2>2 DEF Command, Write, PlaceInv
<1>5. CASE InboundCommand
  <2>1. buf' = <<>> /\ n' = n + 1 /\ n # 0
    BY <1>5 DEF InboundCommand, Write, PlaceInv
  <2>2. ~Match(buf', want')
    BY <2>1, NoMatch
  <2>3. n' # 0 /\ n' # 1
    BY <1>0, <2>1
  <2>4. QED
    BY <1>5, <2>1, <2>2, <2>3 DEF InboundCommand, PlaceInv
<1>6. CASE Read
  <2>1. PICK m, pre, text :
          /\ Takes(m, pre, text, out') /\ m \in Chunks
          /\ \/ Match(text, want) /\ Return(text, "match")
             \/ /\ ~Match(text, want) /\ UNCHANGED <<idx, pc>> /\ loop = "once"
                /\ kept' = Append(kept, Piece(text, "flush")) /\ buf' = <<>>
             \/ /\ ~Match(text, want) /\ UNCHANGED <<idx, pc, kept>>
                /\ buf' = text
    BY <1>6, ReadCases
  <2>2. /\ pc = "wait"
        /\ UNCHANGED <<loop, node, list, runs, alive, want, n, inq, level, sent, closed>>
    BY <1>6, ReadCases
  <2>3. CASE Return(text, "match")
    <3>1. /\ buf' = <<>> /\ pc' \in {"list", "idle", "done"}
          /\ (loop = "once" => pc' # "idle") /\ (loop = "inbound" => pc' = "idle")
          /\ (pc' = "list" => idx' <= Len(list))
      BY <2>3, ReturnCases
    <3>2. QED
      BY <2>2, <3>1 DEF PlaceInv
  <2>4. CASE ~Match(text, want) /\ UNCHANGED <<idx, pc>> /\ buf' \in {<<>>, text}
    <3>1. ~Match(buf', want')
      BY <2>2, <2>4, NoMatch
    <3>2. QED
      BY <2>2, <2>4, <3>1 DEF PlaceInv
  <2>5. QED
    BY <2>1, <2>3, <2>4
<1>7. CASE ReadEof
  <2>1. /\ buf' = <<>> /\ pc' \in {"list", "idle", "done"}
        /\ (loop = "once" => pc' # "idle") /\ (loop = "inbound" => pc' = "idle")
        /\ (pc' = "list" => idx' <= Len(list))
    BY <1>7, ReturnCases DEF ReadEof
  <2>2. QED
    BY <1>7, <2>1 DEF ReadEof, PlaceInv
<1>8. CASE NodeAnswers
  BY <1>8 DEF NodeAnswers, PlaceInv, Match
<1>9. CASE NodeCloses
  BY <1>9 DEF NodeCloses, PlaceInv, Match
<1>10. QED
  BY <1>1, <1>2, <1>3, <1>4, <1>5, <1>6, <1>7, <1>8, <1>9 DEF Next

-----------------------------------------------------------------------------
(* What is written, sent and read, step by step                            *)

\* The parts of the invariant about lines, tokens and pieces.
Told == /\ Intact /\ LineInv /\ ModeInv /\ PromptInv /\ CutInv /\ OwnInv
        /\ OwnReply /\ CountInv /\ LagBound /\ OnceInv

\* The counts are numbers.
LEMMA CountFacts ==
  ASSUME TypeOK
  PROVE  /\ Returned \in Nat /\ Signs(out) \in Nat /\ Len(inq) \in Nat /\ n \in Nat
         /\ Len(sent) \in Nat /\ Len(out) \in Nat /\ Len(buf) \in Nat
         /\ PerLine \in {1, 2} /\ Waits \in {0, 1}
<1>1. /\ kept \in Seq(Pieces) /\ out \in Seq(Tokens) /\ inq \in Seq(Lines)
      /\ sent \in Seq(Tokens) /\ buf \in Seq(Tokens) /\ n \in Nat
  BY DEF TypeOK
<1>2. Returned \in Nat
  <2>1. IsFiniteSet(1 .. Len(kept)) /\ DOMAIN kept = 1 .. Len(kept)
    BY <1>1, FS_Interval
  <2>2. {i \in DOMAIN kept : kept[i].why \in {"match", "eof"}} \subseteq 1 .. Len(kept)
    BY <2>1
  <2>3. QED
    BY <2>1, <2>2, FS_Subset, FS_CardinalityType DEF Returned
<1>3. Signs(out) \in Nat
  BY <1>1, SignsConcat
<1>4. QED
  BY <1>1, <1>2, <1>3 DEF PerLine, Waits

\* The buffer begins where what was read before ends.
LEMMA GotFacts ==
  ASSUME TypeOK, Intact
  PROVE  /\ Texts \in Seq(Tokens) /\ Got = Len(Texts) + Len(buf)
         /\ Got \in 0 .. Len(sent) /\ Len(Texts) \in Nat
<1>1. buf \in Seq(Tokens) /\ out \in Seq(Tokens) /\ sent \in Seq(Tokens) /\ kept \in Seq(Pieces)
  BY DEF TypeOK
<1>2. Texts \in Seq(Tokens)
  BY <1>1, TextsTyped DEF Texts
<1>3. Len((Texts \o buf) \o out) = Len(Texts) + Len(buf) + Len(out)
  BY <1>1, <1>2
<1>4. QED
  BY <1>1, <1>2, <1>3 DEF Intact, Got

\* A step that only moves the loop.
LEMMA MoveStep ==
  ASSUME TypeOK, Told, pc # "wait", pc' # "wait",
         UNCHANGED <<loop, node, list, want, buf, kept, n, inq, level, out, sent, closed>>
  PROVE  Told'
<1>1. Intact' /\ LineInv' /\ PromptInv' /\ CutInv' /\ OwnInv'
  BY DEF Told, Intact, Texts, LineInv, PromptInv, CutInv, OwnInv
<1>2. ModeInv'
  BY DEF Told, ModeInv
<1>3. OwnReply'
  BY DEF Told, OwnReply, Has
<1>4. CountInv' /\ LagBound'
  BY DEF Told, CountInv, LagBound, Signs, PerLine, Returned, Waits
<1>5. OnceInv'
  BY DEF Told, OnceInv, Got, Returned
<1>6. QED
  BY <1>1, <1>2, <1>3, <1>4, <1>5 DEF Told

\* The node closes the session.
LEMMA CloseStep ==
  ASSUME TypeOK, Told, closed' = TRUE, inq' = <<>>,
         UNCHANGED <<loop, node, list, pc, want, buf, kept, n, level, out, sent>>
  PROVE  Told'
<1>0. /\ Returned \in Nat /\ Signs(out) \in Nat /\ Len(inq) \in Nat /\ n \in Nat
      /\ PerLine \in {1, 2} /\ sent \in Seq(Tokens) /\ Len(sent) \in Nat
  BY CountFacts DEF TypeOK
<1>1. Intact'
  BY DEF Told, Intact, Texts
<1>2. LineInv'
  <2>1. Len(inq') = 0 /\ DOMAIN inq' = {}
    OBVIOUS
  <2>2. ASSUME NEW i \in DOMAIN sent PROVE sent[i].line <= n - Len(inq')
    <3>1. sent[i].line <= n - Len(inq)
      BY DEF Told, LineInv
    <3>2. sent[i].line \in Nat
      <4>1. sent[i] \in Tokens
        BY <1>0
      <4>2. QED
        BY <4>1 DEF Tokens
    <3>3. QED
      BY <1>0, <2>1, <3>1, <3>2
  <2>3. QED
    BY <2>1, <2>2 DEF Told, LineInv
<1>3. ModeInv' /\ PromptInv' /\ OwnInv' /\ OwnReply' /\ OnceInv'
  BY DEF ModeInv, PromptInv, OwnInv, OwnReply, OnceInv
<1>4. CutInv'
  BY DEF Told, CutInv, Got, Cut
<1>5. CountInv'
  BY DEF Told, CountInv, Returned, Waits
<1>6. LagBound'
  <2>1. Signs(out) + PerLine * Len(inq) <= 1 + PerLine * n - Returned
    BY DEF Told, LagBound
  <2>2. Returned' = Returned /\ Signs(out)' = Signs(out) /\ PerLine' = PerLine /\ Len(inq') = 0
    BY DEF Returned, Signs, PerLine
  <2>3. Signs(out) + PerLine * 0 <= 1 + PerLine * n - Returned
    BY <1>0, <2>1
  <2>4. QED
    BY <2>2, <2>3 DEF LagBound
<1>7. QED
  BY <1>1, <1>2, <1>3, <1>4, <1>5, <1>6 DEF Told

\* The lines on their way when one more is written.
LEMMA WrittenFacts ==
  ASSUME TypeOK, NEW cmd \in Commands \cup {"dumb"}, Write(cmd), ~closed
  PROVE  /\ inq \in Seq(Lines) /\ Len(inq) \in Nat /\ n \in Nat /\ n' = n + 1
         /\ Len(inq') = Len(inq) + 1 /\ DOMAIN inq' = 1 .. Len(inq) + 1
         /\ DOMAIN inq = 1 .. Len(inq) /\ inq' # <<>>
         /\ \A i \in 1 .. Len(inq) : inq'[i] = inq[i]
         /\ inq'[Len(inq) + 1].line = n + 1 /\ inq'[Len(inq) + 1].cmd = cmd
         /\ \A i \in DOMAIN inq' : i \in DOMAIN inq \/ i = Len(inq) + 1
<1>1. inq \in Seq(Lines) /\ Len(inq) \in Nat /\ n \in Nat /\ DOMAIN inq = 1 .. Len(inq)
  BY DEF TypeOK
<1> DEFINE r == [line |-> n + 1, cmd |-> cmd]
<1>2. r \in Lines /\ r.line = n + 1 /\ r.cmd = cmd
  BY <1>1 DEF Lines
<1>3. inq' = Append(inq, r) /\ n' = n + 1
  BY DEF Write
<1> HIDE DEF r
<1>4. /\ Len(inq') = Len(inq) + 1 /\ DOMAIN inq' = 1 .. Len(inq) + 1
      /\ \A i \in 1 .. Len(inq) : inq'[i] = inq[i]
      /\ inq'[Len(inq) + 1] = r
  BY <1>1, <1>3, AppendProperties
<1>5. inq' # <<>> /\ \A i \in 1 .. Len(inq) + 1 : i \in 1 .. Len(inq) \/ i = Len(inq) + 1
  BY <1>1, <1>4
<1>6. QED
  BY <1>1, <1>2, <1>3, <1>4, <1>5

\* A line is written.
LEMMA WriteStep ==
  ASSUME TypeOK, Told, NEW cmd \in Commands \cup {"dumb"}, Write(cmd),
         UNCHANGED <<loop, node, list, buf, kept>>, pc # "wait",
         cmd = "dumb" => pc' # "wait" /\ loop # "once",
         ~closed => want' = WantAfter(cmd),
         loop = "once" => pc' = "wait"
  PROVE  Told'
<1>0. /\ Returned \in Nat /\ Signs(out) \in Nat /\ Len(inq) \in Nat /\ n \in Nat
      /\ PerLine \in {1, 2} /\ sent \in Seq(Tokens) /\ Len(sent) \in Nat /\ n' = n + 1
      /\ DOMAIN sent = 1 .. Len(sent)
      /\ Got \in 0 .. Len(sent)
      /\ UNCHANGED <<level, out, sent, closed>>
  BY CountFacts, GotFacts DEF TypeOK, Write, Told
<1>1. Intact'
  BY <1>0 DEF Told, Intact, Texts
<1>2. \A i \in DOMAIN sent : sent[i].line \in Nat
  <2>1. \A i \in DOMAIN sent : sent[i] \in Tokens
    BY <1>0
  <2>2. QED
    BY <2>1 DEF Tokens
<1>3. \A i \in DOMAIN sent : sent[i].line <= n - Len(inq)
  BY DEF Told, LineInv
<1>4. LineInv'
  <2>1. \A i \in DOMAIN kept' : kept'[i].line \in 1 .. n'
    BY <1>0 DEF Told, LineInv
  <2>2. CASE closed
    <3>1. inq = <<>> /\ inq' = <<>> /\ Len(inq') = 0 /\ DOMAIN inq' = {}
      BY <2>2 DEF Told, LineInv, Write
    <3>2. ASSUME NEW i \in DOMAIN sent PROVE sent[i].line <= n' - Len(inq')
      <4>1. Len(inq) = 0
        BY <3>1
      <4>2. QED
        BY <1>0, <1>2, <1>3, <3>1, <4>1
    <3>3. QED
      BY <1>0, <2>1, <3>1, <3>2 DEF LineInv
  <2>3. CASE ~closed
    <3>1. n' - Len(inq') = n - Len(inq)
      BY <1>0, <2>3, WrittenFacts
    <3>2. ASSUME NEW i \in DOMAIN inq' PROVE inq'[i].line = n - Len(inq) + i
      <4>1. CASE i \in DOMAIN inq
        BY <2>3, <4>1, WrittenFacts DEF Told, LineInv
      <4>2. CASE i = Len(inq) + 1
        <5>1. inq'[i].line = n + 1
          BY <2>3, <4>2, WrittenFacts
        <5>2. QED
          BY <1>0, <4>2, <5>1
      <4>3. QED
        BY <2>3, <4>1, <4>2, WrittenFacts
    <3>3. QED
      BY <1>0, <1>3, <2>1, <2>3, <3>1, <3>2 DEF LineInv
  <2>4. QED
    BY <2>2, <2>3
<1>5. ModeInv'
  <2>1. SUFFICES ASSUME ~closed, ~node.refuses PROVE ModeInv'
    BY <1>0 DEF ModeInv
  <2>2. /\ (\A i \in DOMAIN inq : inq[i].cmd \notin {"enter", "exit"}) => want = level
        /\ \A i \in DOMAIN inq :
             /\ inq[i].cmd \in {"enter", "exit"}
             /\ \A j \in DOMAIN inq : j > i => inq[j].cmd \notin {"enter", "exit"}
             => want = ModeOf(inq[i].cmd)
    BY <2>1 DEF Told, ModeInv
  <2> DEFINE z == Len(inq) + 1
  <2>3. /\ z \in DOMAIN inq' /\ inq'[z].cmd = cmd
        /\ \A i \in DOMAIN inq : i \in DOMAIN inq' /\ inq'[i] = inq[i] /\ z > i
        /\ \A i \in DOMAIN inq' : i \in DOMAIN inq \/ i = z
    BY <2>1, WrittenFacts
  <2> HIDE DEF z
  <2>4. CASE cmd \in {"enter", "exit"}
    <3>1. want' = ModeOf(cmd)
      BY <2>1, <2>4 DEF WantAfter, ModeOf
    <3>2. QED
      BY <1>0, <2>3, <2>4, <3>1 DEF ModeInv
  <2>5. CASE cmd \notin {"enter", "exit"}
    <3>1. want' = want
      BY <2>1, <2>5 DEF WantAfter
    <3>2. (\A i \in DOMAIN inq' : inq'[i].cmd \notin {"enter", "exit"}) => want' = level'
      BY <1>0, <2>2, <2>3, <3>1
    <3>3. ASSUME NEW i \in DOMAIN inq', inq'[i].cmd \in {"enter", "exit"},
                 \A j \in DOMAIN inq' : j > i => inq'[j].cmd \notin {"enter", "exit"}
          PROVE  want' = ModeOf(inq'[i].cmd)
      <4>1. i \in DOMAIN inq /\ inq'[i] = inq[i]
        BY <2>3, <2>5, <3>3
      <4>2. \A j \in DOMAIN inq : j > i => inq[j].cmd \notin {"enter", "exit"}
        BY <2>3, <3>3
      <4>3. QED
        BY <2>2, <3>1, <3>3, <4>1, <4>2
    <3>4. QED
      BY <3>2, <3>3 DEF ModeInv
  <2>6. QED
    BY <2>4, <2>5
<1>6. PromptInv'
  BY <1>0, WrittenFacts DEF PromptInv
<1>7. CutInv'
  <2>1. Got' = Got
    BY <1>0 DEF Got
  <2>2. \A p \in 1 .. Got : sent[p] # Token("name", n')
    <3>1. SUFFICES ASSUME NEW p \in 1 .. Got, sent[p] = Token("name", n') PROVE FALSE
      OBVIOUS
    <3>2. p \in DOMAIN sent
      BY <1>0
    <3>3. sent[p].line = n + 1
      BY <1>0, <3>1 DEF Token
    <3>4. QED
      BY <1>0, <1>3, <3>2, <3>3
  <2>3. QED
    <3>1. \A p \in 1 .. Got' - 1 : sent'[p] # Token("name", n')
      BY <1>0, <2>1, <2>2
    <3>2. Got' > 0 => sent'[Got'] # Token("name", n')
      BY <1>0, <2>1, <2>2
    <3>3. QED
      BY <3>1, <3>2 DEF CutInv
<1>8. OwnInv'
  <2>1. SUFFICES ASSUME ~closed, pc' = "wait" PROVE OwnInv'
    BY <1>0 DEF OwnInv
  <2>2. Len(inq) + 1 \in DOMAIN inq' /\ inq'[Len(inq) + 1].line = n' /\ inq'[Len(inq) + 1].cmd = cmd
    BY <2>1, WrittenFacts
  <2>3. cmd # "dumb"
    BY <2>1
  <2>4. QED
    BY <2>2, <2>3 DEF OwnInv
<1>9. OwnReply'
  BY <1>0 DEF Told, OwnReply, Has
<1>10. Returned' = Returned /\ PerLine' = PerLine
  BY DEF Returned, PerLine
<1>11. CountInv'
  <2>1. Waits = 0 /\ Waits' \in {0, 1} /\ (loop = "once" => Waits' = 1)
    BY DEF Waits
  <2>2. Returned + Waits <= n /\ (loop = "once" => Returned + Waits = n)
    BY DEF Told, CountInv
  <2>3. Returned + Waits' <= n + 1 /\ (loop = "once" => Returned + Waits' = n + 1)
    <3>1. Returned <= n /\ (loop = "once" => Returned = n)
      BY <1>0, <2>1, <2>2
    <3>2. CASE Waits' = 0
      BY <1>0, <2>1, <3>1, <3>2
    <3>3. CASE Waits' = 1
      BY <1>0, <2>1, <3>1, <3>3
    <3>4. QED
      BY <2>1, <3>2, <3>3
  <2>4. QED
    BY <1>0, <1>10, <2>3 DEF CountInv
<1>12. LagBound'
  <2>1. Signs(out) + PerLine * Len(inq) <= 1 + PerLine * n - Returned /\ Signs(out)' = Signs(out)
    BY <1>0 DEF Told, LagBound, Signs
  <2>2. Len(inq') \in {Len(inq), Len(inq) + 1}
    BY <1>0, WrittenFacts DEF Write
  <2>3. Signs(out) + PerLine * Len(inq') <= 1 + PerLine * (n + 1) - Returned
    <3>1. CASE PerLine = 1
      BY <1>0, <2>1, <2>2, <3>1
    <3>2. CASE PerLine = 2
      BY <1>0, <2>1, <2>2, <3>2
    <3>3. QED
      BY <1>0, <3>1, <3>2
  <2>4. QED
    BY <1>0, <1>10, <2>1, <2>3 DEF LagBound
<1>13. OnceInv'
  <2>1. SUFFICES ASSUME loop = "once", ~closed PROVE OnceInv'
    BY <1>0 DEF OnceInv
  <2>2. /\ Len(sent) = 3 * (n - Len(inq)) + 2
        /\ \A i \in DOMAIN inq : inq[i].cmd # "dumb"
        /\ \A k \in 1 .. n - Len(inq) : sent[3 * k] = Token("body", k)
        /\ \A i \in DOMAIN sent : sent[i].is \in Modes => \E k \in 0 .. n : i = 3 * k + 2
        /\ Got >= 3 * Returned - 1
    BY <2>1 DEF Told, OnceInv
  <2>3. n' - Len(inq') = n - Len(inq) /\ Got' = Got /\ 0 .. n \subseteq 0 .. n'
    BY <1>0, <2>1, WrittenFacts DEF Got
  <2>4. \A i \in DOMAIN inq' : inq'[i].cmd # "dumb"
    <3>1. cmd # "dumb"
      BY <2>1
    <3>2. QED
      BY <2>1, <2>2, <3>1, WrittenFacts
  <2>5. \A i \in DOMAIN sent' : sent'[i].is \in Modes => \E k \in 0 .. n' : i = 3 * k + 2
    BY <1>0, <2>2, <2>3
  <2>6. /\ Len(sent') = 3 * (n' - Len(inq')) + 2
        /\ \A k \in 1 .. n' - Len(inq') : sent'[3 * k] = Token("body", k)
        /\ Got' >= 3 * Returned' - 1
    BY <1>0, <1>10, <2>2, <2>3
  <2>7. QED
    BY <2>4, <2>5, <2>6 DEF OnceInv
<1>14. QED
  BY <1>1, <1>4, <1>5, <1>6, <1>7, <1>8, <1>9, <1>11, <1>12, <1>13 DEF Told

\* What a concatenation holds.
LEMMA ConcatFacts ==
  ASSUME NEW S, NEW s \in Seq(S), NEW a \in Seq(S), NEW t, t = s \o a
  PROVE  /\ t \in Seq(S) /\ Len(t) = Len(s) + Len(a) /\ Len(s) \in Nat /\ Len(a) \in Nat
         /\ DOMAIN t = 1 .. Len(s) + Len(a)
         /\ DOMAIN s = 1 .. Len(s) /\ DOMAIN a = 1 .. Len(a)
         /\ \A i \in 1 .. Len(s) : t[i] = s[i]
         /\ \A i \in 1 .. Len(a) : t[Len(s) + i] = a[i]
         /\ \A i \in DOMAIN t : i \in DOMAIN s \/ i - Len(s) \in DOMAIN a
<1>1. Len(s) \in Nat /\ Len(a) \in Nat /\ DOMAIN s = 1 .. Len(s) /\ DOMAIN a = 1 .. Len(a)
  OBVIOUS
<1>2. /\ t \in Seq(S) /\ Len(t) = Len(s) + Len(a) /\ DOMAIN t = 1 .. Len(s) + Len(a)
      /\ \A i \in 1 .. Len(s) + Len(a) : t[i] = IF i <= Len(s) THEN s[i] ELSE a[i - Len(s)]
  <2>1. t \in Seq(S) /\ Len(t) = Len(s) + Len(a)
    BY ConcatProperties
  <2>2. \A i \in 1 .. Len(s) + Len(a) : t[i] = IF i <= Len(s) THEN s[i] ELSE a[i - Len(s)]
    BY ConcatProperties
  <2>3. QED
    BY <2>1, <2>2
<1>3. \A i \in 1 .. Len(s) : t[i] = s[i]
  BY <1>1, <1>2
<1>4. ASSUME NEW i \in 1 .. Len(a) PROVE t[Len(s) + i] = a[i]
  <2>1. Len(s) + i \in 1 .. Len(s) + Len(a) /\ ~ (Len(s) + i <= Len(s)) /\ Len(s) + i - Len(s) = i
    BY <1>1
  <2>2. QED
    BY <1>2, <2>1
<1>5. \A i \in 1 .. Len(s) + Len(a) : i \in 1 .. Len(s) \/ i - Len(s) \in 1 .. Len(a)
  BY <1>1
<1>6. QED
  BY <1>1, <1>2, <1>3, <1>4, <1>5

\* The first line on its way and the others.
LEMMA TailFacts ==
  ASSUME NEW S, NEW q \in Seq(S), q # <<>>
  PROVE  /\ Head(q) = q[1] /\ q[1] \in S /\ Len(q) \in Nat \ {0}
         /\ 1 \in DOMAIN q /\ DOMAIN q = 1 .. Len(q)
         /\ Len(Tail(q)) = Len(q) - 1 /\ DOMAIN Tail(q) = 1 .. Len(q) - 1
         /\ \A i \in DOMAIN Tail(q) : i + 1 \in DOMAIN q /\ Tail(q)[i] = q[i + 1]
         /\ \A i \in DOMAIN q : i = 1 \/ (i - 1 \in DOMAIN Tail(q) /\ q[i] = Tail(q)[i - 1])
<1>1. /\ Head(q) = q[1] /\ q[1] \in S /\ Len(q) \in Nat \ {0} /\ DOMAIN q = 1 .. Len(q)
      /\ Len(Tail(q)) = Len(q) - 1 /\ DOMAIN Tail(q) = 1 .. Len(q) - 1
      /\ \A i \in 1 .. Len(q) - 1 : Tail(q)[i] = q[i + 1]
  OBVIOUS
<1>2. \A i \in 1 .. Len(q) - 1 : i + 1 \in 1 .. Len(q)
  BY <1>1
<1>3. ASSUME NEW i \in 1 .. Len(q), i # 1 PROVE i - 1 \in 1 .. Len(q) - 1 /\ q[i] = Tail(q)[i - 1]
  <2>1. i - 1 \in 1 .. Len(q) - 1 /\ (i - 1) + 1 = i
    BY <1>1, <1>3
  <2>2. QED
    BY <1>1, <2>1
<1>4. QED
  BY <1>1, <1>2, <1>3

\* What is on its way and all that was sent grow by the same tokens.
Grows(x, y, o, s, a, p, t) == s = (x \o y) \o o /\ p = o \o a /\ t = s \o a

LEMMA GrowsFacts ==
  ASSUME NEW S, NEW x \in Seq(S), NEW y \in Seq(S), NEW o \in Seq(S), NEW a \in Seq(S),
         NEW s, NEW p, NEW t, Grows(x, y, o, s, a, p, t)
  PROVE  (x \o y) \o p = t
<1>1. (x \o y) \o (o \o a) = ((x \o y) \o o) \o a
  BY SMTT(60)
<1>2. QED
  BY <1>1 DEF Grows

\* AnswerFacts again, for an answer with a name.
IsAnswer(a, cmd, k, mode) == a = Answer(cmd, k, mode)

LEMMA IsAnswerFacts ==
  ASSUME NEW cmd \in Commands \cup {"dumb"}, NEW k \in Nat, NEW mode \in Modes,
         NEW a, IsAnswer(a, cmd, k, mode)
  PROVE  /\ a \in Seq(Tokens) /\ Signs(a) = PerLine /\ Len(a) >= 2
         /\ a[Len(a) - 1] = Token("name", k) /\ a[Len(a)] = Token(mode, k)
         /\ \A i \in 1 .. Len(a) : a[i].line = k
         /\ cmd # "dumb" => a[1] = Token("body", k)
         /\ cmd # "dumb" /\ ~node.doubles => Len(a) = 3 /\ a[2].is \notin Modes
  BY AnswerFacts, SMTT(60) DEF IsAnswer

\* The node answers the first line on its way, cmd, with a.
Answers(cmd, k, a) ==
  /\ cmd = Head(inq).cmd /\ k = Head(inq).line /\ IsAnswer(a, cmd, k, Level(cmd))
  /\ inq' = Tail(inq) /\ level' = Level(cmd)
  /\ out' = out \o a /\ sent' = sent \o a

LEMMA AnswerStep ==
  ASSUME TypeOK, TypeOK', PlaceInv, Told, inq # <<>>, ~closed, closed' = closed,
         NEW cmd, NEW k, NEW a, Answers(cmd, k, a),
         UNCHANGED <<loop, node, list, pc, want, buf, kept, n>>
  PROVE  Told'
<1>0. /\ Returned \in Nat /\ Signs(out) \in Nat /\ Len(inq) \in Nat /\ n \in Nat
      /\ PerLine \in {1, 2} /\ Len(sent) \in Nat /\ Len(out) \in Nat
      /\ Got \in 0 .. Len(sent) /\ inq \in Seq(Lines) /\ out \in Seq(Tokens) /\ sent \in Seq(Tokens)
  BY CountFacts, GotFacts DEF TypeOK, Told
<1>1. /\ Head(inq) = inq[1] /\ inq[1] \in Lines /\ Len(inq) \in Nat \ {0}
      /\ 1 \in DOMAIN inq /\ DOMAIN inq = 1 .. Len(inq)
      /\ Len(inq') = Len(inq) - 1 /\ DOMAIN inq' = 1 .. Len(inq) - 1
      /\ \A i \in DOMAIN inq' : i + 1 \in DOMAIN inq /\ inq'[i] = inq[i + 1]
      /\ \A i \in DOMAIN inq : i = 1 \/ (i - 1 \in DOMAIN inq' /\ inq[i] = inq'[i - 1])
  BY <1>0, TailFacts DEF Answers
<1>2. /\ cmd = inq[1].cmd /\ k = inq[1].line
      /\ cmd \in Commands \cup {"dumb"} /\ k \in Nat /\ level' \in Modes
  BY <1>1 DEF Lines, TypeOK, Answers
<1>3. k = n - Len(inq) + 1 /\ k = n - Len(inq')
  <2>1. inq[1].line = n - Len(inq) + 1
    BY <1>1 DEF Told, LineInv
  <2>2. QED
    BY <1>0, <1>1, <1>2, <2>1
<1>4. /\ a \in Seq(Tokens) /\ Signs(a) = PerLine /\ Len(a) >= 2
      /\ a[Len(a) - 1] = Token("name", k) /\ a[Len(a)] = Token(level', k)
      /\ \A i \in 1 .. Len(a) : a[i].line = k
      /\ cmd # "dumb" => a[1] = Token("body", k)
      /\ cmd # "dumb" /\ ~node.doubles => Len(a) = 3 /\ a[2].is \notin Modes
  <2>1. PICK mode \in Modes : mode = level' /\ IsAnswer(a, cmd, k, mode)
    BY <1>2 DEF Answers
  <2>2. cmd \in Commands \cup {"dumb"} /\ k \in Nat
    BY <1>2
  <2>3. IsAnswer(a, cmd, k, mode)
    BY <2>1
  <2>4. /\ a \in Seq(Tokens) /\ Signs(a) = PerLine /\ Len(a) >= 2
        /\ a[Len(a) - 1] = Token("name", k) /\ a[Len(a)] = Token(mode, k)
        /\ \A i \in 1 .. Len(a) : a[i].line = k
        /\ cmd # "dumb" => a[1] = Token("body", k)
        /\ cmd # "dumb" /\ ~node.doubles => Len(a) = 3 /\ a[2].is \notin Modes
    BY ONLY <2>2, <2>3, mode \in Modes, IsAnswerFacts
  <2>5. QED
    BY <2>1, <2>4
<1>5. /\ Len(sent') = Len(sent) + Len(a) /\ Len(a) \in Nat
      /\ DOMAIN sent' = 1 .. Len(sent) + Len(a)
      /\ DOMAIN sent = 1 .. Len(sent) /\ DOMAIN a = 1 .. Len(a)
      /\ \A i \in 1 .. Len(sent) : sent'[i] = sent[i]
      /\ \A i \in 1 .. Len(a) : sent'[Len(sent) + i] = a[i]
      /\ \A i \in DOMAIN sent' : i \in DOMAIN sent \/ i - Len(sent) \in DOMAIN a
  <2>1. sent' = sent \o a /\ sent \in Seq(Tokens) /\ a \in Seq(Tokens)
    BY <1>0, <1>4 DEF Answers
  <2>2. QED
    BY ONLY <2>1, ConcatFacts, SMTT(30)
<1>6. /\ Len(out') = Len(out) + Len(a)
      /\ DOMAIN out' = 1 .. Len(out) + Len(a) /\ DOMAIN out = 1 .. Len(out)
      /\ \A i \in 1 .. Len(out) : out'[i] = out[i]
      /\ \A i \in 1 .. Len(a) : out'[Len(out) + i] = a[i]
  <2>1. out' = out \o a /\ out \in Seq(Tokens) /\ a \in Seq(Tokens)
    BY <1>0, <1>4 DEF Answers
  <2>2. QED
    BY ONLY <2>1, ConcatFacts, SMTT(30)
<1>7. Got' = Got
  BY <1>0, <1>5, <1>6 DEF Got
<1>8. Returned' = Returned /\ PerLine' = PerLine
  BY DEF Returned, PerLine
<1>9. Intact'
  <2>1. Texts' = Texts
    BY DEF Texts
  <2>2. Texts \in Seq(Tokens) /\ buf \in Seq(Tokens)
    BY GotFacts DEF TypeOK, Told
  <2>3. Grows(Texts, buf, out, sent, a, out', sent')
    BY DEF Told, Intact, Answers, Grows
  <2>4. (Texts \o buf) \o out' = sent'
    <3>1. out \in Seq(Tokens) /\ a \in Seq(Tokens)
      BY <1>0, <1>4
    <3>2. QED
      BY ONLY <2>2, <2>3, <3>1, GrowsFacts
  <2>5. QED
    BY <2>1, <2>4 DEF Intact
<1>10. LineInv'
  <2>1. ASSUME NEW i \in DOMAIN sent' PROVE sent'[i].line <= n - Len(inq')
    <3>1. CASE i \in DOMAIN sent
      <4>1. sent'[i] = sent[i] /\ sent[i].line <= n - Len(inq)
        BY <1>5, <3>1 DEF Told, LineInv
      <4>2. sent[i].line \in Nat
        <5>1. sent[i] \in Tokens
          BY <1>0, <3>1
        <5>2. QED
          BY <5>1 DEF Tokens
      <4>3. QED
        BY <1>0, <1>1, <4>1, <4>2
    <3>2. CASE i - Len(sent) \in DOMAIN a
      <4>1. i = Len(sent) + (i - Len(sent))
        BY <1>0, <1>5
      <4>2. sent'[i] = a[i - Len(sent)]
        BY <1>5, <3>2, <4>1
      <4>3. sent'[i].line = k
        BY <1>4, <1>5, <3>2, <4>2
      <4>4. QED
        BY <1>2, <1>3, <4>3
    <3>3. QED
      BY <1>5, <3>1, <3>2
  <2>2. ASSUME NEW i \in DOMAIN inq' PROVE inq'[i].line = n - Len(inq') + i
    <3>1. inq'[i].line = n - Len(inq) + (i + 1)
      BY <1>1 DEF Told, LineInv
    <3>2. QED
      BY <1>0, <1>1, <3>1
  <2>3. QED
    BY <2>1, <2>2 DEF Told, LineInv
<1>11. ModeInv'
  <2>1. SUFFICES ASSUME ~node.refuses PROVE ModeInv'
    BY DEF ModeInv
  <2>2. /\ (\A i \in DOMAIN inq : inq[i].cmd \notin {"enter", "exit"}) => want = level
        /\ \A i \in DOMAIN inq :
             /\ inq[i].cmd \in {"enter", "exit"}
             /\ \A j \in DOMAIN inq : j > i => inq[j].cmd \notin {"enter", "exit"}
             => want = ModeOf(inq[i].cmd)
    BY <2>1 DEF Told, ModeInv
  <2>3. level' = IF cmd \in {"enter", "exit"} THEN ModeOf(cmd) ELSE level
    BY <2>1 DEF Answers, Level, ModeOf
  <2>4. ASSUME \A i \in DOMAIN inq' : inq'[i].cmd \notin {"enter", "exit"}
        PROVE  want = level'
    <3>1. \A j \in DOMAIN inq : j # 1 => inq[j].cmd \notin {"enter", "exit"}
      BY <1>1, <2>4
    <3>2. \A j \in DOMAIN inq : j > 1 => j # 1
      BY <1>1
    <3>3. CASE cmd \in {"enter", "exit"}
      BY <1>1, <1>2, <2>2, <2>3, <3>1, <3>2, <3>3
    <3>4. CASE cmd \notin {"enter", "exit"}
      BY <1>1, <1>2, <2>2, <2>3, <3>1, <3>4
    <3>5. QED
      BY <3>3, <3>4
  <2>5. ASSUME NEW i \in DOMAIN inq', inq'[i].cmd \in {"enter", "exit"},
               \A j \in DOMAIN inq' : j > i => inq'[j].cmd \notin {"enter", "exit"}
        PROVE  want = ModeOf(inq'[i].cmd)
    <3>1. i + 1 \in DOMAIN inq /\ inq[i + 1].cmd \in {"enter", "exit"} /\ inq'[i] = inq[i + 1]
      BY <1>1, <2>5
    <3>2. ASSUME NEW j \in DOMAIN inq, j > i + 1 PROVE inq[j].cmd \notin {"enter", "exit"}
      <4>1. j - 1 > i /\ j # 1
        BY <1>1, <3>2
      <4>2. QED
        BY <1>1, <2>5, <4>1
    <3>3. QED
      BY <2>2, <3>1, <3>2
  <2>6. QED
    BY <2>4, <2>5 DEF ModeInv
<1>12. PromptInv'
  <2>1. SUFFICES ASSUME inq' = <<>> PROVE PromptInv'
    BY DEF PromptInv
  <2>2. k = n
    <3>1. Len(inq') = 0
      BY <2>1
    <3>2. QED
      BY <1>0, <1>3, <3>1
  <2>3. /\ Len(a) - 1 \in 1 .. Len(a) /\ Len(a) \in 1 .. Len(a)
        /\ Len(sent') - 1 = Len(sent) + (Len(a) - 1) /\ Len(sent') = Len(sent) + Len(a)
        /\ Len(sent') > 1
    BY <1>0, <1>4, <1>5
  <2>4. sent'[Len(sent) + (Len(a) - 1)] = a[Len(a) - 1] /\ sent'[Len(sent) + Len(a)] = a[Len(a)]
    BY <1>5, <2>3
  <2>5. sent'[Len(sent') - 1] = Token("name", n) /\ sent'[Len(sent')] = Token(level', n)
    BY <1>4, <2>2, <2>3, <2>4
  <2>6. QED
    BY <2>3, <2>5 DEF PromptInv
<1>13. CutInv'
  <2>1. \A p \in 1 .. Got : sent'[p] = sent[p]
    BY <1>0, <1>5
  <2>2. \A p \in 1 .. Got - 1 : p \in 1 .. Got /\ p + 1 \in 1 .. Got
    BY <1>0
  <2>3. Cut' = Cut
    BY DEF Cut
  <2>4. ASSUME pc = "wait"
        PROVE  /\ \A p \in 1 .. Got - 1 :
                    sent[p] = Token("name", n) /\ sent[p + 1] = Token(want, n) => Cut
               /\ buf = <<>> /\ Got > 0 /\ sent[Got] = Token("name", n) => Cut
    BY <2>4 DEF Told, CutInv
  <2>5. Got > 0 => Got \in 1 .. Got
    BY <1>0
  <2>6. ASSUME pc = "wait"
        PROVE  /\ \A p \in 1 .. Got - 1 :
                    sent'[p] = Token("name", n) /\ sent'[p + 1] = Token(want, n) => Cut
               /\ buf = <<>> /\ Got > 0 /\ sent'[Got] = Token("name", n) => Cut
    BY <2>1, <2>2, <2>4, <2>5, <2>6
  <2>7. QED
    BY <1>7, <2>3, <2>6 DEF CutInv
<1>14. OwnInv'
  <2>1. SUFFICES ASSUME loop # "once", pc = "wait" PROVE OwnInv'
    BY DEF OwnInv
  <2>2. CASE \E i \in DOMAIN inq : inq[i].line = n /\ inq[i].cmd # "dumb"
    <3>1. PICK i \in DOMAIN inq : inq[i].line = n /\ inq[i].cmd # "dumb"
      BY <2>2
    <3>2. CASE i = 1
      <4>1. k = n /\ cmd # "dumb" /\ 1 \in 1 .. Len(a)
        BY <1>2, <1>4, <1>5, <3>1, <3>2
      <4>2. Len(out) + 1 \in DOMAIN out' /\ out'[Len(out) + 1] = Token("body", n)
        BY <1>0, <1>4, <1>5, <1>6, <4>1
      <4>3. Has(out', n')
        BY <4>2 DEF Has
      <4>4. QED
        BY <4>3 DEF OwnInv, Has
    <3>3. CASE i # 1
      <4>1. i - 1 \in DOMAIN inq' /\ inq'[i - 1].line = n' /\ inq'[i - 1].cmd # "dumb"
        BY <1>1, <3>1, <3>3
      <4>2. QED
        BY <4>1 DEF OwnInv
    <3>4. QED
      BY <3>2, <3>3
  <2>3. CASE Has(out, n)
    <3>1. PICK i \in DOMAIN out : out[i] = Token("body", n)
      BY <2>3 DEF Has
    <3>2. i \in DOMAIN out' /\ out'[i] = Token("body", n')
      BY <1>0, <1>5, <1>6, <3>1
    <3>3. QED
      BY <3>2 DEF OwnInv, Has
  <2>4. CASE Has(buf, n)
    BY <2>4 DEF OwnInv, Has
  <2>5. QED
    BY <2>1, <2>2, <2>3, <2>4 DEF Told, OwnInv
<1>15. OwnReply'
  BY DEF Told, OwnReply, Has
<1>16. CountInv'
  BY <1>8 DEF Told, CountInv, Waits
<1>17. LagBound'
  <2>1. Signs(out') = Signs(out) + PerLine
    BY <1>0, <1>4, SignsConcat DEF Answers
  <2>2. Signs(out) + PerLine * Len(inq) <= 1 + PerLine * n - Returned
    BY DEF Told, LagBound
  <2>3. Signs(out') + PerLine * Len(inq') <= 1 + PerLine * n - Returned
    <3>1. CASE PerLine = 1
      BY <1>0, <1>1, <2>1, <2>2, <3>1
    <3>2. CASE PerLine = 2
      BY <1>0, <1>1, <2>1, <2>2, <3>2
    <3>3. QED
      BY <1>0, <3>1, <3>2
  <2>4. QED
    BY <1>8, <2>3 DEF LagBound, Signs
<1>18. OnceInv'
  <2>1. SUFFICES ASSUME loop = "once" PROVE OnceInv'
    BY DEF OnceInv
  <2>2. /\ Len(sent) = 3 * (n - Len(inq)) + 2
        /\ \A i \in DOMAIN inq : inq[i].cmd # "dumb"
        /\ \A j \in 1 .. n - Len(inq) : sent[3 * j] = Token("body", j)
        /\ \A i \in DOMAIN sent : sent[i].is \in Modes => \E j \in 0 .. n : i = 3 * j + 2
        /\ Got >= 3 * Returned - 1
    BY <2>1 DEF Told, OnceInv
  <2>3. cmd # "dumb" /\ ~node.doubles
    BY <1>1, <1>2, <2>1, <2>2 DEF PlaceInv
  <2>4. Len(a) = 3 /\ a[1] = Token("body", k) /\ a[1].is \notin Modes /\ a[2].is \notin Modes
    BY <1>4, <2>3 DEF Token, Modes
  <2> DEFINE z == n - Len(inq)
  <2>5. z \in Nat /\ k = z + 1 /\ n - Len(inq') = z + 1 /\ z + 1 <= n /\ Len(sent) = 3 * z + 2
    BY <1>0, <1>1, <1>3, <2>2
  <2>6. \A j \in 1 .. z : sent[3 * j] = Token("body", j)
    BY <2>2
  <2> HIDE DEF z
  <2>7. Len(sent') = 3 * (n - Len(inq')) + 2
    BY <1>5, <2>4, <2>5
  <2>8. \A i \in DOMAIN inq' : inq'[i].cmd # "dumb"
    BY <1>1, <2>2
  <2>9. ASSUME NEW j \in 1 .. z + 1 PROVE sent'[3 * j] = Token("body", j)
    <3>1. CASE j \in 1 .. z
      <4>1. 3 * j \in 1 .. Len(sent)
        BY <2>5, <3>1
      <4>2. QED
        BY <1>5, <2>6, <3>1, <4>1
    <3>2. CASE j = z + 1
      <4>1. 3 * j = Len(sent) + 1 /\ 1 \in 1 .. Len(a)
        BY <2>4, <2>5, <3>2
      <4>2. QED
        BY <1>5, <2>4, <2>5, <3>2, <4>1
    <3>3. QED
      BY <2>5, <3>1, <3>2
  <2>10. ASSUME NEW i \in DOMAIN sent', sent'[i].is \in Modes
         PROVE  \E j \in 0 .. n : i = 3 * j + 2
    <3>1. CASE i \in DOMAIN sent
      BY <1>5, <2>2, <2>10, <3>1
    <3>2. CASE i - Len(sent) \in DOMAIN a
      <4>1. i = Len(sent) + (i - Len(sent)) /\ i - Len(sent) \in 1 .. 3
        BY <1>0, <1>5, <2>4, <3>2
      <4>2. sent'[i] = a[i - Len(sent)]
        BY <1>5, <2>4, <4>1
      <4>3. i - Len(sent) # 1 /\ i - Len(sent) # 2
        BY <2>4, <2>10, <4>2
      <4>4. i = 3 * (z + 1) + 2 /\ z + 1 \in 0 .. n
        BY <1>0, <2>5, <4>1, <4>3
      <4>5. QED
        BY <4>4
    <3>3. QED
      BY <1>5, <3>1, <3>2
  <2>11. Got' >= 3 * Returned' - 1
    BY <1>7, <1>8, <2>2
  <2>12. QED
    BY <2>5, <2>7, <2>8, <2>9, <2>10, <2>11 DEF OnceInv
<1>19. QED
  BY <1>9, <1>10, <1>11, <1>12, <1>13, <1>14, <1>15, <1>16, <1>17, <1>18 DEF Told

\* One piece more is kept.
LEMMA KeptFacts ==
  ASSUME TypeOK, NEW text \in Seq(Tokens), NEW why \in {"first", "flush", "match", "eof"},
         kept' = Append(kept, Piece(text, why))
  PROVE  /\ Texts' = Texts \o text
         /\ Returned' = Returned + (IF why \in {"match", "eof"} THEN 1 ELSE 0)
         /\ Len(kept) \in Nat /\ DOMAIN kept = 1 .. Len(kept)
         /\ DOMAIN kept' = 1 .. Len(kept) + 1
         /\ \A i \in DOMAIN kept : i \in DOMAIN kept' /\ kept'[i] = kept[i]
         /\ LET r == kept'[Len(kept) + 1]
            IN  r.line = n /\ r.text = text /\ r.why = why
         /\ \A i \in DOMAIN kept' : i \in DOMAIN kept \/ i = Len(kept) + 1
         /\ Cut => Cut'
<1>1. kept \in Seq(Pieces) /\ Len(kept) \in Nat /\ DOMAIN kept = 1 .. Len(kept)
  BY DEF TypeOK
<1>2. PICK r \in Pieces : r = Piece(text, why) /\ r.line = n /\ r.text = text /\ r.why = why
  BY PieceType
<1>3. kept' = Append(kept, r)
  BY <1>2
<1>4. /\ DOMAIN kept' = 1 .. Len(kept) + 1
      /\ \A i \in 1 .. Len(kept) : kept'[i] = kept[i]
      /\ kept'[Len(kept) + 1] = r
  BY <1>1, <1>3, AppendProperties
<1>5. Texts' = Texts \o text
  <2>1. FlattenSeq([i \in DOMAIN Append(kept, r) |-> Append(kept, r)[i].text])
          = FlattenSeq([i \in DOMAIN kept |-> kept[i].text]) \o r.text
    BY <1>1, TextsAppend
  <2>2. Texts' = FlattenSeq([i \in DOMAIN Append(kept, r) |-> Append(kept, r)[i].text])
    BY <1>3 DEF Texts
  <2>3. QED
    BY <1>2, <2>1, <2>2 DEF Texts
<1>6. Returned' = Returned + (IF why \in {"match", "eof"} THEN 1 ELSE 0)
  <2> DEFINE R(s) == Cardinality({i \in DOMAIN s : s[i].why \in {"match", "eof"}})
  <2>1. R(Append(kept, r)) = R(kept) + (IF r.why \in {"match", "eof"} THEN 1 ELSE 0)
    BY <1>1, ReturnedAppend
  <2>2. Returned' = R(Append(kept, r)) /\ Returned = R(kept)
    BY <1>3 DEF Returned
  <2> HIDE DEF R
  <2>3. QED
    BY <1>2, <2>1, <2>2
<1>7. \A i \in 1 .. Len(kept) + 1 : i \in 1 .. Len(kept) \/ i = Len(kept) + 1
  BY <1>1
<1>8. \A i \in DOMAIN kept : i \in DOMAIN kept' /\ kept'[i] = kept[i]
  BY <1>1, <1>4
<1>9. Cut => Cut'
  BY <1>8 DEF Cut
<1>10. QED
  BY <1>1, <1>2, <1>4, <1>5, <1>6, <1>7, <1>8, <1>9

\* How much has been read after one Read more.
LEMMA GotTaken ==
  ASSUME TypeOK, Intact, NEW m, NEW pre, NEW text, Takes(m, pre, text, out'), sent' = sent
  PROVE  Got' = Got + m
<1>1. Len(out') = Len(out) - m /\ Len(out) \in Nat /\ Len(sent) \in Nat /\ m \in 1 .. Len(out)
  BY ReadFacts, SMTT(30)
<1>2. QED
  BY <1>1 DEF Got

\* A text that holds no prompt, next to one that did not either, leaves the
\* prompt after line n unread.
LEMMA UnreadFacts ==
  ASSUME TypeOK, Told, pc = "wait", NEW m, NEW pre, NEW text, NEW rest,
         Takes(m, pre, text, rest), ~Match(text, want)
  PROVE  \A p \in 1 .. Got + m - 1 :
           sent[p] = Token("name", n) /\ sent[p + 1] = Token(want, n) => Cut
<1>1. /\ m \in 1 .. Len(out) /\ text \in Seq(Tokens) /\ Len(text) = Len(buf) + m
      /\ Len(buf) \in Nat /\ Len(out) \in Nat /\ Len(Texts) \in Nat /\ Got = Len(Texts) + Len(buf)
      /\ \A i \in 1 .. Len(text) : text[i] = sent[Len(Texts) + i]
  BY ReadFacts, SMTT(30) DEF Told
<1>2. /\ \A p \in 1 .. Got - 1 :
           sent[p] = Token("name", n) /\ sent[p + 1] = Token(want, n) => Cut
      /\ buf = <<>> /\ Got > 0 /\ sent[Got] = Token("name", n) => Cut
  BY DEF Told, CutInv
<1>3. SUFFICES ASSUME NEW p \in 1 .. Got + m - 1,
                      sent[p] = Token("name", n), sent[p + 1] = Token(want, n)
               PROVE  Cut
  OBVIOUS
<1>4. CASE p \in 1 .. Got - 1
  BY <1>2, <1>3, <1>4
<1>5. CASE p > Len(Texts)
  <2>1. /\ p - Len(Texts) \in 1 .. Len(text) - 1 /\ Len(Texts) + (p - Len(Texts)) = p
        /\ p - Len(Texts) \in 1 .. Len(text) /\ p - Len(Texts) + 1 \in 1 .. Len(text)
        /\ Len(Texts) + (p - Len(Texts) + 1) = p + 1
    BY <1>1, <1>3, <1>5
  <2>2. text[p - Len(Texts)] = sent[p] /\ text[p - Len(Texts) + 1] = sent[p + 1]
    BY <1>1, <2>1
  <2>3. text[p - Len(Texts)].is = "name" /\ text[p - Len(Texts) + 1].is = want
    BY <1>3, <2>2 DEF Token
  <2>4. Match(text, want)
    BY <2>1, <2>3 DEF Match
  <2>5. QED
    BY <2>4
<1>6. CASE p = Got /\ Len(buf) = 0
  <2>1. buf = <<>> /\ Got > 0
    <3>1. buf \in Seq(Tokens)
      BY DEF TypeOK
    <3>2. QED
      BY <1>1, <1>3, <1>6, <3>1
  <2>2. QED
    BY <1>2, <1>3, <1>6, <2>1
<1>7. p \in 1 .. Got - 1 \/ p > Len(Texts) \/ (p = Got /\ Len(buf) = 0)
  BY <1>1, <1>3
<1>8. QED
  BY <1>4, <1>5, <1>6, <1>7

\* The prompt is not there, and the loop reads on.
LEMMA ReadOnStep ==
  ASSUME TypeOK, TypeOK', PlaceInv, Told, pc = "wait", pc' = "wait",
         NEW m, NEW pre, NEW text, Takes(m, pre, text, out'), ~Match(text, want),
         buf' = text, kept' = kept,
         UNCHANGED <<loop, node, list, want, n, inq, level, sent, closed>>
  PROVE  Told'
<1>1. /\ m \in 1 .. Len(out) /\ pre \in Seq(Tokens) /\ text \in Seq(Tokens) /\ out' \in Seq(Tokens)
      /\ Len(buf) \in Nat /\ Len(out) \in Nat /\ Len(pre) = m /\ Len(text) = Len(buf) + m
      /\ pre \o out' = out /\ Whole(text, out')
      /\ \A i \in 1 .. Len(buf) : text[i] = buf[i]
      /\ \A i \in 1 .. m : text[Len(buf) + i] = pre[i]
  <2>1. Intact
    BY DEF Told
  <2>2. PICK rest : rest = out' /\ Takes(m, pre, text, rest)
    OBVIOUS
  <2>3. /\ m \in 1 .. Len(out) /\ pre \in Seq(Tokens) /\ text \in Seq(Tokens)
        /\ rest \in Seq(Tokens)
        /\ Len(buf) \in Nat /\ Len(out) \in Nat /\ Len(pre) = m /\ Len(text) = Len(buf) + m
    BY ONLY TypeOK, <2>1, <2>2, ReadFacts, SMTT(30)
  <2>4. \A i \in 1 .. Len(buf) : text[i] = buf[i]
    BY ONLY TypeOK, <2>1, <2>2, ReadFacts, SMTT(30)
  <2>5. \A i \in 1 .. m : text[Len(buf) + i] = pre[i]
    BY ONLY TypeOK, <2>1, <2>2, ReadFacts, SMTT(30)
  <2>6. pre \o rest = out
    BY ONLY TypeOK, <2>1, <2>2, ReadFacts, SMTT(30)
  <2>7. Whole(text, rest)
    BY ONLY TypeOK, <2>1, <2>2, ReadFacts, SMTT(30)
  <2>8. QED
    BY <2>2, <2>3, <2>4, <2>5, <2>6, <2>7
<1>2. Got' = Got + m /\ Got \in 0 .. Len(sent)
  BY GotTaken, GotFacts DEF Told
<1>3. Intact'
  <2>1. Texts' = Texts
    BY DEF Texts
  <2>2. QED
    BY <1>1, <2>1 DEF Intact, Whole
<1>4. LineInv' /\ PromptInv'
  BY DEF Told, LineInv, PromptInv
<1>5. ModeInv'
  BY DEF Told, ModeInv
<1>6. CutInv'
  <2>1. \A p \in 1 .. Got' - 1 :
          sent[p] = Token("name", n) /\ sent[p + 1] = Token(want, n) => Cut
    <3>1. \A p \in 1 .. Got + m - 1 :
            sent[p] = Token("name", n) /\ sent[p + 1] = Token(want, n) => Cut
      BY ONLY TypeOK, Told, pc = "wait", Takes(m, pre, text, out'), ~Match(text, want), UnreadFacts
    <3>2. \A p \in 1 .. Got' - 1 : p \in 1 .. Got + m - 1
      BY <1>1, <1>2
    <3>3. QED
      BY <3>1, <3>2
  <2>2. buf' # <<>>
    BY <1>1
  <2>3. Cut' = Cut
    BY DEF Cut
  <2>4. QED
    BY <2>1, <2>2, <2>3 DEF CutInv
<1>7. OwnInv'
  <2>1. SUFFICES ASSUME loop # "once", ~closed PROVE OwnInv'
    BY DEF OwnInv
  <2>2. CASE \E i \in DOMAIN inq : inq[i].line = n /\ inq[i].cmd # "dumb"
    BY <2>2 DEF OwnInv
  <2>3. CASE Has(out, n)
    <3>1. PICK i \in DOMAIN out : out[i] = Token("body", n)
      BY <2>3 DEF Has
    <3>2. /\ \A j \in 1 .. Len(pre) : out[j] = pre[j]
          /\ \A j \in 1 .. Len(out') : out[Len(pre) + j] = out'[j]
          /\ \A j \in DOMAIN out : j \in DOMAIN pre \/ j - Len(pre) \in DOMAIN out'
          /\ DOMAIN pre = 1 .. Len(pre) /\ DOMAIN out' = 1 .. Len(out')
          /\ DOMAIN out = 1 .. Len(pre) + Len(out') /\ Len(out') \in Nat
      <4>1. pre \in Seq(Tokens) /\ out' \in Seq(Tokens) /\ out = pre \o out'
        BY <1>1
      <4>2. QED
        BY ONLY <4>1, ConcatFacts
    <3>3. CASE i \in DOMAIN pre
      <4>1. text[Len(buf) + i] = Token("body", n) /\ Len(buf) + i \in DOMAIN text
        BY <1>1, <3>1, <3>2, <3>3
      <4>2. Has(buf', n')
        BY <4>1 DEF Has
      <4>3. QED
        BY <4>2 DEF OwnInv, Has
    <3>4. CASE i - Len(pre) \in DOMAIN out'
      <4>1. Len(pre) + (i - Len(pre)) = i
        BY <1>1, <3>2
      <4>2. out'[i - Len(pre)] = Token("body", n)
        BY <3>1, <3>2, <3>4, <4>1
      <4>3. Has(out', n')
        BY <3>4, <4>2 DEF Has
      <4>4. QED
        BY <4>3 DEF OwnInv, Has
    <3>5. QED
      BY <3>2, <3>3, <3>4
  <2>4. CASE Has(buf, n)
    <3>1. PICK i \in DOMAIN buf : buf[i] = Token("body", n)
      BY <2>4 DEF Has
    <3>2. DOMAIN buf = 1 .. Len(buf)
      BY DEF TypeOK
    <3>3. i \in DOMAIN text /\ text[i] = Token("body", n)
      BY <1>1, <3>1, <3>2
    <3>4. Has(buf', n')
      BY <3>3 DEF Has
    <3>5. QED
      BY <3>4 DEF OwnInv, Has
  <2>5. QED
    BY <2>1, <2>2, <2>3, <2>4 DEF Told, OwnInv
<1>8. OwnReply'
  BY DEF Told, OwnReply, Has
<1>9. Returned' = Returned /\ PerLine' = PerLine /\ Waits' = Waits
  BY DEF Returned, PerLine, Waits
<1>10. CountInv'
  BY <1>9 DEF Told, CountInv
<1>11. LagBound'
  <2>1. Signs(out) = Signs(pre) + Signs(out') /\ Signs(pre) \in Nat /\ Signs(out') \in Nat
    BY <1>1, SignsConcat
  <2>2. Signs(out) + PerLine * Len(inq) <= 1 + PerLine * n - Returned
    BY DEF Told, LagBound
  <2>3. /\ PerLine * Len(inq) \in Nat /\ PerLine * n \in Nat /\ Returned \in Nat
    BY CountFacts
  <2>4. Signs(out') + PerLine * Len(inq) <= 1 + PerLine * n - Returned
    BY <2>1, <2>2, <2>3
  <2>5. QED
    BY <1>9, <2>4 DEF LagBound, Signs
<1>12. OnceInv'
  <2>1. Got >= 3 * Returned - 1 => Got' >= 3 * Returned' - 1
    <3>1. Returned \in Nat
      BY CountFacts
    <3>2. QED
      BY <1>1, <1>2, <1>9, <3>1
  <2>2. QED
    BY <2>1 DEF Told, OnceInv
<1>13. QED
  BY <1>3, <1>4, <1>5, <1>6, <1>7, <1>8, <1>10, <1>11, <1>12 DEF Told

\* The sign that ends a wait has been read by the last Read.
LEMMA MatchFacts ==
  ASSUME TypeOK, Intact, NEW m, NEW pre, NEW text, NEW rest, Takes(m, pre, text, rest),
         ~Match(buf, want), Match(text, want)
  PROVE  \E j \in 1 .. m : /\ pre[j].is \in Modes
                           /\ Got + j \in DOMAIN sent /\ sent[Got + j].is \in Modes
<1>1. /\ m \in 1 .. Len(out) /\ text \in Seq(Tokens) /\ Len(text) = Len(buf) + m
      /\ Len(buf) \in Nat /\ Len(out) \in Nat
      /\ Len(Texts) \in Nat /\ Got = Len(Texts) + Len(buf)
      /\ \A i \in 1 .. Len(text) : text[i] = sent[Len(Texts) + i]
  BY ONLY TypeOK, Intact, Takes(m, pre, text, rest), ReadFacts, SMTT(60)
<1>2. \A i \in 1 .. Len(buf) : text[i] = buf[i]
  BY ReadFacts, SMTT(30)
<1>3. \A i \in 1 .. m : text[Len(buf) + i] = pre[i]
  BY ReadFacts, SMTT(30)
<1>4. Got + m <= Len(sent) /\ Len(sent) \in Nat /\ DOMAIN sent = 1 .. Len(sent) /\ want \in Modes
  <2>1. Len(sent) = Got + Len(out) /\ Len(sent) \in Nat
    <3>1. Len(sent) \in Nat
      BY CountFacts
    <3>2. QED
      BY <1>1, <3>1 DEF Got
  <2>2. QED
    BY <1>1, <2>1 DEF TypeOK
<1>5. PICK i \in 1 .. Len(text) - 1 : text[i].is = "name" /\ text[i + 1].is = want
  BY DEF Match
<1>6. i + 1 > Len(buf)
  <2>1. SUFFICES ASSUME i + 1 <= Len(buf) PROVE FALSE
    BY <1>1
  <2>2. i \in 1 .. Len(buf) - 1 /\ i \in 1 .. Len(buf) /\ i + 1 \in 1 .. Len(buf)
    BY <1>1, <2>1
  <2>3. buf[i].is = "name" /\ buf[i + 1].is = want
    BY <1>2, <1>5, <2>2
  <2>4. Match(buf, want)
    BY <2>2, <2>3 DEF Match
  <2>5. QED
    BY <2>4
<1>7. PICK j \in 1 .. m : i + 1 = Len(buf) + j
  <2>1. i + 1 - Len(buf) \in 1 .. m /\ i + 1 = Len(buf) + (i + 1 - Len(buf))
    BY <1>1, <1>6
  <2>2. QED
    BY <2>1
<1>8. pre[j] = text[i + 1]
  BY <1>3, <1>7
<1>9. Got + j \in DOMAIN sent /\ text[i + 1] = sent[Got + j]
  <2>1. i + 1 \in 1 .. Len(text) /\ Len(Texts) + (i + 1) = Got + j /\ Got + j \in 1 .. Len(sent)
    <3>1. Got \in Nat /\ j \in Nat \ {0} /\ j <= m /\ m \in Nat /\ i \in Nat
      BY <1>1
    <3>2. i + 1 \in 1 .. Len(text)
      BY <1>1
    <3>3. Len(Texts) + (i + 1) = Got + j
      <4>1. Len(Texts) \in Nat /\ Len(buf) \in Nat /\ Got = Len(Texts) + Len(buf)
        BY <1>1
      <4>2. i + 1 = Len(buf) + j
        BY <1>7
      <4>3. QED
        BY ONLY <3>1, <4>1, <4>2
    <3>4. Got + j \in 1 .. Len(sent)
      BY <1>4, <3>1
    <3>5. QED
      BY <3>2, <3>3, <3>4
  <2>2. QED
    BY <1>1, <1>4, <2>1
<1>10. QED
  BY <1>4, <1>5, <1>8, <1>9

\* A piece is kept: the first of all, a flush, or a reply with its prompt.
LEMMA KeepStep ==
  ASSUME TypeOK, TypeOK', PlaceInv, Told, NEW m, NEW pre, NEW text, Takes(m, pre, text, out'),
         NEW why \in {"first", "flush", "match"},
         kept' = Append(kept, Piece(text, why)), buf' = <<>>, n # 0,
         why = "first" => loop # "once" /\ pc # "wait" /\ pc' # "wait",
         why = "flush" => loop = "once" /\ pc = "wait" /\ pc' = "wait" /\ ~Match(text, want),
         why = "match" => /\ pc = "wait" /\ pc' # "wait" /\ Match(text, want)
                          /\ SleepOver /\ m \in Chunks,
         UNCHANGED <<loop, node, list, want, n, inq, level, sent, closed>>
  PROVE  Told'
<1>1. Intact
  BY DEF Told
<1>2. PICK rest : rest = out' /\ Takes(m, pre, text, rest)
  OBVIOUS
<1>3. /\ m \in 1 .. Len(out) /\ pre \in Seq(Tokens) /\ text \in Seq(Tokens)
      /\ rest \in Seq(Tokens) /\ Len(pre) = m /\ Len(text) = Len(buf) + m
      /\ Len(buf) \in Nat /\ Len(out) \in Nat
  BY ONLY TypeOK, <1>1, <1>2, ReadFacts, SMTT(30)
<1>4. \A i \in 1 .. Len(buf) : text[i] = buf[i]
  BY ONLY TypeOK, <1>1, <1>2, ReadFacts, SMTT(30)
<1>5. \A i \in 1 .. m : text[Len(buf) + i] = pre[i]
  BY ONLY TypeOK, <1>1, <1>2, ReadFacts, SMTT(30)
<1>6. pre \o rest = out
  BY ONLY TypeOK, <1>1, <1>2, ReadFacts, SMTT(30)
<1>7. Whole(text, rest)
  BY ONLY TypeOK, <1>1, <1>2, ReadFacts, SMTT(30)
<1>8. /\ Len(Texts) \in Nat /\ Got = Len(Texts) + Len(buf)
      /\ \A i \in 1 .. Len(text) : text[i] = sent[Len(Texts) + i]
  BY ONLY TypeOK, <1>1, <1>2, ReadFacts, SMTT(30)
<1>9. Got' = Got + m /\ Got \in 0 .. Len(sent)
  BY <1>1, GotTaken, GotFacts
<1>10. /\ Texts' = Texts \o text
       /\ Returned' = Returned + (IF why = "match" THEN 1 ELSE 0)
       /\ Len(kept) \in Nat /\ DOMAIN kept = 1 .. Len(kept)
       /\ DOMAIN kept' = 1 .. Len(kept) + 1
       /\ \A i \in DOMAIN kept : i \in DOMAIN kept' /\ kept'[i] = kept[i]
       /\ kept'[Len(kept) + 1].line = n /\ kept'[Len(kept) + 1].text = text
       /\ kept'[Len(kept) + 1].why = why
       /\ \A i \in DOMAIN kept' : i \in DOMAIN kept \/ i = Len(kept) + 1
       /\ Cut => Cut'
  <2>1. why \in {"first", "flush", "match", "eof"}
    OBVIOUS
  <2>2. kept' = Append(kept, Piece(text, why)) /\ text \in Seq(Tokens)
    BY <1>3
  <2>3. why \in {"match", "eof"} <=> why = "match"
    OBVIOUS
  <2>4. QED
    BY ONLY TypeOK, <2>1, <2>2, <2>3, KeptFacts
<1>11. /\ Returned \in Nat /\ Signs(out) \in Nat /\ Len(inq) \in Nat /\ n \in Nat
       /\ PerLine \in {1, 2} /\ Len(sent) \in Nat
  BY CountFacts
<1>12. Intact'
  <2>1. Texts' \in Seq(Tokens)
    <3>1. kept' \in Seq(Pieces)
      BY DEF TypeOK
    <3>2. QED
      BY <3>1, TextsTyped DEF Texts
  <2>2. Texts' \o <<>> = Texts'
    BY <2>1
  <2>3. QED
    BY <1>2, <1>7, <1>10, <2>2 DEF Intact, Whole
<1>13. LineInv'
  <2>1. ASSUME NEW i \in DOMAIN kept' PROVE kept'[i].line \in 1 .. n
    <3>1. CASE i \in DOMAIN kept
      BY <1>10, <3>1 DEF Told, LineInv
    <3>2. CASE i = Len(kept) + 1
      BY <1>10, <1>11, <3>2
    <3>3. QED
      BY <1>10, <3>1, <3>2
  <2>2. QED
    BY <2>1 DEF Told, LineInv
<1>14. ModeInv' /\ PromptInv'
  <2>1. ModeInv'
    BY DEF Told, ModeInv
  <2>2. PromptInv'
    BY DEF Told, PromptInv
  <2>3. QED
    BY <2>1, <2>2
<1>15. CutInv'
  <2>1. SUFFICES ASSUME why = "flush" PROVE CutInv'
    BY DEF CutInv
  <2>2. pc = "wait" /\ ~Match(text, want)
    BY <2>1
  <2>3. \A p \in 1 .. Got + m - 1 :
          sent[p] = Token("name", n) /\ sent[p + 1] = Token(want, n) => Cut
    BY ONLY TypeOK, Told, <1>2, <2>2, UnreadFacts
  <2>4. \A p \in 1 .. Got' - 1 : p \in 1 .. Got + m - 1
    BY <1>3, <1>9
  <2>5. ASSUME sent[Got'] = Token("name", n) PROVE Cut'
    <3>0. /\ Len(text) = Len(buf) + m /\ Len(buf) \in Nat /\ m \in Nat \ {0}
          /\ Got = Len(Texts) + Len(buf) /\ Got' = Got + m /\ Len(Texts) \in Nat
      BY <1>3, <1>8, <1>9
    <3>1. Len(text) \in 1 .. Len(text) /\ Len(Texts) + Len(text) = Got'
      BY <3>0
    <3>2. Last(text) = sent[Got']
      <4>1. Last(text) = text[Len(text)]
        BY <1>3, <3>1 DEF Last
      <4>2. QED
        BY <1>8, <3>1, <4>1
    <3>3. Last(text).is = "name"
      BY <2>5, <3>2 DEF Token
    <3>4. Len(kept) + 1 \in DOMAIN kept'
      BY <1>10
    <3>5. QED
      BY <1>10, <2>1, <3>3, <3>4 DEF Cut
  <2>6. QED
    BY <1>10, <2>3, <2>4, <2>5 DEF CutInv
<1>16. OwnInv'
  BY DEF OwnInv
<1>17. OwnReply'
  <2>1. SUFFICES ASSUME loop # "once", node.quick, ~closed, NEW i \in DOMAIN kept',
                        kept'[i].why = "match"
                 PROVE  Has(kept'[i].text, kept'[i].line)
    BY DEF OwnReply, Has
  <2>2. CASE i \in DOMAIN kept
    BY <1>10, <2>1, <2>2 DEF Told, OwnReply
  <2>3. CASE i = Len(kept) + 1
    <3>1. why = "match"
      BY <1>10, <2>1, <2>3
    <3>2. inq = <<>> /\ m = Len(out)
      BY <2>1, <3>1 DEF SleepOver, Chunks
    <3>3. DOMAIN inq = {}
      BY <3>2
    <3>4. Has(out, n) \/ Has(buf, n)
      BY <2>1, <3>1, <3>3 DEF Told, OwnInv
    <3>5. DOMAIN buf = 1 .. Len(buf) /\ DOMAIN text = 1 .. Len(text)
      BY <1>3 DEF TypeOK
    <3>6. CASE Has(out, n)
      <4>1. PICK j \in DOMAIN out : out[j] = Token("body", n)
        BY <3>6 DEF Has
      <4>2. /\ \A l \in 1 .. Len(pre) : out[l] = pre[l]
            /\ DOMAIN out = 1 .. Len(out)
        <5>1. out = pre \o rest /\ pre \in Seq(Tokens) /\ rest \in Seq(Tokens)
          BY <1>3, <1>6
        <5>2. \A l \in 1 .. Len(pre) : out[l] = pre[l]
          BY ONLY <5>1, ConcatFacts
        <5>3. QED
          BY <5>2 DEF TypeOK
      <4>3. j \in 1 .. m /\ out[j] = pre[j]
        BY <1>3, <3>2, <4>1, <4>2
      <4>4. text[Len(buf) + j] = Token("body", n) /\ Len(buf) + j \in DOMAIN text
        BY <1>3, <1>5, <3>5, <4>1, <4>3
      <4>5. QED
        BY <1>10, <2>3, <4>4 DEF Has
    <3>7. CASE Has(buf, n)
      <4>1. PICK j \in DOMAIN buf : buf[j] = Token("body", n)
        BY <3>7 DEF Has
      <4>2. j \in DOMAIN text /\ text[j] = Token("body", n)
        BY <1>3, <1>4, <3>5, <4>1
      <4>3. QED
        BY <1>10, <2>3, <4>2 DEF Has
    <3>8. QED
      BY <3>4, <3>6, <3>7
  <2>4. QED
    BY <1>10, <2>2, <2>3
<1>18. PerLine' = PerLine
  BY DEF PerLine
<1>19. why = "match" => \E j \in 1 .. m : /\ pre[j].is \in Modes
                                          /\ Got + j \in DOMAIN sent /\ sent[Got + j].is \in Modes
  <2>1. SUFFICES ASSUME why = "match"
                 PROVE  \E j \in 1 .. m : /\ pre[j].is \in Modes
                                          /\ Got + j \in DOMAIN sent /\ sent[Got + j].is \in Modes
    OBVIOUS
  <2>2. ~Match(buf, want) /\ Match(text, want)
    BY <2>1 DEF PlaceInv
  <2>3. QED
    BY ONLY TypeOK, <1>1, <1>2, <2>2, MatchFacts
<1>20. CountInv'
  <2>1. Waits = (IF why = "first" THEN 0 ELSE 1) /\ Waits' = (IF why = "flush" THEN 1 ELSE 0)
    BY DEF Waits
  <2>2. Returned' + Waits' = Returned + Waits
    <3>1. CASE why = "first"
      BY <1>10, <1>11, <2>1, <3>1
    <3>2. CASE why = "flush"
      BY <1>10, <1>11, <2>1, <3>2
    <3>3. CASE why = "match"
      BY <1>10, <1>11, <2>1, <3>3
    <3>4. QED
      BY <3>1, <3>2, <3>3
  <2>3. QED
    BY <2>2 DEF Told, CountInv
<1>21. LagBound'
  <2>1. Signs(out) = Signs(pre) + Signs(rest) /\ Signs(pre) \in Nat /\ Signs(rest) \in Nat
    BY <1>3, <1>6, SignsConcat
  <2>2. Signs(out) + PerLine * Len(inq) <= 1 + PerLine * n - Returned
    BY DEF Told, LagBound
  <2>3. PerLine * Len(inq) \in Nat /\ PerLine * n \in Nat
    BY <1>11
  <2>4. why = "match" => Signs(pre) >= 1
    BY <1>3, <1>19, SignsSome
  <2>5. Signs(rest) + PerLine * Len(inq) <= 1 + PerLine * n - Returned'
    <3>1. /\ Returned \in Nat /\ Returned' \in Nat
          /\ Returned' = Returned \/ (why = "match" /\ Returned' = Returned + 1)
      BY <1>10, <1>11
    <3>2. Returned' <= Returned + Signs(pre)
      BY <2>1, <2>4, <3>1
    <3>3. CASE PerLine = 1
      BY ONLY <1>11, <2>1, <2>2, <3>1, <3>2, <3>3, SMTT(30)
    <3>4. CASE PerLine = 2
      BY ONLY <1>11, <2>1, <2>2, <3>1, <3>2, <3>4, SMTT(30)
    <3>5. QED
      BY <1>11, <3>3, <3>4
  <2>6. QED
    BY <1>2, <1>18, <2>5 DEF LagBound, Signs
<1>22. OnceInv'
  <2>1. SUFFICES ASSUME loop = "once", ~closed PROVE OnceInv'
    BY DEF OnceInv
  <2>2. /\ \A i \in DOMAIN sent : sent[i].is \in Modes => \E k \in 0 .. n : i = 3 * k + 2
        /\ Got >= 3 * Returned - 1
    BY <2>1 DEF Told, OnceInv
  <2>3. Got' >= 3 * Returned' - 1
    <3>1. CASE why # "match"
      BY <1>3, <1>9, <1>10, <1>11, <2>2, <3>1
    <3>2. CASE why = "match"
      <4>1. PICK j \in 1 .. m : Got + j \in DOMAIN sent /\ sent[Got + j].is \in Modes
        BY <1>19, <3>2
      <4>2. PICK k \in 0 .. n : Got + j = 3 * k + 2
        BY <2>2, <4>1
      <4>3. k >= Returned
        BY <1>9, <1>11, <2>2, <4>1, <4>2
      <4>4. Got' >= 3 * k + 2 /\ k \in Nat
        BY <1>3, <1>9, <1>11, <4>2
      <4>5. Returned' = Returned + 1
        BY <1>10, <3>2
      <4>6. Got' \in Int
        BY <1>3, <1>9
      <4>7. QED
        BY <1>11, <4>3, <4>4, <4>5, <4>6
    <3>3. QED
      BY <3>1, <3>2
  <2>4. QED
    BY <2>1, <2>3 DEF Told, OnceInv
<1>23. QED
  BY <1>12, <1>13, <1>14, <1>15, <1>16, <1>17, <1>20, <1>21, <1>22 DEF Told

\* The session is gone, and what was read is the reply.
LEMMA EofStep ==
  ASSUME TypeOK, TypeOK', PlaceInv, Told, pc = "wait", pc' # "wait", out = <<>>, closed,
         kept' = Append(kept, Piece(buf, "eof")), buf' = <<>>,
         UNCHANGED <<loop, node, list, want, n, inq, level, out, sent, closed>>
  PROVE  Told'
<1>1. buf \in Seq(Tokens) /\ sent \in Seq(Tokens) /\ n \in Nat /\ n # 0
  BY DEF TypeOK, PlaceInv
<1>2. /\ Texts' = Texts \o buf /\ Returned' = Returned + 1
      /\ DOMAIN kept' = 1 .. Len(kept) + 1
      /\ \A i \in DOMAIN kept : kept'[i] = kept[i]
      /\ kept'[Len(kept) + 1].line = n
      /\ \A i \in DOMAIN kept' : i \in DOMAIN kept \/ i = Len(kept) + 1
  BY ONLY TypeOK, <1>1, kept' = Append(kept, Piece(buf, "eof")), KeptFacts
<1>3. Intact'
  <2>1. Texts' \in Seq(Tokens)
    <3>1. kept' \in Seq(Pieces)
      BY DEF TypeOK
    <3>2. QED
      BY <3>1, TextsTyped DEF Texts
  <2>2. Texts' \o <<>> = Texts'
    BY <2>1
  <2>3. Texts' \o <<>> = sent
    BY <1>2 DEF Told, Intact
  <2>4. QED
    BY <2>2, <2>3 DEF Intact
<1>4. LineInv'
  <2>1. ASSUME NEW i \in DOMAIN kept' PROVE kept'[i].line \in 1 .. n
    <3>1. CASE i \in DOMAIN kept
      BY <1>2, <3>1 DEF Told, LineInv
    <3>2. CASE i = Len(kept) + 1
      BY <1>1, <1>2, <3>2
    <3>3. QED
      BY <1>2, <3>1, <3>2
  <2>2. QED
    BY <2>1 DEF Told, LineInv
<1>5. ModeInv' /\ PromptInv' /\ CutInv' /\ OwnInv' /\ OwnReply' /\ OnceInv'
  BY DEF ModeInv, PromptInv, CutInv, OwnInv, OwnReply, OnceInv
<1>6. /\ Returned \in Nat /\ Len(inq) \in Nat /\ PerLine \in {1, 2}
      /\ Returned + Waits <= n /\ (loop = "once" => Returned + Waits = n)
  BY CountFacts DEF Told, CountInv
<1>7. CountInv'
  <2>1. Waits = 1 /\ Waits' = 0
    BY DEF Waits
  <2>2. QED
    BY <1>1, <1>2, <1>6, <2>1 DEF CountInv
<1>8. LagBound'
  <2>1. Len(inq) = 0
    BY DEF Told, LineInv
  <2>2. Signs(out') = 0 /\ PerLine' = PerLine
    BY SignsNone DEF PerLine
  <2>3. Returned' <= n
    <3>1. Waits = 1
      BY DEF Waits
    <3>2. QED
      BY <1>1, <1>2, <1>6, <3>1
  <2>4. 0 + PerLine * 0 <= 1 + PerLine * n - Returned'
    <3>1. CASE PerLine = 1
      BY <1>1, <1>2, <1>6, <2>3, <3>1
    <3>2. CASE PerLine = 2
      BY <1>1, <1>2, <1>6, <2>3, <3>2
    <3>3. QED
      BY <1>6, <3>1, <3>2
  <2>5. QED
    BY <2>1, <2>2, <2>4 DEF LagBound, Signs
<1>9. QED
  BY <1>3, <1>4, <1>5, <1>7, <1>8 DEF Told

-----------------------------------------------------------------------------
(* The invariant                                                           *)

\* A session begins with the invariant.
LEMMA SessionInit == ASSUME Init PROVE NodeSessionInv
<1>1. TypeOK
  BY InitType
<1>2. /\ buf = <<>> /\ kept = <<>> /\ inq = <<>> /\ n = 0 /\ pc = "open"
      /\ out = Prompt(0, "user") /\ sent = Prompt(0, "user")
      /\ want = "user" /\ level = "user" /\ closed = FALSE
  BY DEF Init
<1>3. PlaceInv
  <2>1. ~Match(buf, want)
    BY <1>2, NoMatch
  <2>2. loop = "once" => pc # "idle" /\ ~node.doubles /\ alive = 0
    BY DEF Init
  <2>3. QED
    BY <1>2, <2>1, <2>2 DEF PlaceInv, Init
<1>4. PICK q \in Seq(Tokens) : q = Prompt(0, "user")
  BY PromptFacts DEF Modes
<1>5. /\ Len(q) = 2 /\ q[1] = Token("name", 0) /\ q[2] = Token("user", 0) /\ Signs(q) = 1
      /\ DOMAIN q = 1 .. 2
  BY <1>4, PromptFacts DEF Modes
<1>6. DOMAIN kept = {} /\ DOMAIN inq = {} /\ Len(inq) = 0 /\ sent = q /\ out = q
  BY <1>2, <1>4
<1>7. \A i \in 1 .. 2 : i = 1 \/ i = 2
  OBVIOUS
<1>8. Intact
  <2>1. Texts = <<>>
    <3>1. [i \in DOMAIN kept |-> kept[i].text] = <<>>
      BY <1>2
    <3>2. QED
      BY <3>1 DEF Texts, FlattenSeq
  <2>2. (<<>> \o <<>>) \o q = q
    OBVIOUS
  <2>3. QED
    BY <1>2, <1>6, <2>1, <2>2 DEF Intact
<1>9. LineInv
  <2>1. \A i \in DOMAIN sent : sent[i].line = 0
    BY <1>5, <1>6, <1>7 DEF Token
  <2>2. QED
    BY <1>2, <1>6, <2>1 DEF LineInv
<1>10. ModeInv
  BY <1>2, <1>6 DEF ModeInv
<1>11. PromptInv
  <2>1. Len(sent) = 2 /\ sent[1] = Token("name", 0) /\ sent[2] = Token("user", 0)
    BY <1>5, <1>6
  <2>2. n = 0 /\ level = "user"
    BY <1>2
  <2>3. Len(sent) > 1 /\ Len(sent) - 1 = 1
    BY ONLY <2>1
  <2>4. QED
    BY ONLY <2>1, <2>2, <2>3 DEF PromptInv
<1>12. CutInv /\ OwnInv /\ OwnReply
  BY <1>2, <1>6 DEF CutInv, OwnInv, OwnReply
<1>13. Returned = 0 /\ Waits = 0
  <2>1. {i \in DOMAIN kept : kept[i].why \in {"match", "eof"}} = {}
    BY <1>6
  <2>2. QED
    BY <1>2, <2>1, FS_EmptySet DEF Returned, Waits
<1>14. CountInv
  BY <1>2, <1>13 DEF CountInv
<1>15. LagBound
  <2>1. PerLine \in {1, 2}
    BY DEF PerLine
  <2>2. 1 + PerLine * 0 <= 1 + PerLine * 0 - 0
    BY <2>1
  <2>3. QED
    BY <1>2, <1>5, <1>6, <1>13, <2>2 DEF LagBound
<1>16. OnceInv
  <2>1. ASSUME NEW i \in DOMAIN sent, sent[i].is \in Modes PROVE \E k \in 0 .. n : i = 3 * k + 2
    <3>1. i = 2
      BY <1>5, <1>6, <1>7, <2>1 DEF Token, Modes
    <3>2. 0 \in 0 .. n /\ i = 3 * 0 + 2
      BY <1>2, <3>1
    <3>3. QED
      BY <3>2
  <2>2. Len(sent) = 3 * (n - Len(inq)) + 2 /\ Got >= 3 * Returned - 1
    BY <1>2, <1>5, <1>6, <1>13 DEF Got
  <2>3. n - Len(inq) = 0
    <3>1. n = 0
      BY <1>2
    <3>2. Len(inq) = 0
      BY <1>6
    <3>3. QED
      BY ONLY <3>1, <3>2
  <2>4. QED
    BY <1>6, <2>1, <2>2, <2>3 DEF OnceInv
<1>17. QED
  BY <1>1, <1>3, <1>8, <1>9, <1>10, <1>11, <1>12, <1>14, <1>15, <1>16 DEF NodeSessionInv

\* Every step of a loop or of the node keeps the invariant.
LEMMA ToldStep ==
  ASSUME TypeOK, TypeOK', PlaceInv, Told, Next
  PROVE  Told'
<1> USE DEF loopVars, nodeVars
<1>0. Intact /\ "dumb" \in Commands \cup {"dumb"}
  BY DEF Told
<1>1. CASE Open
  <2>1. /\ pc = "open"
        /\ UNCHANGED <<loop, node, list, idx, runs, alive, want, buf, level, sent, closed>>
    BY <1>1, OpenCases DEF Open
  <2>2. CASE UNCHANGED <<kept, n, inq, out>> /\ pc' # "wait"
    BY <2>1, <2>2, MoveStep
  <2>3. CASE loop = "inbound" /\ Write("dumb") /\ UNCHANGED <<pc, kept, out>>
    <3>1. ~closed => want' = WantAfter("dumb")
      BY <2>1 DEF WantAfter
    <3>2. QED
      BY <1>0, <2>1, <2>3, <3>1, WriteStep
  <2>4. CASE /\ loop = "inbound" /\ n = 1 /\ UNCHANGED inq /\ pc' = "idle"
             /\ kept = <<>> /\ buf = <<>> /\ UNCHANGED n
             /\ \E m, pre, text : Takes(m, pre, text, out') /\ kept' = <<Piece(text, "first")>>
    <3>1. PICK m, pre, text : Takes(m, pre, text, out') /\ kept' = <<Piece(text, "first")>>
      BY <2>4
    <3>2. kept' = Append(kept, Piece(text, "first"))
      BY <2>4, <3>1
    <3>3. /\ loop # "once" /\ pc # "wait" /\ pc' # "wait" /\ n # 0 /\ buf' = <<>>
          /\ UNCHANGED <<loop, node, list, want, n, inq, level, sent, closed>>
      BY <2>1, <2>4
    <3>4. QED
      BY ONLY TypeOK, TypeOK', PlaceInv, Told, <3>1, <3>2, <3>3, KeepStep
  <2>5. QED
    BY <1>1, <2>2, <2>3, <2>4, OpenCases
<1>2. CASE Tick
  BY <1>2, MoveStep DEF Tick
<1>3. CASE Keepalive
  <2>1. loop # "once" /\ pc # "wait" /\ pc' # "wait" /\ Write("dumb")
    BY <1>3 DEF Keepalive
  <2>2. ~closed => want' = WantAfter("dumb")
    BY <1>3 DEF Keepalive, WantAfter
  <2>3. UNCHANGED <<loop, node, list, buf, kept>>
    BY <1>3 DEF Keepalive
  <2>4. QED
    BY <1>0, <2>1, <2>2, <2>3, WriteStep
<1>4. CASE Command
  <2>1. list[idx] \in Commands
    <3>1. list \in Seq(Commands) /\ Len(list) \in Nat /\ idx \in 1 .. Len(list)
      BY <1>4 DEF Command, TypeOK, PlaceInv
    <3>2. QED
      BY <3>1
  <2>2. PICK cmd \in Commands : cmd = list[idx]
    BY <2>1
  <2>3. /\ Write(cmd) /\ pc # "wait" /\ want' = WantAfter(cmd)
        /\ (loop = "once" => pc' = "wait") /\ UNCHANGED <<loop, node, list, buf, kept>>
    BY <1>4, <2>2 DEF Command
  <2>4. cmd \in Commands \cup {"dumb"} /\ cmd # "dumb"
    BY DEF Commands
  <2>5. QED
    BY ONLY TypeOK, Told, <2>3, <2>4, WriteStep
<1>5. CASE InboundCommand
  <2>1. PICK cmd \in Commands : Write(cmd) /\ want' = IF closed THEN want ELSE WantAfter(cmd)
    BY <1>5 DEF InboundCommand
  <2>2. /\ pc # "wait" /\ (~closed => want' = WantAfter(cmd)) /\ loop # "once"
        /\ UNCHANGED <<loop, node, list, buf, kept>>
    BY <1>5, <2>1 DEF InboundCommand
  <2>3. cmd \in Commands \cup {"dumb"} /\ cmd # "dumb"
    BY DEF Commands
  <2>4. QED
    BY ONLY TypeOK, Told, <2>1, <2>2, <2>3, WriteStep
<1>6. CASE Read
  <2>1. PICK m, pre, text :
          /\ Takes(m, pre, text, out') /\ m \in Chunks
          /\ \/ Match(text, want) /\ Return(text, "match")
             \/ /\ ~Match(text, want) /\ UNCHANGED <<idx, pc>> /\ loop = "once"
                /\ kept' = Append(kept, Piece(text, "flush")) /\ buf' = <<>>
             \/ /\ ~Match(text, want) /\ UNCHANGED <<idx, pc, kept>>
                /\ buf' = text
    BY <1>0, <1>6, ReadCases
  <2>2. /\ pc = "wait" /\ SleepOver /\ n # 0
        /\ UNCHANGED <<loop, node, list, runs, alive, want, n, inq, level, sent, closed>>
    BY <1>0, <1>6, ReadCases DEF PlaceInv
  <2>3. UNCHANGED <<loop, node, list, want, n, inq, level, sent, closed>>
    BY <2>2
  <2>4. CASE Match(text, want) /\ Return(text, "match")
    <3>1. kept' = Append(kept, Piece(text, "match")) /\ buf' = <<>> /\ pc' # "wait"
      BY <2>4, ReturnCases
    <3>2. QED
      BY ONLY TypeOK, TypeOK', PlaceInv, Told, <2>1, <2>2, <2>3, <2>4, <3>1, KeepStep
  <2>5. CASE /\ ~Match(text, want) /\ UNCHANGED <<idx, pc>> /\ loop = "once"
             /\ kept' = Append(kept, Piece(text, "flush")) /\ buf' = <<>>
    <3>1. pc' = "wait"
      BY <2>2, <2>5
    <3>2. QED
      BY ONLY TypeOK, TypeOK', PlaceInv, Told, <2>1, <2>2, <2>3, <2>5, <3>1, KeepStep
  <2>6. CASE /\ ~Match(text, want) /\ UNCHANGED <<idx, pc, kept>> /\ buf' = text
    <3>1. pc' = "wait" /\ kept' = kept
      BY <2>2, <2>6
    <3>2. QED
      BY ONLY TypeOK, TypeOK', PlaceInv, Told, <2>1, <2>2, <2>3, <2>6, <3>1, ReadOnStep
  <2>7. QED
    BY <2>1, <2>4, <2>5, <2>6
<1>7. CASE ReadEof
  <2>1. kept' = Append(kept, Piece(buf, "eof")) /\ buf' = <<>> /\ pc' # "wait"
    BY <1>7, ReturnCases DEF ReadEof
  <2>2. pc = "wait" /\ out = <<>> /\ closed
        /\ UNCHANGED <<loop, node, list, want, n, inq, level, out, sent, closed>>
    BY <1>7 DEF ReadEof
  <2>3. QED
    BY ONLY TypeOK, TypeOK', PlaceInv, Told, <2>1, <2>2, EofStep
<1>8. CASE NodeAnswers
  <2>1. inq # <<>> /\ ~closed /\ UNCHANGED <<loop, node, list, pc, want, buf, kept, n>>
    BY <1>8 DEF NodeAnswers
  <2>2. CASE closed' = TRUE /\ inq' = <<>> /\ UNCHANGED <<level, out, sent>>
    BY <2>1, <2>2, CloseStep
  <2>3. CASE ~ (Head(inq).cmd = "exit" /\ level = "user")
    <3>1. PICK cmd, k, a : cmd = Head(inq).cmd /\ k = Head(inq).line /\ a = Answer(cmd, k, Level(cmd))
      OBVIOUS
    <3>2. Answers(cmd, k, a) /\ closed' = closed
      BY <1>8, <2>3, <3>1 DEF NodeAnswers, Answers, IsAnswer, Answer
    <3>3. QED
      BY ONLY TypeOK, TypeOK', PlaceInv, Told, <2>1, <3>2, AnswerStep
  <2>4. QED
    BY <1>8, <2>2, <2>3 DEF NodeAnswers
<1>9. CASE NodeCloses
  BY <1>9, CloseStep DEF NodeCloses
<1>10. QED
  BY <1>1, <1>2, <1>3, <1>4, <1>5, <1>6, <1>7, <1>8, <1>9 DEF Next

\* The inductive step.
LEMMA SessionStep ==
  ASSUME NodeSessionInv, [Next]_vars
  PROVE  NodeSessionInv'
<1>1. TypeOK /\ PlaceInv /\ Intact /\ Told
  BY DEF NodeSessionInv, Told
<1>2. CASE Next
  <2>1. TypeOK' /\ PlaceInv'
    BY <1>1, <1>2, TypeStep, PlaceStep
  <2>2. Told'
    BY <1>1, <1>2, <2>1, ToldStep
  <2>3. QED
    BY <2>1, <2>2 DEF NodeSessionInv, Told
<1>3. CASE UNCHANGED vars
  <2> USE DEF vars, loopVars, nodeVars
  <2>1. TypeOK'
    BY <1>1, <1>3 DEF TypeOK
  <2>2. PlaceInv'
    BY <1>1, <1>3 DEF PlaceInv, Match
  <2>3. Told'
    <3>1. Intact' /\ LineInv' /\ PromptInv' /\ OwnInv'
      BY <1>1, <1>3 DEF Told, Intact, Texts, LineInv, PromptInv, OwnInv, Has
    <3>2. CutInv'
      BY <1>1, <1>3 DEF Told, CutInv, Cut, Got
    <3>3. ModeInv' /\ OwnReply'
      BY <1>1, <1>3 DEF Told, ModeInv, OwnReply, Has
    <3>4. CountInv' /\ LagBound' /\ OnceInv'
      BY <1>1, <1>3 DEF Told, CountInv, LagBound, OnceInv, Signs, PerLine, Returned, Waits, Got
    <3>5. QED
      BY <3>1, <3>2, <3>3, <3>4 DEF Told
  <2>4. QED
    BY <2>1, <2>2, <2>3 DEF NodeSessionInv, Told
<1>4. QED
  BY <1>2, <1>3

\* Every session, of the one-shot loop, the command loop and the loop of
\* the broker's commands, keeps the invariant of NodeSessionProps
\* (ssh_collector.go 20-74 and 150-195, ssh_collector_stay.go 150-375).
THEOREM SessionInvariant == Spec => []NodeSessionInv
<1>1. Init => NodeSessionInv
  BY SessionInit
<1>2. NodeSessionInv /\ [Next]_vars => NodeSessionInv'
  BY SessionStep
<1>3. QED
  BY <1>1, <1>2, PTL DEF Spec

-----------------------------------------------------------------------------
(* What it implies                                                         *)

\* Only commands and keepalives are written, and nothing has a wrong type,
\* whatever the command files hold (general.go 64-83).
THEOREM SessionType == Spec => []TypeOK
<1>1. NodeSessionInv => TypeOK
  BY DEF NodeSessionInv
<1>2. QED
  BY <1>1, SessionInvariant, PTL

\* The pieces kept, the buffer and what is still to be read are together
\* what the node has sent, in its order, flushed or not (ssh_collector.go
\* 20-74).
THEOREM SessionIntact == Spec => []Intact
<1>1. NodeSessionInv => Intact
  BY DEF NodeSessionInv
<1>2. QED
  BY <1>1, SessionInvariant, PTL

\* The reply of a quick node to a command holds that command's output,
\* whatever was left to be read before it (ssh_collector_stay.go 228-242,
\* 313-325, 354-356).
THEOREM SessionOwnReply == Spec => []OwnReply
<1>1. NodeSessionInv => OwnReply
  BY DEF NodeSessionInv
<1>2. QED
  BY <1>1, SessionInvariant, PTL

\* How far the replies can lag behind the commands is bounded by the lines
\* nobody waits for and the doubled line ends (ssh_collector_stay.go
\* 313-325, 355, 178).
THEOREM SessionLagBound == Spec => []LagBound
<1>1. NodeSessionInv => LagBound
  BY DEF NodeSessionInv
<1>2. QED
  BY <1>1, SessionInvariant, PTL

\* A loop that waits for what never comes has read all, and the prompt of
\* its mode is the last it has read: CutInv leaves only a flush between the
\* name and the sign.
LEMMA StuckReason == ASSUME NodeSessionInv PROVE NoHang
<1>1. TypeOK /\ Intact /\ ModeInv /\ PromptInv /\ CutInv
  BY DEF NodeSessionInv
<1>2. SUFFICES ASSUME Stuck, ~node.refuses PROVE Cut
  BY DEF NoHang, Cut
<1>3. pc = "wait" /\ out = <<>> /\ inq = <<>> /\ ~closed
  BY <1>2 DEF Stuck
<1>4. want = level
  <2>1. DOMAIN inq = {}
    BY <1>3
  <2>2. QED
    BY <1>1, <1>2, <1>3, <2>1 DEF ModeInv
<1>5. /\ Len(sent) > 1
      /\ sent[Len(sent) - 1] = Token("name", n) /\ sent[Len(sent)] = Token(want, n)
  BY <1>1, <1>3, <1>4 DEF PromptInv
<1>6. Got = Len(sent) /\ Len(sent) \in Nat
  BY <1>1, <1>3, CountFacts DEF Got
<1>7. Got - 1 \in 1 .. Got - 1 /\ (Got - 1) + 1 = Got
  BY <1>5, <1>6
<1>8. sent[Got - 1] = Token("name", n) /\ sent[(Got - 1) + 1] = Token(want, n)
  BY <1>5, <1>6, <1>7
<1>9. QED
  BY <1>1, <1>3, <1>7, <1>8 DEF CutInv

\* Only a node that refuses a mode, or a flush inside a prompt, makes a
\* loop wait for ever (ssh_collector.go 28-46, ssh_collector_stay.go
\* 304-324).
THEOREM SessionNoHang == Spec => []NoHang
<1>1. NodeSessionInv => NoHang
  BY StuckReason
<1>2. QED
  BY <1>1, SessionInvariant, PTL

\* When the one-shot loop ends it has taken one sign for each of its
\* commands, so the output of all but the last is before what it has read.
LEMMA LastMissing == ASSUME NodeSessionInv PROVE OnlyLastMissing
<1>1. TypeOK /\ PlaceInv /\ Intact /\ CountInv /\ OnceInv
  BY DEF NodeSessionInv
<1>2. SUFFICES ASSUME loop = "once", pc = "done", ~closed, NEW k \in 1 .. n - 1
               PROVE  Has(Texts, k)
  BY DEF OnlyLastMissing
<1>3. buf = <<>> /\ Returned = n
  <2>1. Returned \in Nat /\ Waits = 0
    BY <1>1, <1>2, CountFacts DEF Waits
  <2>2. QED
    BY <1>1, <1>2, <2>1 DEF PlaceInv, CountInv
<1>4. /\ Texts \in Seq(Tokens) /\ Got = Len(Texts) + Len(buf) /\ Len(Texts) \in Nat
      /\ Got \in 0 .. Len(sent) /\ Len(inq) \in Nat /\ Len(sent) \in Nat /\ n \in Nat
  BY <1>1, GotFacts, CountFacts
<1>5. /\ Len(sent) = 3 * (n - Len(inq)) + 2
      /\ \A j \in 1 .. n - Len(inq) : sent[3 * j] = Token("body", j)
      /\ Got >= 3 * n - 1
  BY <1>1, <1>2, <1>3 DEF OnceInv
<1>6. Got = Len(Texts)
  BY <1>3, <1>4
<1>7. k \in 1 .. n - Len(inq) /\ 3 * k \in 1 .. Len(Texts)
  BY <1>4, <1>5, <1>6
<1>8. Texts[3 * k] = sent[3 * k]
  <2>1. Texts \o buf = Texts
    BY <1>3, <1>4
  <2>2. sent = Texts \o out /\ out \in Seq(Tokens) /\ Texts \in Seq(Tokens)
    BY <1>1, <1>4, <2>1 DEF Intact, TypeOK
  <2>3. \A i \in 1 .. Len(Texts) : sent[i] = Texts[i]
    BY ONLY <2>2, ConcatFacts
  <2>4. QED
    BY <1>7, <2>3
<1>9. 3 * k \in DOMAIN Texts
  BY <1>4, <1>7
<1>10. QED
  BY <1>5, <1>7, <1>8, <1>9 DEF Has

\* The one-shot loop can miss the output of its last command only
\* (ssh_collector.go 171-191).
THEOREM SessionOnlyLastMissing == Spec => []OnlyLastMissing
<1>1. NodeSessionInv => OnlyLastMissing
  BY LastMissing
<1>2. QED
  BY <1>1, SessionInvariant, PTL
=============================================================================
