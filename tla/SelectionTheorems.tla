-------------------------- MODULE SelectionTheorems --------------------------
(* What Those selects (Selection): the laws the proofs about queues and lists   *)
(* use.  They are shown by induction over the length of a sequence, for which   *)
(* NatsBySteps and SeqsBySteps take the place of the library's induction        *)
(* theorems.                                                                    *)
EXTENDS Selection, FiniteSets, WellFoundedInduction, SequenceTheorems, TLAPS

\* Counting on from 0 reaches every natural number: the library's induction theorems
\* take an operator, of which the provers cannot make an instance.
LEMMA NatsBySteps ==
    ASSUME NEW T, 0 \in T, \A n \in Nat : n \in T => n + 1 \in T
    PROVE  Nat \subseteq T
<1> SUFFICES ASSUME Nat \ T # {} PROVE FALSE
  OBVIOUS
<1> DEFINE R == OpToRel(<, Nat)
<1>1. IsWellFoundedOn(R, Nat)
  BY NatLessThanWellFounded
<1>2. \A x, y \in Nat : x < y => <<x, y>> \in R
  BY DEF OpToRel
<1> HIDE DEF R
<1>3. PICK x \in Nat \ T : \A y \in Nat \ T : ~(<<y, x>> \in R)
  BY <1>1, WFMin
<1>4. x # 0 /\ x - 1 \in Nat
  BY <1>3
<1>5. x - 1 \notin T
  BY <1>3, <1>4
<1>6. x \in Nat /\ x - 1 < x
  BY <1>3
<1>7. <<x - 1, x>> \in R
  BY <1>2, <1>4, <1>6
<1>8. QED
  BY <1>3, <1>4, <1>5, <1>7

-----------------------------------------------------------------------------
(* What Those computes.                                                    *)

\* What the first element of those adds to what is selected before it.
Grown(q, e, S) == IF e \in S THEN Append(q, e) ELSE q

\* f selects from the first n elements of s.
Selects(f, n, s, S) ==
    f = [k \in 0..n |-> IF k = 0 THEN <<>> ELSE Grown(f[k - 1], s[k], S)]

\* The recursion has a solution.
LEMMA SelectsSome == ASSUME NEW s, NEW S, NEW n \in Nat PROVE \E f : Selects(f, n, s, S)
<1> DEFINE T == {m \in Nat : \E f : Selects(f, m, s, S)}
<1>1. 0 \in T
  <2>1. Selects([k \in 0..0 |-> <<>>], 0, s, S)
    BY DEF Selects
  <2>2. QED
    BY <2>1
<1>2. ASSUME NEW m \in Nat, m \in T PROVE m + 1 \in T
  <2>1. PICK f : Selects(f, m, s, S)
    BY <1>2
  <2> DEFINE g == [k \in 0..m + 1 |-> IF k = m + 1 THEN Grown(f[m], s[m + 1], S) ELSE f[k]]
  <2>2. ASSUME NEW k \in 0..m + 1
        PROVE  g[k] = IF k = 0 THEN <<>> ELSE Grown(g[k - 1], s[k], S)
    <3>1. CASE k = m + 1
      BY <3>1
    <3>2. CASE k \in 0..m
      <4>1. f[k] = IF k = 0 THEN <<>> ELSE Grown(f[k - 1], s[k], S)
        BY <2>1, <3>2 DEF Selects
      <4>2. k # m + 1 /\ (k # 0 => k - 1 \in 0..m + 1 /\ k - 1 # m + 1)
        BY <3>2
      <4>3. QED
        BY <4>1, <4>2
    <3>3. QED
      BY <3>1, <3>2
  <2>3. g = [k \in 0..m + 1 |-> g[k]]
    OBVIOUS
  <2> HIDE DEF g
  <2>4. Selects(g, m + 1, s, S)
    BY <2>2, <2>3 DEF Selects
  <2>5. QED
    BY <2>4
<1>3. QED
  BY <1>1, <1>2, NatsBySteps

\* Those is the last value of one.
LEMMA ThoseSelects ==
    ASSUME NEW s, NEW S, Len(s) \in Nat
    PROVE  \E f : Selects(f, Len(s), s, S) /\ Those(s, S) = f[Len(s)]
<1>1. \E f : Selects(f, Len(s), s, S)
  BY SelectsSome
<1>2. QED
  BY <1>1 DEF Those, Selects, Grown

\* Solutions for sequences that agree up to n agree up to n.
LEMMA SelectsAgree ==
    ASSUME NEW s, NEW t, NEW S, NEW m \in Nat, NEW n \in Nat, n <= m, NEW f, NEW g,
           Selects(f, n, s, S), Selects(g, m, t, S), \A k \in 1..n : s[k] = t[k]
    PROVE  f[n] = g[n]
<1> DEFINE T == {k \in Nat : k <= n => f[k] = g[k]}
<1>1. 0 \in T
  BY DEF Selects
<1>2. ASSUME NEW k \in Nat, k \in T PROVE k + 1 \in T
  <2> SUFFICES ASSUME k + 1 <= n PROVE f[k + 1] = g[k + 1]
    OBVIOUS
  <2>1. k + 1 \in 0..n /\ k + 1 \in 0..m /\ k + 1 \in 1..n /\ k + 1 # 0 /\ (k + 1) - 1 = k
    OBVIOUS
  <2>2. f[k] = g[k] /\ s[k + 1] = t[k + 1]
    BY <1>2, <2>1
  <2>3. f[k + 1] = Grown(f[k], s[k + 1], S)
    BY <2>1 DEF Selects
  <2>4. g[k + 1] = Grown(g[k], t[k + 1], S)
    BY <2>1 DEF Selects
  <2>5. QED
    BY <2>2, <2>3, <2>4
<1>3. Nat \subseteq T
  BY <1>1, <1>2, NatsBySteps
<1>4. QED
  BY <1>3

\* Nothing is selected from nothing.
LEMMA ThoseEmpty == \A S : Those(<<>>, S) = <<>>
<1> SUFFICES ASSUME NEW S PROVE Those(<<>>, S) = <<>>
  OBVIOUS
<1>1. PICK f : Selects(f, Len(<<>>), <<>>, S) /\ Those(<<>>, S) = f[Len(<<>>)]
  BY ThoseSelects
<1>2. Len(<<>>) = 0
  OBVIOUS
<1>3. f[0] = <<>>
  BY <1>1, <1>2 DEF Selects
<1>4. QED
  BY <1>1, <1>2, <1>3

\* A further element is selected or not.
LEMMA ThoseAppend ==
    ASSUME NEW X, NEW S, NEW s \in Seq(X), NEW e \in X
    PROVE  Those(Append(s, e), S) = IF e \in S THEN Append(Those(s, S), e) ELSE Those(s, S)
<1> DEFINE t == Append(s, e)
           n == Len(s)
<1>1. n \in Nat /\ Len(t) = n + 1 /\ t[n + 1] = e /\ \A k \in 1..n : s[k] = t[k]
  OBVIOUS
<1> HIDE DEF t
<1>2. PICK f : Selects(f, n, s, S) /\ Those(s, S) = f[n]
  BY <1>1, ThoseSelects
<1> HIDE DEF n
<1>3. PICK g : Selects(g, n + 1, t, S) /\ Those(t, S) = g[n + 1]
  BY <1>1, ThoseSelects
<1>4. f[n] = g[n]
  BY <1>1, <1>2, <1>3, SelectsAgree
<1>5. g[n + 1] = Grown(g[n], t[n + 1], S)
  <2>1. n + 1 \in 0..n + 1 /\ n + 1 # 0 /\ (n + 1) - 1 = n
    BY <1>1
  <2>2. QED
    BY <1>3, <2>1 DEF Selects
<1>6. QED
  BY <1>1, <1>2, <1>3, <1>4, <1>5 DEF Grown, t

\* Appending element by element reaches every sequence.
LEMMA SeqsBySteps ==
    ASSUME NEW X, NEW T, <<>> \in T, \A s \in Seq(X), e \in X : s \in T => Append(s, e) \in T
    PROVE  Seq(X) \subseteq T
<1> DEFINE N == {n \in Nat : \A s \in Seq(X) : Len(s) = n => s \in T}
<1>1. 0 \in N
  BY EmptySeq
<1>2. ASSUME NEW n \in Nat, n \in N PROVE n + 1 \in N
  <2> SUFFICES ASSUME NEW s \in Seq(X), Len(s) = n + 1 PROVE s \in T
    OBVIOUS
  <2>1. s # <<>>
    BY EmptySeq
  <2>2. PICK q \in Seq(X), e \in X : s = Append(q, e)
    BY <2>1, SequenceEmptyOrAppend
  <2>3. Len(q) = n
    BY <2>2
  <2>4. q \in T
    BY <1>2, <2>3
  <2>5. QED
    BY <2>2, <2>4
<1>3. Nat \subseteq N
  BY <1>1, <1>2, NatsBySteps
<1>4. ASSUME NEW s \in Seq(X) PROVE s \in T
  BY <1>3
<1>5. QED
  BY <1>4

\* Those are elements of the sequence and of the set.
LEMMA ThoseIn ==
    ASSUME NEW X, NEW S, NEW s \in Seq(X)
    PROVE  Those(s, S) \in Seq(X \cap S) /\ Those(s, S) \in Seq(X)
<1> DEFINE T == {q \in Seq(X) : Those(q, S) \in Seq(X \cap S)}
<1>1. <<>> \in T
  <2>1. <<>> \in Seq(X) /\ <<>> \in Seq(X \cap S)
    OBVIOUS
  <2>2. QED
    BY <2>1, ThoseEmpty
<1>2. ASSUME NEW q \in Seq(X), NEW e \in X, q \in T PROVE Append(q, e) \in T
  <2>1. Those(Append(q, e), S) = IF e \in S THEN Append(Those(q, S), e) ELSE Those(q, S)
    BY ThoseAppend
  <2>2. Append(q, e) \in Seq(X)
    OBVIOUS
  <2>3. Those(Append(q, e), S) \in Seq(X \cap S)
    BY <1>2, <2>1
  <2>4. QED
    BY <2>2, <2>3
<1>3. Seq(X) \subseteq T
  BY <1>1, <1>2, SeqsBySteps
<1>4. Seq(X \cap S) \subseteq Seq(X)
  BY SeqMonotonic
<1>5. QED
  BY <1>3, <1>4

\* Those of two sequences, one after the other.
LEMMA ThoseConcat ==
    ASSUME NEW X, NEW S, NEW s \in Seq(X), NEW t \in Seq(X)
    PROVE  Those(s \o t, S) = Those(s, S) \o Those(t, S)
<1> DEFINE T == {q \in Seq(X) : Those(s \o q, S) = Those(s, S) \o Those(q, S)}
<1>0. Those(s, S) \in Seq(X)
  BY ThoseIn
<1>1. <<>> \in T
  BY <1>0, ThoseEmpty
<1>2. ASSUME NEW q \in Seq(X), NEW e \in X, q \in T PROVE Append(q, e) \in T
  <2>1. Append(q, e) \in Seq(X) /\ s \o Append(q, e) = Append(s \o q, e) /\ s \o q \in Seq(X)
    OBVIOUS
  <2>2. Those(Append(s \o q, e), S) =
            IF e \in S THEN Append(Those(s \o q, S), e) ELSE Those(s \o q, S)
    <3> DEFINE u == s \o q
    <3>1. u \in Seq(X)
      BY <2>1
    <3> HIDE DEF u
    <3>2. Those(Append(u, e), S) = IF e \in S THEN Append(Those(u, S), e) ELSE Those(u, S)
      BY <3>1, ThoseAppend
    <3>3. QED
      BY <3>2 DEF u
  <2>3. Those(Append(q, e), S) = IF e \in S THEN Append(Those(q, S), e) ELSE Those(q, S)
    BY ThoseAppend
  <2>4. Those(s \o q, S) = Those(s, S) \o Those(q, S)
    BY <1>2
  <2>5. Those(q, S) \in Seq(X)
    BY ThoseIn
  <2>6. Those(s, S) \o Append(Those(q, S), e) = Append(Those(s, S) \o Those(q, S), e)
    BY <1>0, <2>5
  <2>7. QED
    BY <2>1, <2>2, <2>3, <2>4, <2>6
<1>3. QED
  BY <1>1, <1>2, SeqsBySteps

\* The first element is selected or not.
LEMMA ThoseHead ==
    ASSUME NEW X, NEW S, NEW s \in Seq(X), s # <<>>
    PROVE  Those(s, S) = IF Head(s) \in S THEN <<Head(s)>> \o Those(Tail(s), S)
                         ELSE Those(Tail(s), S)
<1>1. Head(s) \in X /\ Tail(s) \in Seq(X) /\ <<Head(s)>> \in Seq(X) /\ s = <<Head(s)>> \o Tail(s)
  OBVIOUS
<1>2. Those(s, S) = Those(<<Head(s)>>, S) \o Those(Tail(s), S)
  BY <1>1, ThoseConcat
<1>3. Those(<<Head(s)>>, S) = IF Head(s) \in S THEN <<Head(s)>> ELSE <<>>
  <2>1. <<Head(s)>> = Append(<<>>, Head(s)) /\ <<>> \in Seq(X)
    OBVIOUS
  <2>2. Those(Append(<<>>, Head(s)), S) =
            IF Head(s) \in S THEN Append(Those(<<>>, S), Head(s)) ELSE Those(<<>>, S)
    <3> DEFINE u == <<>>
               h == Head(s)
    <3>1. u \in Seq(X) /\ h \in X
      BY <1>1
    <3> HIDE DEF u, h
    <3>2. Those(Append(u, h), S) = IF h \in S THEN Append(Those(u, S), h) ELSE Those(u, S)
      BY <3>1, ThoseAppend
    <3>3. QED
      BY <3>2 DEF u, h
  <2>3. QED
    BY <2>1, <2>2, ThoseEmpty
<1>4. Those(Tail(s), S) \in Seq(X)
  BY <1>1, ThoseIn
<1>5. QED
  BY <1>2, <1>3, <1>4, ConcatEmptySeq

\* Appending and prepending after one another.
LEMMA ConcatAppend ==
    ASSUME NEW X, NEW s \in Seq(X), NEW t \in Seq(X), NEW e \in X
    PROVE  /\ s \o Append(t, e) = Append(s \o t, e)
           /\ s \o (<<e>> \o t) = Append(s, e) \o t
<1> DEFINE u == <<e>>
           w == s \o t
<1>1. \A q \in Seq(X) : q \o u = Append(q, e)
  OBVIOUS
<1>2. u \in Seq(X) /\ w \in Seq(X)
  OBVIOUS
<1>3. t \o u = Append(t, e) /\ s \o u = Append(s, e)
  BY <1>1
<1>4. w \o u = Append(w, e)
  BY <1>1, <1>2
<1> HIDE DEF u
<1>5. (s \o t) \o u = s \o (t \o u)
  BY <1>2, ConcatAssociative
<1>6. (s \o u) \o t = s \o (u \o t)
  BY <1>2, ConcatAssociative
<1>7. QED
  BY <1>3, <1>4, <1>5, <1>6 DEF u

\* Of one element.
LEMMA ThoseOne ==
    ASSUME NEW X, NEW S, NEW e \in X
    PROVE  Those(<<e>>, S) = IF e \in S THEN <<e>> ELSE <<>>
<1> DEFINE s == <<e>>
<1>1. s \in Seq(X) /\ s # <<>> /\ Head(s) = e /\ Tail(s) = <<>>
  OBVIOUS
<1> HIDE DEF s
<1>2. Those(s, S) = IF e \in S THEN <<e>> \o Those(Tail(s), S) ELSE Those(Tail(s), S)
  BY <1>1, ThoseHead
<1>3. Those(Tail(s), S) = <<>>
  BY <1>1, ThoseEmpty
<1>4. QED
  BY <1>2, <1>3 DEF s

\* A selection from a selection is one from the whole.
LEMMA ThoseOfThose ==
    ASSUME NEW X, NEW S, NEW R, R \subseteq S, NEW s \in Seq(X)
    PROVE  Those(Those(s, S), R) = Those(s, R)
<1> DEFINE T == {q \in Seq(X) : Those(Those(q, S), R) = Those(q, R)}
<1>1. <<>> \in T
  BY ThoseEmpty
<1>2. ASSUME NEW q \in Seq(X), NEW e \in X, q \in T PROVE Append(q, e) \in T
  <2>1. Those(Append(q, e), S) = IF e \in S THEN Append(Those(q, S), e) ELSE Those(q, S)
    BY ThoseAppend
  <2>2. Those(Append(q, e), R) = IF e \in R THEN Append(Those(q, R), e) ELSE Those(q, R)
    BY ThoseAppend
  <2>3. Those(Those(q, S), R) = Those(q, R)
    BY <1>2
  <2>4. Those(Append(Those(q, S), e), R) =
            IF e \in R THEN Append(Those(Those(q, S), R), e) ELSE Those(Those(q, S), R)
    <3> DEFINE u == Those(q, S)
    <3>1. u \in Seq(X)
      BY ThoseIn
    <3> HIDE DEF u
    <3>2. Those(Append(u, e), R) = IF e \in R THEN Append(Those(u, R), e) ELSE Those(u, R)
      BY <3>1, ThoseAppend
    <3>3. QED
      BY <3>2 DEF u
  <2>5. Those(Those(Append(q, e), S), R) = Those(Append(q, e), R)
    BY <2>1, <2>2, <2>3, <2>4
  <2>6. Append(q, e) \in Seq(X)
    OBVIOUS
  <2>7. QED
    BY <2>5, <2>6
<1>3. QED
  BY <1>1, <1>2, SeqsBySteps

\* All are selected where all are in the set, none where none is.
LEMMA ThoseAll ==
    ASSUME NEW X, NEW S, NEW s \in Seq(X)
    PROVE  /\ X \subseteq S => Those(s, S) = s
           /\ X \cap S = {} => Those(s, S) = <<>>
<1> DEFINE T == {q \in Seq(X) : /\ X \subseteq S => Those(q, S) = q
                                /\ X \cap S = {} => Those(q, S) = <<>>}
<1>1. <<>> \in T
  BY ThoseEmpty
<1>2. ASSUME NEW q \in Seq(X), NEW e \in X, q \in T PROVE Append(q, e) \in T
  <2>1. Those(Append(q, e), S) = IF e \in S THEN Append(Those(q, S), e) ELSE Those(q, S)
    BY ThoseAppend
  <2>2. Append(q, e) \in Seq(X)
    OBVIOUS
  <2>3. QED
    BY <1>2, <2>1, <2>2
<1>3. QED
  BY <1>1, <1>2, SeqsBySteps

\* Sequences without what they begin with.
LEMMA TailConcat ==
    ASSUME NEW X, NEW s \in Seq(X), NEW t \in Seq(X), s # <<>>
    PROVE  /\ s \o t \in Seq(X) /\ s \o t # <<>> /\ Head(s \o t) = Head(s) /\ Head(s) \in X
           /\ Tail(s \o t) = Tail(s) \o t /\ Tail(s) \in Seq(X)
           /\ SubSeq(s, 2, Len(s)) = Tail(s)
<1>1. Len(s) \in Nat /\ Len(s) > 0 /\ Len(t) \in Nat
  OBVIOUS
<1>2. s \o t \in Seq(X) /\ Len(s \o t) = Len(s) + Len(t) /\ s \o t # <<>>
  BY <1>1
<1>3. Head(s \o t) = Head(s) /\ Head(s) \in X /\ Tail(s) \in Seq(X)
  BY <1>1, <1>2
<1>4. Tail(s \o t) = Tail(s) \o t
  BY <1>1
<1>5. SubSeq(s, 2, Len(s)) = Tail(s)
  BY <1>1
<1>6. QED
  BY <1>2, <1>3, <1>4, <1>5

\* Without its first two elements.
LEMMA TailTail ==
    ASSUME NEW X, NEW s \in Seq(X), Len(s) > 1
    PROVE  Tail(s) # <<>> /\ SubSeq(s, 3, Len(s)) = Tail(Tail(s))
<1>1. s # <<>> /\ Len(s) \in Nat
  OBVIOUS
<1>2. Tail(s) \in Seq(X) /\ Len(Tail(s)) = Len(s) - 1 /\ \A i \in 1..Len(s) - 1 : Tail(s)[i] = s[i + 1]
  BY <1>1
<1> DEFINE t == Tail(s)
           u == Tail(t)
           v == SubSeq(s, 3, Len(s))
<1>3. t # <<>>
  <2>1. Len(t) > 0
    BY <1>2
  <2>2. Len(<<>>) = 0
    OBVIOUS
  <2> HIDE DEF t
  <2>3. QED
    BY <2>1, <2>2
<1>4. v \in Seq(X) /\ Len(v) = Len(s) - 2 /\ \A i \in 1..Len(s) - 2 : v[i] = s[i + 2]
  <2>1. 3 \in 1..Len(s) + 1 /\ Len(s) \in 3 - 1..Len(s)
    BY <1>1
  <2>2. /\ v \in Seq(X) /\ Len(v) = IF 3 <= Len(s) THEN Len(s) - 3 + 1 ELSE 0
        /\ \A i \in 1..Len(s) - 3 + 1 : v[i] = s[3 + i - 1]
    BY <2>1, SubSeqProperties
  <2> HIDE DEF v
  <2>3. Len(v) = Len(s) - 2
    <3>1. Len(s) \in Nat /\ Len(s) > 1
      BY <1>1
    <3>2. Len(v) = IF 3 <= Len(s) THEN Len(s) - 3 + 1 ELSE 0
      BY <2>2
    <3> DEFINE n == Len(s)
               k == Len(v)
    <3>3. n \in Nat /\ n > 1 /\ k = IF 3 <= n THEN n - 3 + 1 ELSE 0
      BY <3>1, <3>2
    <3> HIDE DEF n, k
    <3>4. k = n - 2
      BY <3>3
    <3>5. QED
      BY <3>4 DEF n, k
  <2>4. \A i \in 1..Len(s) - 2 : v[i] = s[i + 2]
    BY <1>1, <2>2
  <2>5. QED
    BY <2>2, <2>3, <2>4
<1>5. t \in Seq(X) /\ Len(t) = Len(s) - 1 /\ \A i \in 1..Len(s) - 1 : t[i] = s[i + 1]
  BY <1>2
<1> HIDE DEF t, v
<1>6. u \in Seq(X) /\ Len(u) = Len(t) - 1 /\ \A i \in 1..Len(t) - 1 : u[i] = t[i + 1]
  BY <1>3, <1>5
<1> HIDE DEF u
<1>7. \A i \in 1..Len(u) : u[i] = v[i]
  <2> TAKE i \in 1..Len(u)
  <2>1. i \in 1..Len(s) - 2 /\ i \in 1..Len(t) - 1 /\ i + 1 \in 1..Len(s) - 1 /\ (i + 1) + 1 = i + 2
    BY <1>1, <1>5, <1>6
  <2>2. u[i] = t[i + 1] /\ t[i + 1] = s[(i + 1) + 1] /\ v[i] = s[i + 2]
    BY <1>4, <1>5, <1>6, <2>1
  <2>3. QED
    BY <2>1, <2>2
<1>8. u = v
  BY <1>4, <1>5, <1>6, <1>7, SeqEqual
<1>9. QED
  BY <1>3, <1>8 DEF u, v, t

\* What was sorted out of the middle of a sequence is not missed in a selection from the rest.
LEMMA ChunkSelects ==
    ASSUME NEW X, NEW S, NEW R, R \subseteq S, NEW e \in Seq(X), NEW c \in Seq(X), NEW r \in Seq(X)
    PROVE  Those((e \o Those(c, S)) \o r, R) = Those(e \o (c \o r), R)
<1> DEFINE d == Those(c, S)
           a == Those(e, R)
           b == Those(c, R)
           g == Those(r, R)
<1>1. d \in Seq(X) /\ Those(d, R) = b
  <2>1. d \in Seq(X)
    BY ThoseIn
  <2>2. Those(d, R) = b
    BY ThoseOfThose
  <2>3. QED
    BY <2>1, <2>2
<1>2. a \in Seq(X) /\ b \in Seq(X) /\ g \in Seq(X)
  BY ThoseIn
<1> HIDE DEF d
<1>3. e \o d \in Seq(X) /\ c \o r \in Seq(X)
  BY <1>1
<1>4. Those((e \o d) \o r, R) = Those(e \o d, R) \o g
  <2> DEFINE ed == e \o d
  <2>1. ed \in Seq(X)
    BY <1>3
  <2> HIDE DEF ed
  <2>2. Those(ed \o r, R) = Those(ed, R) \o Those(r, R)
    BY <2>1, ThoseConcat
  <2>3. QED
    BY <2>2 DEF ed
<1>5. Those(e \o d, R) = a \o b
  <2>1. Those(e \o d, R) = Those(e, R) \o Those(d, R)
    BY <1>1, ThoseConcat
  <2>2. QED
    BY <1>1, <2>1
<1>6. Those(e \o (c \o r), R) = a \o (b \o g)
  <2> DEFINE cr == c \o r
  <2>1. cr \in Seq(X) /\ Those(cr, R) = b \o g
    BY <1>3, ThoseConcat
  <2> HIDE DEF cr
  <2>2. Those(e \o cr, R) = Those(e, R) \o Those(cr, R)
    BY <2>1, ThoseConcat
  <2>3. QED
    BY <2>1, <2>2 DEF cr
<1> HIDE DEF a, b, g
<1>7. (a \o b) \o g = a \o (b \o g)
  <2>1. \A x, y, z \in Seq(X) : (x \o y) \o z = x \o (y \o z)
    BY ConcatAssociative, SMTT(60)
  <2>2. QED
    BY <1>2, <2>1, ZenonT(30)
<1>8. QED
  BY <1>4, <1>5, <1>6, <1>7 DEF d
=============================================================================
