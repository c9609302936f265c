--------------------------- MODULE DataInduction ---------------------------
(***************************************************************************)
(* Induction over data, for the operators of the community modules that    *)
(* the models use on sequences of any length.                              *)
(*                                                                         *)
(* The induction theorems of the library take an operator as a parameter.  *)
(* NatSet needs none: it speaks of a set of numbers, and follows from the  *)
(* fact that every set of naturals that is not empty has a least element.  *)
(* The lemmas on FlattenSeq and FoldLeft are proved with it: each is a     *)
(* function that CHOOSE picks among those that satisfy its equation, so    *)
(* first there must be one.                                                *)
(***************************************************************************)
EXTENDS SequencesExt, Integers, SequenceTheorems, WellFoundedInduction, TLAPS

(* A set that holds 0, and n + 1 with every n, holds every natural.        *)
LEMMA NatSet ==
    ASSUME NEW T, 0 \in T, \A n \in Nat : n \in T => n + 1 \in T
    PROVE  Nat \subseteq T
<1> DEFINE B == Nat \ T
<1> SUFFICES ASSUME B # {} PROVE FALSE
  OBVIOUS
<1>1. PICK m \in B : \A y \in B : <<y, m>> \notin OpToRel(<, Nat)
  <2>1. B \subseteq Nat
    OBVIOUS
  <2> HIDE DEF B
  <2> QED
    BY <2>1, WFMin, NatLessThanWellFounded
<1>2. \A y \in B : ~(y < m)
  <2> SUFFICES ASSUME NEW y \in B, y < m PROVE FALSE
    OBVIOUS
  <2>1. <<y, m>> \in OpToRel(<, Nat)
    BY DEF OpToRel
  <2> QED
    BY <1>1, <2>1
<1>3. m # 0 /\ m \in Nat /\ m \notin T
  OBVIOUS
<1>4. m - 1 \in Nat /\ m - 1 < m
  BY <1>3
<1>5. m - 1 \in T
  BY <1>2, <1>4
<1> QED
  BY <1>3, <1>4, <1>5

-----------------------------------------------------------------------------
(* FlattenSeq.                                                             *)

\* g is the function FlattenSeq takes the last value of.
Flattens(g, ss) ==
    g = [i \in 1 .. Len(ss) |-> IF i = 1 THEN ss[i] ELSE g[i - 1] \o ss[i]]

(* There is such a function.                                               *)
LEMMA FlattenExists ==
    ASSUME NEW S, NEW ss \in Seq(Seq(S))
    PROVE  \E g : Flattens(g, ss)
<1> DEFINE Eq(g, k) == g = [i \in 1 .. k |-> IF i = 1 THEN ss[i] ELSE g[i - 1] \o ss[i]]
           T == {k \in Nat : \E g : Eq(g, k)}
<1>1. 0 \in T
  <2>1. Eq([i \in 1 .. 0 |-> 0], 0)
    OBVIOUS
  <2> QED
    BY <2>1
<1>2. ASSUME NEW k \in Nat, k \in T PROVE k + 1 \in T
  <2>1. PICK g : Eq(g, k)
    BY <1>2
  <2> DEFINE h == [i \in 1 .. k + 1 |->
                     IF i = k + 1 THEN (IF i = 1 THEN ss[i] ELSE g[k] \o ss[i]) ELSE g[i]]
  <2>2. Eq(h, k + 1)
    <3> DEFINE e == [i \in 1 .. k + 1 |-> IF i = 1 THEN ss[i] ELSE h[i - 1] \o ss[i]]
    <3>1. ASSUME NEW i \in 1 .. k + 1 PROVE h[i] = e[i]
      <4>1. CASE i = k + 1 /\ i = 1
        BY <4>1
      <4>2. CASE i = k + 1 /\ i # 1
        <5>1. i - 1 \in 1 .. k + 1 /\ i - 1 # k + 1 /\ i - 1 = k
          BY <4>2
        <5>2. h[i - 1] = g[k]
          BY <5>1
        <5> QED
          BY <4>2, <5>2
      <4>3. CASE i # k + 1
        <5>1. i \in 1 .. k
          BY <4>3
        <5>2. g[i] = IF i = 1 THEN ss[i] ELSE g[i - 1] \o ss[i]
          BY <2>1, <5>1
        <5>3. h[i] = g[i]
          BY <4>3
        <5>4. i # 1 => h[i - 1] = g[i - 1]
          <6> SUFFICES ASSUME i # 1 PROVE h[i - 1] = g[i - 1]
            OBVIOUS
          <6>1. i - 1 \in 1 .. k + 1 /\ i - 1 # k + 1
            BY <5>1
          <6> QED
            BY <6>1
        <5>5. e[i] = IF i = 1 THEN ss[i] ELSE h[i - 1] \o ss[i]
          OBVIOUS
        <5> HIDE DEF h, e
        <5> QED
          BY <5>2, <5>3, <5>4, <5>5
      <4> QED
        BY <4>1, <4>2, <4>3
    <3>2. h = e
      <4>1. DOMAIN h = DOMAIN e /\ DOMAIN h = 1 .. k + 1
        OBVIOUS
      <4>2. h = [i \in DOMAIN h |-> h[i]] /\ e = [i \in DOMAIN e |-> e[i]]
        OBVIOUS
      <4> HIDE DEF h, e
      <4> QED
        BY <3>1, <4>1, <4>2
    <3> QED
      BY <3>2
  <2> HIDE DEF Eq, h
  <2> QED
    BY <2>2
<1>3. Len(ss) \in Nat
  OBVIOUS
<1> HIDE DEF T
<1>4. Len(ss) \in T
  BY <1>1, <1>2, <1>3, NatSet
<1> QED
  BY <1>4 DEF T, Flattens

(* FlattenSeq is its last value.                                           *)
LEMMA FlattenFunction ==
    ASSUME NEW S, NEW ss \in Seq(Seq(S))
    PROVE  \E g : /\ Flattens(g, ss)
                  /\ FlattenSeq(ss) = IF Len(ss) = 0 THEN ss ELSE g[Len(ss)]
<1> DEFINE g == CHOOSE flatten : Flattens(flatten, ss)
<1>1. Flattens(g, ss)
  <2>1. \E flatten : Flattens(flatten, ss)
    BY FlattenExists
  <2> QED
    BY <2>1
<1>2. FlattenSeq(ss) = IF Len(ss) = 0 THEN ss ELSE g[Len(ss)]
  BY DEF FlattenSeq, Flattens
<1> HIDE DEF g
<1> QED
  BY <1>1, <1>2

(* The equation, at one index.                                             *)
LEMMA FlattenValue ==
    ASSUME NEW ss, NEW g, Flattens(g, ss), NEW i \in 1 .. Len(ss)
    PROVE  g[i] = IF i = 1 THEN ss[i] ELSE g[i - 1] \o ss[i]
<1> DEFINE e == [j \in 1 .. Len(ss) |-> IF j = 1 THEN ss[j] ELSE g[j - 1] \o ss[j]]
<1>1. g = e
  BY DEF Flattens
<1>2. e[i] = IF i = 1 THEN ss[i] ELSE g[i - 1] \o ss[i]
  OBVIOUS
<1> HIDE DEF e
<1> QED
  BY <1>1, <1>2

(* Its values are sequences of the same elements.                          *)
LEMMA FlattenedType ==
    ASSUME NEW S, NEW ss \in Seq(Seq(S)), NEW g, Flattens(g, ss)
    PROVE  \A i \in 1 .. Len(ss) : g[i] \in Seq(S)
<1> DEFINE T == {k \in Nat : k \in 1 .. Len(ss) => g[k] \in Seq(S)}
<1>1. 0 \in T
  OBVIOUS
<1>2. ASSUME NEW k \in Nat, k \in T PROVE k + 1 \in T
  <2> SUFFICES ASSUME k + 1 \in 1 .. Len(ss) PROVE g[k + 1] \in Seq(S)
    OBVIOUS
  <2>1. g[k + 1] = IF k + 1 = 1 THEN ss[k + 1] ELSE g[k + 1 - 1] \o ss[k + 1]
    BY FlattenValue
  <2>2. ss[k + 1] \in Seq(S) /\ k + 1 - 1 = k
    OBVIOUS
  <2>3. k # 0 => g[k] \in Seq(S)
    BY <1>2
  <2>4. CASE k = 0
    BY <2>1, <2>2, <2>4
  <2>5. CASE k # 0
    BY <2>1, <2>2, <2>3, <2>5
  <2> QED
    BY <2>4, <2>5
<1> HIDE DEF T
<1>3. Nat \subseteq T
  BY <1>1, <1>2, NatSet
<1> QED
  BY <1>3 DEF T

(* Nothing, flattened, is nothing.                                         *)
LEMMA FlattenEmpty == FlattenSeq(<<>>) = <<>>
  BY DEF FlattenSeq

(* The elements stay.                                                      *)
LEMMA FlattenType ==
    ASSUME NEW S, NEW ss \in Seq(Seq(S))
    PROVE  FlattenSeq(ss) \in Seq(S)
<1>1. PICK g : /\ Flattens(g, ss)
               /\ FlattenSeq(ss) = IF Len(ss) = 0 THEN ss ELSE g[Len(ss)]
  BY FlattenFunction
<1>2. CASE Len(ss) = 0
  BY <1>1, <1>2
<1>3. CASE Len(ss) # 0
  BY <1>1, <1>3, FlattenedType
<1> QED
  BY <1>2, <1>3

(* One more sequence goes to the end.                                      *)
LEMMA FlattenAppend ==
    ASSUME NEW S, NEW ss \in Seq(Seq(S)), NEW s \in Seq(S)
    PROVE  FlattenSeq(Append(ss, s)) = FlattenSeq(ss) \o s
<1> DEFINE tt == Append(ss, s)
           n == Len(ss)
<1>0. /\ tt \in Seq(Seq(S)) /\ Len(tt) = n + 1 /\ n \in Nat /\ tt[n + 1] = s
      /\ \A i \in 1 .. n : tt[i] = ss[i]
  OBVIOUS
<1>1. PICK g : /\ Flattens(g, ss)
               /\ FlattenSeq(ss) = IF Len(ss) = 0 THEN ss ELSE g[Len(ss)]
  BY FlattenFunction
<1> HIDE DEF tt
<1>2. PICK h : /\ Flattens(h, tt)
               /\ FlattenSeq(tt) = IF Len(tt) = 0 THEN tt ELSE h[Len(tt)]
  BY <1>0, FlattenFunction
<1> DEFINE T == {k \in Nat : k \in 1 .. n => h[k] = g[k]}
<1>3. 0 \in T
  OBVIOUS
<1>4. ASSUME NEW k \in Nat, k \in T PROVE k + 1 \in T
  <2> SUFFICES ASSUME k + 1 \in 1 .. n PROVE h[k + 1] = g[k + 1]
    OBVIOUS
  <2>1. g[k + 1] = IF k + 1 = 1 THEN ss[k + 1] ELSE g[k + 1 - 1] \o ss[k + 1]
    BY <1>1, FlattenValue
  <2>2. h[k + 1] = IF k + 1 = 1 THEN tt[k + 1] ELSE h[k + 1 - 1] \o tt[k + 1]
    BY <1>0, <1>2, FlattenValue
  <2>3. tt[k + 1] = ss[k + 1] /\ k + 1 - 1 = k
    BY <1>0
  <2>4. k + 1 # 1 => h[k] = g[k]
    BY <1>4
  <2> QED
    BY <2>1, <2>2, <2>3, <2>4
<1> HIDE DEF T
<1>5. Nat \subseteq T
  BY <1>3, <1>4, NatSet
<1>6. FlattenSeq(tt) = h[n + 1]
  BY <1>0, <1>2
<1>7. h[n + 1] = IF n + 1 = 1 THEN tt[n + 1] ELSE h[n + 1 - 1] \o tt[n + 1]
  BY <1>0, <1>2, FlattenValue
<1>8. CASE n = 0
  <2>1. ss = <<>>
    BY <1>8
  <2> QED
    BY <1>0, <1>6, <1>7, <1>8, <2>1, FlattenEmpty DEF tt
<1>9. CASE n # 0
  <2>1. h[n] = g[n]
    BY <1>0, <1>5, <1>9 DEF T
  <2>2. n + 1 - 1 = n /\ n + 1 # 1
    BY <1>0, <1>9
  <2> QED
    BY <1>0, <1>1, <1>6, <1>7, <1>9, <2>1, <2>2 DEF tt
<1> QED
  BY <1>8, <1>9

(* One sequence, flattened, is that sequence.                              *)
LEMMA FlattenOne ==
    ASSUME NEW S, NEW s \in Seq(S)
    PROVE  FlattenSeq(<<s>>) = s
<1>1. <<>> \in Seq(Seq(S)) /\ Append(<<>>, s) = <<s>> /\ <<>> \o s = s
  OBVIOUS
<1>2. FlattenSeq(Append(<<>>, s)) = FlattenSeq(<<>>) \o s
  BY <1>1, FlattenAppend
<1> QED
  BY <1>1, <1>2, FlattenEmpty

(* Flattening the parts and joining them is the same.                      *)
LEMMA FlattenConcat ==
    ASSUME NEW S, NEW a \in Seq(Seq(S)), NEW b \in Seq(Seq(S))
    PROVE  FlattenSeq(a \o b) = FlattenSeq(a) \o FlattenSeq(b)
<1> DEFINE T == {n \in Nat : \A t \in Seq(Seq(S)) : Len(t) = n =>
                                FlattenSeq(a \o t) = FlattenSeq(a) \o FlattenSeq(t)}
<1>0. FlattenSeq(a) \in Seq(S)
  BY FlattenType
<1>1. 0 \in T
  <2> SUFFICES ASSUME NEW t \in Seq(Seq(S)), Len(t) = 0
               PROVE  FlattenSeq(a \o t) = FlattenSeq(a) \o FlattenSeq(t)
    OBVIOUS
  <2>1. t = <<>> /\ a \o <<>> = a /\ FlattenSeq(a) \o <<>> = FlattenSeq(a)
    BY <1>0
  <2> QED
    BY <2>1, FlattenEmpty
<1>2. ASSUME NEW n \in Nat, n \in T PROVE n + 1 \in T
  <2> SUFFICES ASSUME NEW t \in Seq(Seq(S)), Len(t) = n + 1
               PROVE  FlattenSeq(a \o t) = FlattenSeq(a) \o FlattenSeq(t)
    OBVIOUS
  <2> DEFINE u == SubSeq(t, 1, n)
             s == t[n + 1]
  <2>1. u \in Seq(Seq(S)) /\ s \in Seq(S) /\ Len(u) = n
    OBVIOUS
  <2>2. t = Append(u, s)
    OBVIOUS
  <2>3. a \o u \in Seq(Seq(S))
    BY <2>1
  <2>4. a \o Append(u, s) = Append(a \o u, s)
    BY <2>1
  <2> HIDE DEF u, s
  <2>5. FlattenSeq(a \o t) = FlattenSeq(a \o u) \o s
    BY <2>1, <2>2, <2>3, <2>4, FlattenAppend
  <2>6. FlattenSeq(a \o u) = FlattenSeq(a) \o FlattenSeq(u)
    BY <1>2, <2>1
  <2>7. FlattenSeq(t) = FlattenSeq(u) \o s
    BY <2>1, <2>2, FlattenAppend
  <2>8. FlattenSeq(u) \in Seq(S)
    BY <2>1, FlattenType
  <2>9. (FlattenSeq(a) \o FlattenSeq(u)) \o s = FlattenSeq(a) \o (FlattenSeq(u) \o s)
    BY <1>0, <2>1, <2>8
  <2> QED
    BY <2>5, <2>6, <2>7, <2>9
<1> HIDE DEF T
<1>3. Len(b) \in Nat
  OBVIOUS
<1>4. Len(b) \in T
  BY <1>1, <1>2, <1>3, NatSet
<1> QED
  BY <1>4 DEF T

(* The first sequence, and the rest flattened.                             *)
LEMMA FlattenHead ==
    ASSUME NEW S, NEW ss \in Seq(Seq(S)), ss # <<>>
    PROVE  FlattenSeq(ss) = Head(ss) \o FlattenSeq(Tail(ss))
<1>1. <<Head(ss)>> \in Seq(Seq(S)) /\ Tail(ss) \in Seq(Seq(S)) /\ Head(ss) \in Seq(S)
  OBVIOUS
<1>2. ss = <<Head(ss)>> \o Tail(ss)
  OBVIOUS
<1>3. FlattenSeq(<<Head(ss)>> \o Tail(ss)) = FlattenSeq(<<Head(ss)>>) \o FlattenSeq(Tail(ss))
  BY <1>1, FlattenConcat
<1> QED
  BY <1>1, <1>2, <1>3, FlattenOne

-----------------------------------------------------------------------------
(* A function applied to every element.                                    *)

\* f takes A to B; a name for it keeps the lemmas easy to instantiate.
Maps(f, A, B) == f \in [A -> B]

Image(f, a) == [i \in DOMAIN a |-> f[a[i]]]

LEMMA ImageType ==
    ASSUME NEW A, NEW B, NEW f, Maps(f, A, B), NEW a \in Seq(A)
    PROVE  Image(f, a) \in Seq(B) /\ Len(Image(f, a)) = Len(a)
<1>1. DOMAIN a = 1 .. Len(a) /\ Len(a) \in Nat
  OBVIOUS
<1>2. \A i \in 1 .. Len(a) : f[a[i]] \in B
  BY DEF Maps
<1> QED
  BY <1>1, <1>2 DEF Image

LEMMA ImageConcat ==
    ASSUME NEW A, NEW B, NEW f, Maps(f, A, B), NEW a \in Seq(A), NEW b \in Seq(A)
    PROVE  Image(f, a \o b) = Image(f, a) \o Image(f, b)
<1> DEFINE x == Image(f, a)
           y == Image(f, b)
           z == Image(f, a \o b)
<1>1. /\ x \in Seq(B) /\ Len(x) = Len(a)
      /\ y \in Seq(B) /\ Len(y) = Len(b)
  <2>1. x \in Seq(B) /\ Len(x) = Len(a)
    BY ImageType
  <2>2. y \in Seq(B) /\ Len(y) = Len(b)
    BY ImageType
  <2> QED
    BY <2>1, <2>2
<1>2. a \o b \in Seq(A) /\ Len(a \o b) = Len(a) + Len(b)
  OBVIOUS
<1>3. z \in Seq(B) /\ Len(z) = Len(a) + Len(b)
  <2> DEFINE c == a \o b
  <2>1. c \in Seq(A) /\ Len(c) = Len(a) + Len(b) /\ z = Image(f, c)
    BY <1>2
  <2> HIDE DEF c, z
  <2>2. Image(f, c) \in Seq(B) /\ Len(Image(f, c)) = Len(c)
    BY <2>1, ImageType
  <2> QED
    BY <2>1, <2>2
<1>4. ASSUME NEW i \in 1 .. Len(a) + Len(b) PROVE z[i] = (x \o y)[i]
  <2>0. Len(a) \in Nat /\ Len(b) \in Nat /\ i \in Nat
    OBVIOUS
  <2>1. z[i] = f[(a \o b)[i]]
    BY DEF Image
  <2>2. CASE i <= Len(a)
    <3>1. (a \o b)[i] = a[i] /\ i \in DOMAIN a
      BY <2>2
    <3>2. x[i] = f[a[i]]
      BY <3>1 DEF Image
    <3> HIDE DEF x, y, z
    <3>3. (x \o y)[i] = x[i]
      BY <1>1, <2>2
    <3> QED
      BY <2>1, <3>1, <3>2, <3>3
  <2>3. CASE i > Len(a)
    <3>1. (a \o b)[i] = b[i - Len(a)] /\ i - Len(a) \in DOMAIN b
      BY <2>3
    <3>2. y[i - Len(a)] = f[b[i - Len(a)]]
      BY <3>1 DEF Image
    <3> HIDE DEF x, y, z
    <3>3. (x \o y)[i] = y[i - Len(a)]
      BY <1>1, <2>3
    <3> QED
      BY <2>1, <3>1, <3>2, <3>3
  <2>4. i <= Len(a) \/ i > Len(a)
    BY <2>0
  <2> QED
    BY <2>2, <2>3, <2>4
<1> HIDE DEF x, y, z
<1>5. x \o y \in Seq(B) /\ Len(x \o y) = Len(a) + Len(b)
  BY <1>1
<1>6. z = x \o y
  BY <1>3, <1>4, <1>5
<1> QED
  BY <1>6 DEF x, y, z

(* A function that gives sequences, applied to every element, and joined.  *)
FlatMap(f, a) == FlattenSeq(Image(f, a))

LEMMA FlatMapType ==
    ASSUME NEW A, NEW S, NEW f, Maps(f, A, Seq(S)), NEW a \in Seq(A)
    PROVE  FlatMap(f, a) \in Seq(S)
BY ImageType, FlattenType DEF FlatMap

LEMMA FlatMapEmpty ==
    ASSUME NEW A, NEW S, NEW f, Maps(f, A, Seq(S))
    PROVE  FlatMap(f, <<>>) = <<>>
<1>1. Image(f, <<>>) = <<>>
  <2>0. <<>> \in Seq(A)
    OBVIOUS
  <2>1. PICK e \in Seq(A) : e = <<>>
    BY <2>0, Zenon
  <2>2. Image(f, e) \in Seq(Seq(S)) /\ Len(Image(f, e)) = Len(e)
    BY ImageType
  <2>3. Len(e) = 0
    BY <2>1
  <2>4. Image(f, e) = <<>>
    BY <2>2, <2>3
  <2> QED
    BY <2>1, <2>4
<1> QED
  BY <1>1, FlattenEmpty DEF FlatMap

LEMMA FlatMapOne ==
    ASSUME NEW A, NEW S, NEW f, Maps(f, A, Seq(S)), NEW x \in A
    PROVE  FlatMap(f, <<x>>) = f[x]
<1>1. Image(f, <<x>>) = <<f[x]>>
  <2> DEFINE e == <<x>>
  <2>1. e \in Seq(A) /\ Len(e) = 1 /\ e[1] = x
    OBVIOUS
  <2> HIDE DEF e
  <2>2. Image(f, e) \in Seq(Seq(S)) /\ Len(Image(f, e)) = 1
    BY <2>1, ImageType
  <2>3. Image(f, e)[1] = f[x]
    BY <2>1 DEF Image
  <2>4. Image(f, e) = <<f[x]>>
    BY <2>2, <2>3
  <2> QED
    BY <2>4 DEF e
<1>2. f[x] \in Seq(S)
  BY DEF Maps
<1>3. FlattenSeq(<<f[x]>>) = f[x]
  BY <1>2, FlattenOne
<1> QED
  BY <1>1, <1>3 DEF FlatMap

LEMMA FlatMapConcat ==
    ASSUME NEW A, NEW S, NEW f, Maps(f, A, Seq(S)), NEW a \in Seq(A), NEW b \in Seq(A)
    PROVE  FlatMap(f, a \o b) = FlatMap(f, a) \o FlatMap(f, b)
<1>1. Image(f, a \o b) = Image(f, a) \o Image(f, b)
  BY ImageConcat
<1>2. Image(f, a) \in Seq(Seq(S)) /\ Image(f, b) \in Seq(Seq(S))
  BY ImageType
<1> QED
  BY <1>1, <1>2, FlattenConcat DEF FlatMap

LEMMA FlatMapAppend ==
    ASSUME NEW A, NEW S, NEW f, Maps(f, A, Seq(S)), NEW a \in Seq(A), NEW x \in A
    PROVE  FlatMap(f, Append(a, x)) = FlatMap(f, a) \o f[x]
<1> DEFINE e == <<x>>
<1>1. Append(a, x) = a \o e /\ e \in Seq(A)
  OBVIOUS
<1>2. FlatMap(f, e) = f[x]
  BY FlatMapOne
<1> HIDE DEF e
<1>3. FlatMap(f, a \o e) = FlatMap(f, a) \o FlatMap(f, e)
  BY <1>1, FlatMapConcat
<1> QED
  BY <1>1, <1>2, <1>3

LEMMA FlatMapHead ==
    ASSUME NEW A, NEW S, NEW f, Maps(f, A, Seq(S)), NEW a \in Seq(A), a # <<>>
    PROVE  FlatMap(f, a) = f[Head(a)] \o FlatMap(f, Tail(a))
<1> DEFINE h == Head(a)
           e == <<h>>
           r == Tail(a)
<1>1. a = e \o r /\ h \in A /\ e \in Seq(A) /\ r \in Seq(A)
  OBVIOUS
<1> HIDE DEF h, r
<1>2. FlatMap(f, e) = f[h]
  BY <1>1, FlatMapOne
<1> HIDE DEF e
<1>3. FlatMap(f, e \o r) = FlatMap(f, e) \o FlatMap(f, r)
  BY <1>1, FlatMapConcat
<1> QED
  BY <1>1, <1>2, <1>3 DEF h, r

-----------------------------------------------------------------------------
(* FoldLeft, which takes the elements of a set of indices from the largest *)
(* one down.  The operator it folds with is given as a function F of a     *)
(* value and an index.                                                     *)

(* A set of numbers up to k has a largest one.                             *)
LEMMA MaxOfSet ==
    ASSUME NEW k \in Nat, NEW t \in SUBSET (1 .. k), t # {}
    PROVE  Max(t) \in t /\ \A i \in t : i <= Max(t)
<1> DEFINE T == {m \in Nat : \A u \in SUBSET (1 .. m) : u # {} =>
                                \E x \in u : \A i \in u : x >= i}
<1>1. 0 \in T
  <2>1. \A u \in SUBSET (1 .. 0) : u = {}
    OBVIOUS
  <2> QED
    BY <2>1
<1>2. ASSUME NEW m \in Nat, m \in T PROVE m + 1 \in T
  <2> SUFFICES ASSUME NEW u \in SUBSET (1 .. m + 1), u # {}
               PROVE  \E x \in u : \A i \in u : x >= i
    OBVIOUS
  <2>1. CASE m + 1 \in u
    BY <2>1
  <2>2. CASE m + 1 \notin u
    <3>1. u \in SUBSET (1 .. m)
      BY <2>2
    <3> QED
      BY <1>2, <3>1
  <2> QED
    BY <2>1, <2>2
<1> HIDE DEF T
<1>3. k \in T
  BY <1>1, <1>2, NatSet
<1>4. \E x \in t : \A i \in t : x >= i
  BY <1>3 DEF T
<1>5. Max(t) \in t /\ \A i \in t : Max(t) >= i
  BY <1>4 DEF Max
<1> QED
  BY <1>5

(* The largest number of a set is its maximum.                             *)
LEMMA MaxIs ==
    ASSUME NEW k \in Nat, NEW t \in SUBSET (1 .. k), NEW m \in t, \A i \in t : i <= m
    PROVE  Max(t) = m
<1>1. Max(t) \in t /\ m <= Max(t)
  BY MaxOfSet
<1>2. Max(t) <= m
  BY <1>1
<1>3. \A i \in t : i \in Nat
  OBVIOUS
<1>4. Max(t) \in Nat /\ m \in Nat
  BY <1>1, <1>3
<1> QED
  BY <1>1, <1>2, <1>4

\* it is the function FoldLeft takes a value of, up to the index k.
FoldsUpTo(it, k, base, F) ==
    \A t \in SUBSET (1 .. k) :
       it[t] = IF t = {} THEN base ELSE F[<<it[t \ {Max(t)}], Max(t)>>]

FoldableTo(k, S, base, F) ==
    \E it \in [SUBSET (1 .. k) -> S] : FoldsUpTo(it, k, base, F)

(* Such a function can be continued to the next index.                     *)
LEMMA FoldNext ==
    ASSUME NEW S, NEW base \in S, NEW n \in Nat, NEW F \in [S \X (1 .. n) -> S],
           NEW k \in Nat, k + 1 <= n, FoldableTo(k, S, base, F)
    PROVE  FoldableTo(k + 1, S, base, F)
<1>1. PICK g \in [SUBSET (1 .. k) -> S] : FoldsUpTo(g, k, base, F)
  BY DEF FoldableTo
<1> DEFINE rest(t) == t \ {k + 1}
           h == [t \in SUBSET (1 .. k + 1) |->
                   IF k + 1 \in t THEN F[<<g[rest(t)], k + 1>>] ELSE g[t]]
<1>2. ASSUME NEW t \in SUBSET (1 .. k + 1)
      PROVE  rest(t) \in SUBSET (1 .. k) /\ (k + 1 \notin t => t \in SUBSET (1 .. k))
  OBVIOUS
<1>3. h \in [SUBSET (1 .. k + 1) -> S]
  <2> SUFFICES ASSUME NEW t \in SUBSET (1 .. k + 1)
               PROVE  (IF k + 1 \in t THEN F[<<g[rest(t)], k + 1>>] ELSE g[t]) \in S
    OBVIOUS
  <2>1. g[rest(t)] \in S
    BY <1>2
  <2>2. <<g[rest(t)], k + 1>> \in S \X (1 .. n)
    BY <2>1
  <2> QED
    BY <1>2, <2>2
<1>4. FoldsUpTo(h, k + 1, base, F)
  <2> SUFFICES ASSUME NEW t \in SUBSET (1 .. k + 1)
               PROVE  h[t] = IF t = {} THEN base
                             ELSE F[<<h[t \ {Max(t)}], Max(t)>>]
    BY DEF FoldsUpTo
  <2>1. CASE k + 1 \in t
    <3>1. Max(t) = k + 1
      <4>1. k + 1 \in Nat /\ \A i \in t : i <= k + 1
        OBVIOUS
      <4> HIDE DEF h
      <4> QED
        BY <2>1, <4>1, MaxIs
    <3>2. rest(t) \in SUBSET (1 .. k + 1) /\ k + 1 \notin rest(t)
      OBVIOUS
    <3>3. h[rest(t)] = g[rest(t)]
      BY <3>2
    <3>4. h[t] = F[<<g[rest(t)], k + 1>>]
      BY <2>1
    <3> QED
      BY <2>1, <3>1, <3>3, <3>4
  <2>2. CASE k + 1 \notin t
    <3>1. t \in SUBSET (1 .. k) /\ h[t] = g[t]
      BY <2>2
    <3>2. g[t] = IF t = {} THEN base ELSE F[<<g[t \ {Max(t)}], Max(t)>>]
      BY <1>1, <3>1 DEF FoldsUpTo
    <3> DEFINE u == t \ {Max(t)}
    <3>3. u \in SUBSET (1 .. k + 1)
      OBVIOUS
    <3>4. k + 1 \notin u
      BY <2>2
    <3> HIDE DEF u
    <3>5. h[u] = g[u]
      BY <3>3, <3>4
    <3> HIDE DEF h
    <3> QED
      BY <3>1, <3>2, <3>5 DEF u
  <2> QED
    BY <2>1, <2>2
<1> HIDE DEF h
<1> QED
  BY <1>3, <1>4 DEF FoldableTo

(* So there is one for every length.                                       *)
LEMMA FoldExists ==
    ASSUME NEW S, NEW base \in S, NEW n \in Nat, NEW F \in [S \X (1 .. n) -> S]
    PROVE  FoldableTo(n, S, base, F)
<1> DEFINE T == {k \in Nat : k <= n => FoldableTo(k, S, base, F)}
<1>1. 0 \in T
  <2> DEFINE it == [t \in SUBSET (1 .. 0) |-> base]
  <2>1. it \in [SUBSET (1 .. 0) -> S]
    OBVIOUS
  <2>2. FoldsUpTo(it, 0, base, F)
    <3>1. \A t \in SUBSET (1 .. 0) : t = {}
      OBVIOUS
    <3> QED
      BY <3>1 DEF FoldsUpTo
  <2>3. FoldableTo(0, S, base, F)
    <3> HIDE DEF it
    <3> QED
      BY <2>1, <2>2 DEF FoldableTo
  <2> QED
    BY <2>3
<1>2. ASSUME NEW k \in Nat, k \in T PROVE k + 1 \in T
  <2> SUFFICES ASSUME k + 1 <= n PROVE FoldableTo(k + 1, S, base, F)
    OBVIOUS
  <2>1. FoldableTo(k, S, base, F)
    BY <1>2
  <2> QED
    BY <2>1, FoldNext
<1> HIDE DEF T
<1>3. n \in T
  BY <1>1, <1>2, NatSet
<1> QED
  BY <1>3 DEF T

\* The values a fold goes through, one for each front part of the sequence.
FoldValues(v, n, base, F) ==
    /\ v[0] = base
    /\ \A i \in 1 .. n : v[i] = F[<<v[i - 1], i>>]

(* Its values at 1 .. i are the steps of the fold, from base on.           *)
LEMMA FoldSteps ==
    ASSUME NEW S, NEW base \in S, NEW n \in Nat, NEW F \in [S \X (1 .. n) -> S],
           NEW it, FoldsUpTo(it, n, base, F)
    PROVE  \E v \in [0 .. n -> S] : FoldValues(v, n, base, F) /\ v[n] = it[1 .. n]
<1> DEFINE v == [i \in 0 .. n |-> it[1 .. i]]
<1>1. v[0] = base
  <2>1. 1 .. 0 = {}
    OBVIOUS
  <2>2. it[{}] = base
    BY DEF FoldsUpTo
  <2> QED
    BY <2>1, <2>2
<1>2. ASSUME NEW i \in 1 .. n PROVE v[i] = F[<<v[i - 1], i>>]
  <2>1. 1 .. i \in SUBSET (1 .. n) /\ 1 .. i # {} /\ i \in 1 .. i
    OBVIOUS
  <2>2. Max(1 .. i) = i
    <3>1. i \in Nat /\ 1 .. i \in SUBSET (1 .. i) /\ \A j \in 1 .. i : j <= i
      OBVIOUS
    <3> QED
      BY <2>1, <3>1, MaxIs
  <2>3. (1 .. i) \ {i} = 1 .. (i - 1)
    OBVIOUS
  <2>4. it[1 .. i] = F[<<it[1 .. (i - 1)], i>>]
    BY <2>1, <2>2, <2>3 DEF FoldsUpTo
  <2>5. i \in 0 .. n /\ i - 1 \in 0 .. n
    OBVIOUS
  <2> QED
    BY <2>4, <2>5
<1>3. \A i \in 0 .. n : v[i] \in S
  <2> DEFINE T == {i \in Nat : i <= n => v[i] \in S}
  <2>1. 0 \in T
    BY <1>1
  <2>2. ASSUME NEW i \in Nat, i \in T PROVE i + 1 \in T
    <3> SUFFICES ASSUME i + 1 <= n PROVE v[i + 1] \in S
      OBVIOUS
    <3>1. v[i] \in S /\ i + 1 \in 1 .. n /\ i + 1 - 1 = i
      BY <2>2
    <3> HIDE DEF v
    <3>2. v[i + 1] = F[<<v[i], i + 1>>]
      BY <1>2, <3>1
    <3>3. <<v[i], i + 1>> \in S \X (1 .. n)
      BY <3>1
    <3> QED
      BY <3>2, <3>3
  <2> HIDE DEF T
  <2>3. Nat \subseteq T
    BY <2>1, <2>2, NatSet
  <2> HIDE DEF v
  <2> QED
    BY <2>3 DEF T
<1>4. v = [i \in 0 .. n |-> v[i]] /\ v[n] = it[1 .. n]
  OBVIOUS
<1> HIDE DEF v
<1>5. v \in [0 .. n -> S]
  BY <1>3, <1>4
<1> QED
  BY <1>1, <1>2, <1>4, <1>5 DEF FoldValues

-----------------------------------------------------------------------------
(* Sequences joined and cut.                                               *)

LEMMA ConcatAssoc ==
    ASSUME NEW S, NEW a \in Seq(S), NEW b \in Seq(S), NEW c \in Seq(S)
    PROVE  (a \o b) \o c = a \o (b \o c)
OBVIOUS

LEMMA ConcatEmpty ==
    ASSUME NEW S, NEW a \in Seq(S)
    PROVE  a \o <<>> = a /\ <<>> \o a = a
OBVIOUS

LEMMA ConcatOne ==
    ASSUME NEW S, NEW a \in Seq(S), NEW x \in S
    PROVE  a \o <<x>> = Append(a, x)
OBVIOUS

LEMMA ConcatHead ==
    ASSUME NEW S, NEW a \in Seq(S), NEW b \in Seq(S), a # <<>>
    PROVE  Head(a \o b) = Head(a) /\ Tail(a \o b) = Tail(a) \o b /\ a \o b # <<>>
<1> DEFINE s == a \o b
           t == Tail(s)
           u == Tail(a) \o b
<1>1. Len(a) \in Nat /\ Len(b) \in Nat /\ Len(a) >= 1
  OBVIOUS
<1>2. /\ s \in Seq(S) /\ Len(s) = Len(a) + Len(b) /\ s[1] = a[1]
      /\ \A i \in 1 .. Len(s) : s[i] = IF i <= Len(a) THEN a[i] ELSE b[i - Len(a)]
  BY <1>1
<1> HIDE DEF s
<1>3. /\ t \in Seq(S) /\ Len(t) = Len(s) - 1
      /\ \A i \in 1 .. Len(t) : t[i] = s[i + 1]
  <2>1. Len(s) \in Nat /\ Len(s) >= 1 /\ s # <<>>
    BY <1>1, <1>2
  <2> QED
    BY <1>2, <2>1
<1>4. /\ u \in Seq(S) /\ Len(u) = Len(a) - 1 + Len(b)
      /\ \A i \in 1 .. Len(u) : u[i] = IF i <= Len(a) - 1 THEN a[i + 1] ELSE b[i - (Len(a) - 1)]
  <2> DEFINE r == Tail(a)
  <2>1. r \in Seq(S) /\ Len(r) = Len(a) - 1 /\ \A i \in 1 .. Len(r) : r[i] = a[i + 1]
    BY <1>1
  <2> HIDE DEF r
  <2>2. \A i \in 1 .. Len(r) + Len(b) : (r \o b)[i] = IF i <= Len(r) THEN r[i] ELSE b[i - Len(r)]
    BY <1>1, <2>1
  <2>3. r \o b \in Seq(S) /\ Len(r \o b) = Len(r) + Len(b)
    <3>1. r \in Seq(S)
      BY <2>1
    <3> QED
      BY ONLY <3>1, b \in Seq(S)
  <2> DEFINE q == r \o b
  <2> HIDE DEF q
  <2>4. ASSUME NEW i \in 1 .. Len(q)
        PROVE  q[i] = IF i <= Len(a) - 1 THEN a[i + 1] ELSE b[i - (Len(a) - 1)]
    <3>1. i \in 1 .. Len(r) + Len(b) /\ i \in Nat /\ i >= 1
      BY <2>3 DEF q
    <3>2. q[i] = IF i <= Len(r) THEN r[i] ELSE b[i - Len(r)]
      BY <2>2, <3>1 DEF q
    <3>3. CASE i <= Len(r)
      BY <1>1, <2>1, <3>1, <3>2, <3>3
    <3>4. CASE ~(i <= Len(r))
      BY <2>1, <3>2, <3>4
    <3> QED
      BY <3>3, <3>4
  <2> QED
    BY <2>1, <2>3, <2>4 DEF q, r
<1> HIDE DEF t, u
<1>5. ASSUME NEW i \in 1 .. Len(t) PROVE t[i] = u[i]
  <2>1. i \in Nat /\ i + 1 \in 1 .. Len(s) /\ i \in 1 .. Len(u)
    BY <1>1, <1>2, <1>3, <1>4
  <2>2. t[i] = IF i + 1 <= Len(a) THEN a[i + 1] ELSE b[i + 1 - Len(a)]
    BY <1>2, <1>3, <2>1
  <2>3. u[i] = IF i <= Len(a) - 1 THEN a[i + 1] ELSE b[i - (Len(a) - 1)]
    BY <1>4, <2>1
  <2>4. (i + 1 <= Len(a) <=> i <= Len(a) - 1) /\ i + 1 - Len(a) = i - (Len(a) - 1)
    BY <1>1, <2>1
  <2> QED
    BY <2>2, <2>3, <2>4
<1>6. t = u
  <2>1. Len(t) = Len(u)
    BY <1>1, <1>2, <1>3, <1>4
  <2>2. t \in Seq(S) /\ u \in Seq(S)
    BY <1>3, <1>4
  <2> QED
    BY ONLY <2>1, <2>2, <1>5, SeqEqual
<1>7. s # <<>> /\ Head(s) = Head(a)
  <2>1. Len(s) >= 1
    BY <1>1, <1>2
  <2>2. s # <<>> /\ a # <<>>
    BY <1>2, <2>1
  <2> QED
    BY <1>2, <2>2
<1> QED
  BY <1>6, <1>7 DEF s, t, u

LEMMA ConcatCancel ==
    ASSUME NEW S, NEW a \in Seq(S), NEW b \in Seq(S), NEW c \in Seq(S), a \o b = a \o c
    PROVE  b = c
<1>1. Len(a) \in Nat /\ Len(b) \in Nat /\ Len(c) \in Nat
  OBVIOUS
<1>2. /\ Len(a \o b) = Len(a) + Len(b) /\ Len(a \o c) = Len(a) + Len(c)
  OBVIOUS
<1>3. Len(b) = Len(c)
  BY <1>1, <1>2
<1>4. ASSUME NEW i \in 1 .. Len(b) PROVE b[i] = c[i]
  <2>1. /\ (a \o b)[Len(a) + i] = b[i]
        /\ (a \o c)[Len(a) + i] = c[i]
    BY <1>1, <1>3
  <2> QED
    BY <2>1
<1> QED
  BY ONLY b \in Seq(S), c \in Seq(S), <1>3, <1>4, SeqEqual

\* b \o x and s \o r are the same, and b is shorter than s: then it goes on
\* as s does.
Aligned(b, x, s, r) ==
    /\ x # <<>> /\ Head(x) = s[Len(b) + 1]
    /\ b = SubSeq(s, 1, Len(b)) /\ Append(b, Head(x)) = SubSeq(s, 1, Len(b) + 1)
    /\ Append(b, Head(x)) \o Tail(x) = s \o r
    /\ Len(b) + 1 = Len(s) => Append(b, Head(x)) = s /\ Tail(x) = r

LEMMA ConcatAligned ==
    ASSUME NEW S, NEW b \in Seq(S), NEW x \in Seq(S), NEW s \in Seq(S), NEW r \in Seq(S),
           b \o x = s \o r, Len(b) < Len(s)
    PROVE  Aligned(b, x, s, r)
<1> DEFINE n == Len(b)
<1> DEFINE bx == b \o x
           sr == s \o r
<1>1. /\ n \in Nat /\ Len(x) \in Nat /\ Len(s) \in Nat /\ Len(r) \in Nat /\ n < Len(s)
      /\ n + 1 \in 1 .. Len(s)
  OBVIOUS
<1>2. /\ Len(bx) = n + Len(x) /\ Len(sr) = Len(s) + Len(r)
      /\ \A i \in 1 .. n : bx[i] = b[i]
      /\ \A i \in 1 .. Len(x) : bx[n + i] = x[i]
      /\ \A i \in 1 .. Len(s) : sr[i] = s[i]
  <2>1. /\ Len(bx) = n + Len(x)
        /\ \A i \in 1 .. n : bx[i] = b[i]
        /\ \A i \in 1 .. Len(x) : bx[n + i] = x[i]
    <3>1. Len(bx) = n + Len(x)
      BY <1>1
    <3>2. ASSUME NEW i \in 1 .. n PROVE bx[i] = b[i]
      BY <1>1
    <3>3. ASSUME NEW i \in 1 .. Len(x) PROVE bx[n + i] = x[i]
      <4>1. \A j \in 1 .. Len(b) + Len(x) : bx[j] = IF j <= Len(b) THEN b[j] ELSE x[j - Len(b)]
        BY <1>1
      <4> HIDE DEF bx
      <4>2. n + i \in 1 .. Len(b) + Len(x) /\ ~(n + i <= Len(b)) /\ n + i - Len(b) = i
        BY <1>1
      <4> QED
        BY ONLY <4>1, <4>2
    <3> QED
      BY <3>1, <3>2, <3>3
  <2>2. /\ Len(sr) = Len(s) + Len(r)
        /\ \A i \in 1 .. Len(s) : sr[i] = s[i]
    BY <1>1
  <2> HIDE DEF bx, sr
  <2> QED
    BY <2>1, <2>2
<1>3. bx = sr
  OBVIOUS
<1> HIDE DEF bx, sr
<1>4. Len(x) >= 1 /\ x # <<>>
  <2>1. Len(x) >= 1
    BY <1>1, <1>2, <1>3
  <2> QED
    BY <2>1
<1>5. Head(x) = x[1] /\ Head(x) \in S
  BY <1>4
<1>6. x[1] = s[n + 1]
  <2>1. bx[n + 1] = x[1]
    BY <1>1, <1>2, <1>4
  <2>2. sr[n + 1] = s[n + 1]
    BY <1>1, <1>2
  <2> QED
    BY <1>3, <2>1, <2>2
<1>7. ASSUME NEW i \in 1 .. n PROVE b[i] = s[i]
  <2>1. i \in 1 .. Len(s)
    BY <1>1
  <2> QED
    BY <1>2, <1>3, <2>1
<1>8. b = SubSeq(s, 1, n)
  <2> DEFINE f == SubSeq(s, 1, n)
  <2>1. f \in Seq(S) /\ Len(f) = n /\ \A i \in 1 .. n : f[i] = s[i]
    BY <1>1
  <2> HIDE DEF f
  <2>2. b = f
    BY <1>7, <2>1
  <2> QED
    BY <2>2 DEF f
<1> DEFINE h == Head(x)
           a == Append(b, h)
           g == SubSeq(s, 1, n + 1)
<1>9. /\ a \in Seq(S) /\ Len(a) = n + 1 /\ a[n + 1] = h
      /\ \A i \in 1 .. n : a[i] = b[i]
  BY <1>1, <1>5
<1>10. /\ g \in Seq(S) /\ Len(g) = n + 1 /\ \A i \in 1 .. n + 1 : g[i] = s[i]
       /\ n + 1 = Len(s) => g = s
  BY <1>1
<1>11. h = s[n + 1]
  BY <1>5, <1>6
<1>12. a \o Tail(x) = b \o x
  <2>1. <<h>> \o Tail(x) = x /\ <<h>> \in Seq(S) /\ Tail(x) \in Seq(S)
    BY <1>4, <1>5
  <2>2. a = b \o <<h>>
    <3>1. h \in S
      BY <1>5
    <3> HIDE DEF h
    <3> QED
      BY ONLY b \in Seq(S), <3>1 DEF a
  <2> HIDE DEF h, a
  <2>3. (b \o <<h>>) \o Tail(x) = b \o (<<h>> \o Tail(x))
    <3> DEFINE y == <<h>>
               z == Tail(x)
    <3>1. y \in Seq(S) /\ z \in Seq(S)
      BY <2>1
    <3> HIDE DEF y, z
    <3>2. (b \o y) \o z = b \o (y \o z)
      BY <3>1
    <3> QED
      BY <3>2 DEF y, z
  <2> QED
    BY <2>1, <2>2, <2>3
<1> HIDE DEF h, a, g
<1>13. a = g
  <2>1. ASSUME NEW i \in 1 .. n + 1 PROVE a[i] = g[i]
    <3>1. CASE i = n + 1
      BY <1>9, <1>10, <1>11, <3>1
    <3>2. CASE i # n + 1
      <4>1. i \in 1 .. n
        BY <1>1, <3>2
      <4> QED
        BY <1>7, <1>9, <1>10, <4>1
    <3> QED
      BY <3>1, <3>2
  <2> QED
    BY <1>9, <1>10, <2>1
<1>14. ASSUME n + 1 = Len(s) PROVE a = s /\ Tail(x) = r
  <2>1. a = s
    BY <1>10, <1>13, <1>14
  <2>2. s \o Tail(x) = s \o r
    BY <1>12, <2>1
  <2>3. Tail(x) \in Seq(S)
    BY <1>4
  <2> DEFINE t == Tail(x)
  <2> HIDE DEF t
  <2>4. t = r
    <3>1. t \in Seq(S) /\ s \o t = s \o r
      BY <2>2, <2>3 DEF t
    <3> QED
      BY <3>1, ConcatCancel
  <2> QED
    BY <2>1, <2>4 DEF t
<1> QED
  BY <1>4, <1>5, <1>6, <1>8, <1>12, <1>13, <1>14 DEF a, g, h, Aligned

LEMMA PrefixOfConcat ==
    ASSUME NEW S, NEW a \in Seq(S), NEW b \in Seq(S)
    PROVE  IsPrefix(a, a \o b)
<1>1. PICK s : s = a \o b
  OBVIOUS
<1>2. /\ s \in Seq(S) /\ Len(s) = Len(a) + Len(b) /\ Len(a) \in Nat /\ Len(b) \in Nat
      /\ \A i \in 1 .. Len(a) : s[i] = a[i]
  BY <1>1
<1> QED
  BY <1>1, <1>2 DEF IsPrefix

(* The last element, after the others.                                     *)
LEMMA FrontLast ==
    ASSUME NEW S, NEW s \in Seq(S), s # <<>>
    PROVE  /\ Front(s) \in Seq(S) /\ Last(s) \in S /\ s = Append(Front(s), Last(s))
           /\ Len(s) \in Nat /\ Len(s) >= 1 /\ Len(Front(s)) = Len(s) - 1
<1>1. Len(s) \in Nat /\ Len(s) >= 1
  OBVIOUS
<1>2. PICK f : f = SubSeq(s, 1, Len(s) - 1)
  OBVIOUS
<1>3. PICK l : l = s[Len(s)]
  OBVIOUS
<1>4. f \in Seq(S) /\ l \in S /\ Len(f) = Len(s) - 1
  <2>1. PICK n : n = Len(s)
    OBVIOUS
  <2>2. n \in Nat /\ n >= 1 /\ n - 1 \in Nat
    BY <1>1, <2>1
  <2>3. l \in S
    BY <1>3, <2>1, <2>2
  <2>4. f \in Seq(S)
    BY <1>2, <2>1, <2>2
  <2>5. Len(f) = n - 1
    BY <1>2, <2>1, <2>2
  <2> QED
    BY <2>1, <2>3, <2>4, <2>5
<1>5. \A i \in 1 .. Len(s) - 1 : f[i] = s[i]
  BY <1>1, <1>2
<1>6. s = Append(f, l)
  <2>1. PICK t : t = Append(f, l)
    OBVIOUS
  <2>2. t \in Seq(S) /\ Len(t) = Len(s)
    BY <1>1, <1>4, <2>1
  <2>3. \A i \in 1 .. Len(s) : t[i] = s[i]
    BY <1>1, <1>3, <1>4, <1>5, <2>1
  <2>4. s = t
    BY ONLY <1>1, <2>2, <2>3, s \in Seq(S), SeqEqual
  <2> QED
    BY <2>1, <2>4
<1> QED
  BY <1>1, <1>2, <1>3, <1>4, <1>6 DEF Front, Last

(* The other way round.                                                    *)
LEMMA FrontOfAppend ==
    ASSUME NEW S, NEW s \in Seq(S), NEW x \in S
    PROVE  Front(Append(s, x)) = s /\ Last(Append(s, x)) = x
<1>1. PICK t : t = Append(s, x)
  OBVIOUS
<1>2. t \in Seq(S) /\ Len(t) = Len(s) + 1 /\ Len(s) \in Nat /\ t[Len(t)] = x
  BY <1>1
<1>3. SubSeq(t, 1, Len(t) - 1) = s
  BY <1>1, <1>2
<1> QED
  BY <1>1, <1>2, <1>3 DEF Front, Last

(* A set that holds the empty sequence, and with every sequence all those  *)
(* of one element more, holds every sequence.                              *)
LEMMA SeqSet ==
    ASSUME NEW S, NEW T, <<>> \in T,
           \A s \in Seq(S), x \in S : s \in T => Append(s, x) \in T
    PROVE  Seq(S) \subseteq T
<1> DEFINE N == {n \in Nat : \A s \in Seq(S) : Len(s) = n => s \in T}
<1>1. 0 \in N
  <2> SUFFICES ASSUME NEW s \in Seq(S), Len(s) = 0 PROVE s \in T
    OBVIOUS
  <2>1. s = <<>>
    OBVIOUS
  <2> QED
    BY <2>1
<1>2. ASSUME NEW n \in Nat, n \in N PROVE n + 1 \in N
  <2> SUFFICES ASSUME NEW s \in Seq(S), Len(s) = n + 1 PROVE s \in T
    OBVIOUS
  <2>1. s # <<>>
    OBVIOUS
  <2>2. PICK f : f = Front(s)
    OBVIOUS
  <2>3. PICK l : l = Last(s)
    OBVIOUS
  <2>4. f \in Seq(S) /\ l \in S /\ s = Append(f, l) /\ Len(f) = n
    BY <2>1, <2>2, <2>3, FrontLast
  <2>5. f \in T
    BY <1>2, <2>4
  <2> QED
    BY <2>4, <2>5
<1> HIDE DEF N
<1>3. Nat \subseteq N
  BY <1>1, <1>2, NatSet
<1> QED
  <2> SUFFICES ASSUME NEW s \in Seq(S) PROVE s \in T
    OBVIOUS
  <2>1. Len(s) \in N
    BY <1>3
  <2> QED
    BY <2>1 DEF N

(* A set of natural numbers has a least one.                               *)
LEMMA LeastOf ==
    ASSUME NEW B \in SUBSET Nat, B # {}
    PROVE  \E m \in B : \A j \in B : m <= j
<1>1. PICK m \in B : \A y \in B : <<y, m>> \notin OpToRel(<, Nat)
  BY WFMin, NatLessThanWellFounded
<1>2. ASSUME NEW y \in B PROVE m <= y
  <2> SUFFICES ASSUME y < m PROVE FALSE
    OBVIOUS
  <2>1. <<y, m>> \in OpToRel(<, Nat)
    BY DEF OpToRel
  <2> QED
    BY <1>1, <2>1
<1> QED
  BY <1>2

-----------------------------------------------------------------------------
(* A function on the places of a sequence, from the last down: the value   *)
(* at i is a piece X[i] in front of the value J[i] places further on.      *)

Further(n, J) == \A i \in 1 .. n : J[i] \in Nat /\ J[i] >= 1 /\ i + J[i] <= n + 1

\* The piece may be left out where it is empty.
JumpsDown(g, n, X, J) ==
    /\ g[n + 1] = <<>>
    /\ \A i \in 1 .. n : \/ g[i] = X[i] \o g[i + J[i]]
                         \/ X[i] = <<>> /\ g[i] = g[i + J[i]]

JumpsFrom(k, f, n, X, J, S) ==
    /\ f \in [k .. n + 1 -> Seq(S)]
    /\ f[n + 1] = <<>>
    /\ \A i \in k .. n : f[i] = X[i] \o f[i + J[i]]

LEMMA JumpsNext ==
    ASSUME NEW S, NEW n \in Nat, NEW X \in [1 .. n -> Seq(S)], NEW J, Further(n, J),
           NEW k \in 1 .. n, NEW f, JumpsFrom(k + 1, f, n, X, J, S)
    PROVE  \E g : JumpsFrom(k, g, n, X, J, S)
<1> DEFINE g == [i \in k .. n + 1 |-> IF i = k THEN X[k] \o f[k + J[k]] ELSE f[i]]
<1>1. k \in Nat /\ J[k] \in Nat /\ J[k] >= 1 /\ k + J[k] <= n + 1
  BY DEF Further
<1>2. f \in [k + 1 .. n + 1 -> Seq(S)]
  BY DEF JumpsFrom
<1>3. k + J[k] \in k + 1 .. n + 1
  BY <1>1
<1>4. PICK p : p = X[k]
  OBVIOUS
<1>5. PICK q : q = f[k + J[k]]
  OBVIOUS
<1>6. p \in Seq(S) /\ q \in Seq(S)
  BY <1>2, <1>3, <1>4, <1>5
<1>7. p \o q \in Seq(S)
  BY <1>6
<1>8. g \in [k .. n + 1 -> Seq(S)]
  <2>1. \A i \in k .. n + 1 : i # k => i \in k + 1 .. n + 1
    BY <1>1
  <2> QED
    BY <1>2, <1>4, <1>5, <1>7, <2>1
<1>9. /\ g[k] = X[k] \o f[k + J[k]]
      /\ \A i \in k + 1 .. n + 1 : g[i] = f[i]
  BY <1>1
<1> HIDE DEF g
<1>10. g[n + 1] = <<>>
  <2>1. n + 1 \in k + 1 .. n + 1
    BY <1>1
  <2> QED
    BY <1>9, <2>1 DEF JumpsFrom
<1>11. ASSUME NEW i \in k .. n PROVE g[i] = X[i] \o g[i + J[i]]
  <2>1. i \in 1 .. n
    BY <1>1
  <2>2. J[i] \in Nat /\ J[i] >= 1 /\ i + J[i] <= n + 1
    BY <2>1 DEF Further
  <2>3. i + J[i] \in k + 1 .. n + 1
    BY <1>1, <2>1, <2>2
  <2>4. g[i + J[i]] = f[i + J[i]]
    BY <1>9, <2>3
  <2>5. CASE i = k
    BY <1>9, <2>4, <2>5
  <2>6. CASE i # k
    <3>1. i \in k + 1 .. n /\ i \in k + 1 .. n + 1
      BY <1>1, <2>1, <2>6
    <3>2. f[i] = X[i] \o f[i + J[i]]
      BY <3>1 DEF JumpsFrom
    <3> QED
      BY <1>9, <2>4, <3>1, <3>2
  <2> QED
    BY <2>5, <2>6
<1> QED
  BY <1>8, <1>10, <1>11 DEF JumpsFrom

(* There is such a function.                                               *)
LEMMA JumpsExist ==
    ASSUME NEW S, NEW n \in Nat, NEW X \in [1 .. n -> Seq(S)], NEW J, Further(n, J)
    PROVE  \E f : JumpsFrom(1, f, n, X, J, S)
<1> DEFINE Some(k) == \E f : JumpsFrom(k, f, n, X, J, S)
           T == {m \in Nat : m <= n => Some(n + 1 - m)}
<1>1. 0 \in T
  <2> DEFINE f == [i \in n + 1 .. n + 1 |-> <<>>]
  <2>1. f \in [n + 1 .. n + 1 -> Seq(S)] /\ f[n + 1] = <<>>
    OBVIOUS
  <2>2. n + 1 .. n = {}
    OBVIOUS
  <2> HIDE DEF f
  <2>3. JumpsFrom(n + 1, f, n, X, J, S)
    BY <2>1, <2>2 DEF JumpsFrom
  <2>4. n + 1 - 0 = n + 1
    OBVIOUS
  <2> QED
    BY <2>3, <2>4
<1>2. ASSUME NEW m \in Nat, m \in T PROVE m + 1 \in T
  <2> SUFFICES ASSUME m + 1 <= n PROVE Some(n + 1 - (m + 1))
    OBVIOUS
  <2>1. PICK k : k = n - m
    OBVIOUS
  <2>2. k \in 1 .. n /\ n + 1 - (m + 1) = k /\ n + 1 - m = k + 1 /\ m <= n
    BY <2>1
  <2>3. PICK f : JumpsFrom(k + 1, f, n, X, J, S)
    BY <1>2, <2>2
  <2>4. \E g : JumpsFrom(k, g, n, X, J, S)
    BY <2>2, <2>3, JumpsNext
  <2> QED
    BY <2>2, <2>4
<1> HIDE DEF T
<1>3. n \in T
  BY <1>1, <1>2, NatSet
<1>4. Some(1)
  <2>1. n + 1 - n = 1
    OBVIOUS
  <2> QED
    BY <1>3, <2>1 DEF T
<1> QED
  BY <1>4

(* There is one only.                                                      *)
LEMMA JumpsOnce ==
    ASSUME NEW S, NEW n \in Nat, NEW X \in [1 .. n -> Seq(S)], NEW J, Further(n, J),
           NEW f \in [1 .. n + 1 -> Seq(S)], JumpsDown(f, n, X, J),
           NEW g, JumpsDown(g, n, X, J)
    PROVE  \A i \in 1 .. n + 1 : g[i] = f[i]
<1> DEFINE T == {m \in Nat : \A i \in 1 .. n + 1 : n + 1 - m <= i => g[i] = f[i]}
<1>1. 0 \in T
  <2> SUFFICES ASSUME NEW i \in 1 .. n + 1, n + 1 - 0 <= i PROVE g[i] = f[i]
    OBVIOUS
  <2>1. i = n + 1
    OBVIOUS
  <2> QED
    BY <2>1 DEF JumpsDown
<1>2. ASSUME NEW m \in Nat, m \in T PROVE m + 1 \in T
  <2> SUFFICES ASSUME NEW i \in 1 .. n + 1, n + 1 - (m + 1) <= i PROVE g[i] = f[i]
    OBVIOUS
  <2>1. CASE n + 1 - m <= i
    BY <1>2, <2>1
  <2>2. CASE ~(n + 1 - m <= i)
    <3>1. i \in 1 .. n /\ n - m = i
      BY <2>2
    <3>2. J[i] \in Nat /\ J[i] >= 1 /\ i + J[i] <= n + 1
      BY <3>1 DEF Further
    <3>3. PICK j : j = i + J[i]
      OBVIOUS
    <3>4. j \in 1 .. n + 1 /\ n + 1 - m <= j
      BY <3>1, <3>2, <3>3
    <3>5. g[j] = f[j] /\ f[j] \in Seq(S)
      BY <1>2, <3>4
    <3>6. <<>> \o f[j] = f[j]
      BY <3>5, ConcatEmpty
    <3>7. g[i] = X[i] \o f[j]
      BY <3>1, <3>3, <3>5, <3>6 DEF JumpsDown
    <3>8. f[i] = X[i] \o f[j]
      BY <3>1, <3>3, <3>5, <3>6 DEF JumpsDown
    <3> QED
      BY <3>7, <3>8
  <2> QED
    BY <2>1, <2>2
<1> HIDE DEF T
<1>3. n \in T
  BY <1>1, <1>2, NatSet
<1> QED
  <2> SUFFICES ASSUME NEW i \in 1 .. n + 1 PROVE g[i] = f[i]
    OBVIOUS
  <2>1. n + 1 - n <= i
    OBVIOUS
  <2> QED
    BY <1>3, <2>1 DEF T

-----------------------------------------------------------------------------
(* Sequences cut in two.                                                   *)

(* Two sequences that differ in one place are cut there.                   *)
SameButAt(s, t, k) == Len(t) = Len(s) /\ \A i \in 1 .. Len(s) : i # k => t[i] = s[i]

CutBehind(a, b, s, t, k) ==
    /\ s = Append(a, s[k]) \o b
    /\ t = Append(a, t[k]) \o b
    /\ \A i \in 1 .. Len(b) : k + i \in 1 .. Len(s) /\ b[i] = s[k + i]

LEMMA CutInTwo ==
    ASSUME NEW S, NEW s \in Seq(S), NEW t \in Seq(S), NEW k \in 1 .. Len(s),
           SameButAt(s, t, k)
    PROVE  \E a \in Seq(S), b \in Seq(S) : CutBehind(a, b, s, t, k)
<1> DEFINE n == Len(s)
           a == SubSeq(s, 1, k - 1)
           b == SubSeq(s, k + 1, n)
<1>1. n \in Nat /\ k \in Nat /\ k >= 1 /\ k <= n
  OBVIOUS
<1>2. /\ a \in Seq(S) /\ Len(a) = k - 1
      /\ \A i \in 1 .. k - 1 : a[i] = s[i]
  BY <1>1
<1>3. /\ b \in Seq(S) /\ Len(b) = n - k
      /\ \A i \in 1 .. n - k : b[i] = s[k + i]
  BY <1>1
<1> HIDE DEF a, b
<1>4. ASSUME NEW u \in Seq(S), Len(u) = n, \A i \in 1 .. n : i # k => u[i] = s[i]
      PROVE  u = Append(a, u[k]) \o b
  <2>1. u[k] \in S
    BY <1>1, <1>4
  <2> DEFINE c == Append(a, u[k])
  <2>2. c \in Seq(S) /\ Len(c) = k /\ c[k] = u[k] /\ \A i \in 1 .. k - 1 : c[i] = s[i]
    BY <1>1, <1>2, <2>1
  <2> HIDE DEF c
  <2> DEFINE d == c \o b
  <2>3. /\ d \in Seq(S) /\ Len(d) = n
        /\ \A i \in 1 .. k : d[i] = c[i]
        /\ \A i \in k + 1 .. n : d[i] = b[i - k]
    <3>1. n - k \in Nat /\ k + (n - k) = n
      BY <1>1
    <3>2. d \in Seq(S) /\ Len(d) = n
      <4>1. PICK x \in Seq(S), y \in Seq(S) : x = c /\ y = b
        BY <1>3, <2>2
      <4>2. x \o y \in Seq(S) /\ Len(x \o y) = Len(x) + Len(y)
        OBVIOUS
      <4> QED
        BY <1>3, <2>2, <3>1, <4>1, <4>2
    <3>3. \A i \in 1 .. k : d[i] = c[i]
      BY <1>3, <2>2, <3>1
    <3>4. \A i \in k + 1 .. n : d[i] = b[i - k]
      BY <1>3, <2>2, <3>1
    <3> QED
      BY <3>2, <3>3, <3>4
  <2> HIDE DEF d
  <2>4. ASSUME NEW i \in 1 .. n PROVE d[i] = u[i]
    <3>1. CASE i < k
      BY <1>1, <1>4, <2>2, <2>3, <3>1
    <3>2. CASE i = k
      BY <1>1, <2>2, <2>3, <3>2
    <3>3. CASE i > k
      <4>1. i \in k + 1 .. n /\ i - k \in 1 .. n - k /\ k + (i - k) = i
        BY <1>1, <3>3
      <4>2. d[i] = b[i - k]
        BY <2>3, <4>1
      <4>3. b[i - k] = s[i]
        BY <1>3, <4>1
      <4>4. u[i] = s[i]
        BY ONLY <1>1, <1>4, <3>3, i \in 1 .. n
      <4> QED
        BY <4>2, <4>3, <4>4
    <3>4. i < k \/ i = k \/ i > k
      BY ONLY <1>1, i \in 1 .. n, n \in Nat, k \in Nat
    <3> QED
      BY <3>1, <3>2, <3>3, <3>4
  <2>5. d = u
    BY <2>3, <2>4, <1>4
  <2> QED
    BY <2>5 DEF d, c
<1>5. s = Append(a, s[k]) \o b
  BY <1>4
<1>6. t = Append(a, t[k]) \o b
  BY <1>4 DEF SameButAt
<1>7. \A i \in 1 .. Len(b) : k + i \in 1 .. n /\ b[i] = s[k + i]
  BY <1>1, <1>3
<1> QED
  BY <1>2, <1>3, <1>5, <1>6, <1>7 DEF CutBehind

(* The end of a joined sequence is a suffix of it.                         *)
LEMMA SuffixOfConcat ==
    ASSUME NEW S, NEW a \in Seq(S), NEW b \in Seq(S)
    PROVE  IsSuffix(b, a \o b)
<1>1. PICK s : s = a \o b
  OBVIOUS
<1>2. PICK m \in Nat, n \in Nat : m = Len(a) /\ n = Len(b)
  OBVIOUS
<1>3. s \in Seq(S) /\ Len(s) = m + n /\ \A i \in 1 .. n : s[m + i] = b[i]
  BY <1>1, <1>2
<1>4. PICK r : r = Reverse(b)
  OBVIOUS
<1>5. PICK t : t = Reverse(s)
  OBVIOUS
<1>6. r \in Seq(S) /\ Len(r) = n /\ \A i \in 1 .. n : r[i] = b[n - i + 1]
  <2>1. r = [i \in 1 .. n |-> b[n - i + 1]]
    BY <1>2, <1>4 DEF Reverse
  <2>2. \A i \in 1 .. n : b[n - i + 1] \in S
    BY <1>2
  <2> QED
    BY <2>1, <2>2
<1>7. t \in Seq(S) /\ Len(t) = m + n /\ \A i \in 1 .. m + n : t[i] = s[m + n - i + 1]
  <2>1. t = [i \in 1 .. m + n |-> s[m + n - i + 1]]
    BY <1>3, <1>5 DEF Reverse
  <2>2. \A i \in 1 .. m + n : s[m + n - i + 1] \in S
    BY <1>2, <1>3
  <2> QED
    BY <1>2, <2>1, <2>2
<1>8. ASSUME NEW i \in 1 .. n PROVE t[i] = r[i]
  <2>1. m + n - i + 1 = m + (n - i + 1) /\ n - i + 1 \in 1 .. n /\ i \in 1 .. m + n
    BY <1>2
  <2> QED
    BY <1>3, <1>6, <1>7, <2>1
<1>9. SubSeq(r, 1, n) = SubSeq(t, 1, n)
  <2>1. /\ SubSeq(r, 1, n) \in Seq(S) /\ Len(SubSeq(r, 1, n)) = n
        /\ \A i \in 1 .. n : SubSeq(r, 1, n)[i] = r[i]
    BY <1>2, <1>6
  <2>2. /\ SubSeq(t, 1, n) \in Seq(S) /\ Len(SubSeq(t, 1, n)) = n
        /\ \A i \in 1 .. n : SubSeq(t, 1, n)[i] = t[i]
    BY <1>2, <1>7
  <2> QED
    BY <1>8, <2>1, <2>2
<1>10. IsPrefix(r, t)
  BY <1>2, <1>6, <1>7, <1>9 DEF IsPrefix
<1> QED
  BY <1>1, <1>4, <1>5, <1>10 DEF IsSuffix
=============================================================================
