--------------------------- MODULE SequenceLemmas ---------------------------
(***************************************************************************)
(* Induction in a form that needs no operator parameter, and the facts     *)
(* about Select that it gives.  A property is the set of the values that   *)
(* have it; that such a set holds every natural number follows from its    *)
(* complement having no least element (WFMin).                             *)
(***************************************************************************)
EXTENDS Subsequences, SequenceTheorems, WellFoundedInduction, TLAPS

-----------------------------------------------------------------------------
(* Induction *)

LessThan == {p \in Nat \X Nat : p[1] < p[2]}

\* A set of natural numbers that is not empty has a least element.
LEMMA LeastElement ==
    ASSUME NEW T, T \subseteq Nat, T # {}
    PROVE  \E n \in T : \A m \in T : n <= m
<1>1. IsWellFoundedOn(LessThan, Nat)
  BY NatLessThanWellFounded DEF OpToRel, LessThan
<1>2. PICK n \in T : \A m \in T : <<m, n>> \notin LessThan
  BY <1>1, WFMin
<1>3. ASSUME NEW m \in T PROVE n <= m
  <2>1. m \in Nat /\ n \in Nat
    OBVIOUS
  <2>2. <<m, n>> \in Nat \X Nat /\ <<m, n>>[1] = m /\ <<m, n>>[2] = n
    BY <2>1
  <2>3. ~(m < n)
    BY <1>2, <2>2 DEF LessThan
  <2> QED BY <2>1, <2>3
<1> QED BY <1>3

\* A set that holds 0, and n + 1 when it holds n, holds every natural number.
LEMMA NatSetInduction ==
    ASSUME NEW T, 0 \in T, \A n \in Nat : n \in T => n + 1 \in T
    PROVE  Nat \subseteq T
<1> SUFFICES ASSUME NEW k \in Nat \ T PROVE FALSE
  OBVIOUS
<1>1. PICK n \in Nat \ T : \A m \in Nat \ T : n <= m
  BY LeastElement
<1>2. n # 0 /\ n - 1 \in Nat
  BY <1>1
<1>3. n - 1 \in T
  BY <1>1, <1>2
<1> QED BY <1>1, <1>2, <1>3

\* A set that holds the empty sequence, and with a sequence every longer one by one
\* element, holds every sequence.
LEMMA SeqSetInduction ==
    ASSUME NEW E, NEW T, <<>> \in T, \A s \in Seq(E) \intersect T, x \in E : Append(s, x) \in T
    PROVE  Seq(E) \subseteq T
<1> DEFINE N == {n \in Nat : \A s \in Seq(E) : Len(s) = n => s \in T}
<1>1. 0 \in N
  <2>1. \A s \in Seq(E) : Len(s) = 0 => s = <<>>
    BY EmptySeq
  <2> QED BY <2>1
<1>2. ASSUME NEW n \in N PROVE n + 1 \in N
  <2> SUFFICES ASSUME NEW s \in Seq(E), Len(s) = n + 1 PROVE s \in T
    OBVIOUS
  <2>1. s # <<>>
    OBVIOUS
  <2>2. PICK front \in Seq(E), x \in E : s = Append(front, x)
    BY <2>1, SequenceEmptyOrAppend
  <2>3. Len(front) = n
    BY <2>2, AppendProperties
  <2>4. front \in T
    BY <2>3
  <2> QED BY <2>2, <2>4
<1> HIDE DEF N
<1>3. Nat \subseteq N
  BY <1>1, <1>2, NatSetInduction
<1>4. ASSUME NEW s \in Seq(E) PROVE s \in T
  <2>1. Len(s) \in N
    BY <1>3
  <2> QED BY <2>1 DEF N
<1> QED BY <1>4

-----------------------------------------------------------------------------
(* Select satisfies its recursion *)

\* f is the function that Select computes along s.
Upto(s, S, f) ==
    f = [n \in 0..Len(s) |->
            IF n = 0 THEN <<>>
            ELSE IF s[n] \in S THEN Append(f[n - 1], s[n]) ELSE f[n - 1]]

LEMMA UptoAt ==
    ASSUME NEW s, NEW S, NEW f, Len(s) \in Nat, Upto(s, S, f)
    PROVE  /\ f[0] = <<>>
           /\ \A n \in 1..Len(s) : f[n] = IF s[n] \in S THEN Append(f[n - 1], s[n]) ELSE f[n - 1]
<1>1. \A n \in 0..Len(s) :
          f[n] = IF n = 0 THEN <<>>
                 ELSE IF s[n] \in S THEN Append(f[n - 1], s[n]) ELSE f[n - 1]
  BY DEF Upto
<1> QED BY <1>1

\* There is such a function: one element more is one value more.
LEMMA UptoExists ==
    ASSUME NEW E, NEW S
    PROVE  \A s \in Seq(E) : \E f : Upto(s, S, f)
<1> DEFINE T == {s \in Seq(E) : \E f : Upto(s, S, f)}
<1>1. <<>> \in T
  <2>1. Upto(<<>>, S, [n \in 0..0 |-> <<>>])
    BY DEF Upto
  <2> QED BY <2>1
<1>2. ASSUME NEW s \in Seq(E) \intersect T, NEW x \in E PROVE Append(s, x) \in T
  <2>1. PICK f : Upto(s, S, f)
    OBVIOUS
  <2> DEFINE t == Append(s, x)
             n == Len(s)
             g == [i \in 0..(n + 1) |-> IF i <= n THEN f[i] ELSE
                       IF x \in S THEN Append(f[n], x) ELSE f[n]]
  <2>2. /\ t \in Seq(E) /\ Len(t) = n + 1 /\ n \in Nat
        /\ \A i \in 1..n : t[i] = s[i]
        /\ t[n + 1] = x
    BY AppendProperties
  <2> HIDE DEF t, n
  <2>3. ASSUME NEW i \in 0..Len(t)
        PROVE  g[i] = IF i = 0 THEN <<>>
                      ELSE IF t[i] \in S THEN Append(g[i - 1], t[i]) ELSE g[i - 1]
    <3>1. CASE i = 0
      BY <2>1, <2>2, <3>1 DEF Upto, n
    <3>2. CASE i \in 1..n
      <4>1. g[i] = f[i] /\ g[i - 1] = f[i - 1]
        BY <2>2, <3>2
      <4>2. t[i] = s[i] /\ i \in 0..Len(s) /\ i # 0
        BY <2>2, <3>2 DEF n
      <4> HIDE DEF g
      <4> QED BY <2>1, <3>2, <4>1, <4>2 DEF Upto
    <3>3. CASE i = n + 1
      BY <2>2, <3>3
    <3> QED BY <2>2, <3>1, <3>2, <3>3
  <2>4. g = [i \in 0..Len(t) |-> g[i]]
    BY <2>2
  <2> HIDE DEF g
  <2>5. Upto(t, S, g)
    BY <2>3, <2>4 DEF Upto
  <2> QED BY <2>2, <2>5 DEF t
<1> HIDE DEF T
<1>3. Seq(E) \subseteq T
  BY <1>1, <1>2, SeqSetInduction
<1> QED BY <1>3 DEF T

\* The function of a longer sequence agrees with that of the shorter one.
LEMMA UptoOfAppend ==
    ASSUME NEW E, NEW S, NEW s \in Seq(E), NEW x \in E, NEW f, NEW g,
           Upto(s, S, f), Upto(Append(s, x), S, g)
    PROVE  \A n \in 0..Len(s) : g[n] = f[n]
<1> DEFINE T == {n \in Nat : n <= Len(s) => g[n] = f[n]}
           t == Append(s, x)
<1>1. /\ t \in Seq(E) /\ Len(t) = Len(s) + 1 /\ Len(s) \in Nat /\ Len(t) \in Nat
      /\ \A i \in 1..Len(s) : t[i] = s[i]
      /\ Upto(t, S, g)
  BY AppendProperties
<1> HIDE DEF t
<1>2. 0 \in T
  BY <1>1, UptoAt
<1>3. ASSUME NEW n \in Nat, n \in T PROVE n + 1 \in T
  <2> SUFFICES ASSUME n + 1 <= Len(s) PROVE g[n + 1] = f[n + 1]
    OBVIOUS
  <2>0. \A i \in 1..Len(t) : g[i] = IF t[i] \in S THEN Append(g[i - 1], t[i]) ELSE g[i - 1]
    BY <1>1, UptoAt
  <2>1. n + 1 \in 1..Len(s) /\ n + 1 \in 1..Len(t) /\ t[n + 1] = s[n + 1] /\ n + 1 - 1 = n
    BY <1>1
  <2>2. g[n] = f[n]
    BY <1>1, <1>3
  <2>3. f[n + 1] = IF s[n + 1] \in S THEN Append(f[n], s[n + 1]) ELSE f[n]
    BY <1>1, <2>1, UptoAt
  <2>4. g[n + 1] = IF t[n + 1] \in S THEN Append(g[n], t[n + 1]) ELSE g[n]
    BY <2>0, <2>1
  <2> QED BY <2>1, <2>2, <2>3, <2>4
<1> HIDE DEF T
<1>4. Nat \subseteq T
  BY <1>2, <1>3, NatSetInduction
<1> QED BY <1>1, <1>4 DEF T

LEMMA SelectIsUpto ==
    ASSUME NEW E, NEW S, NEW s \in Seq(E)
    PROVE  \E f : Upto(s, S, f) /\ Select(s, S) = f[Len(s)]
<1>1. \E f : Upto(s, S, f)
  BY UptoExists
<1>2. Upto(s, S, CHOOSE f : Upto(s, S, f))
  BY <1>1
<1>3. Select(s, S) = (CHOOSE f : Upto(s, S, f))[Len(s)]
  BY DEF Select, Upto
<1> QED BY <1>2, <1>3

-----------------------------------------------------------------------------
(* What Select returns *)

LEMMA SelectEmpty == ASSUME NEW S PROVE Select(<<>>, S) = <<>>
<1>1. <<>> \in Seq({}) /\ Len(<<>>) = 0
  OBVIOUS
<1>2. PICK f : Upto(<<>>, S, f) /\ Select(<<>>, S) = f[Len(<<>>)]
  BY <1>1, SelectIsUpto
<1> QED BY <1>1, <1>2, UptoAt

\* An element at the end is kept or left out, and changes nothing before it.
LEMMA SelectAppend ==
    ASSUME NEW E, NEW S, NEW s \in Seq(E), NEW x \in E
    PROVE  Select(Append(s, x), S) = IF x \in S THEN Append(Select(s, S), x) ELSE Select(s, S)
<1> DEFINE t == Append(s, x)
<1>1. /\ t \in Seq(E) /\ Len(t) = Len(s) + 1 /\ Len(s) \in Nat
      /\ t[Len(s) + 1] = x
  BY AppendProperties
<1>2. PICK f : Upto(s, S, f) /\ Select(s, S) = f[Len(s)]
  BY SelectIsUpto
<1> HIDE DEF t
<1>3. PICK g : Upto(t, S, g) /\ Select(t, S) = g[Len(t)]
  BY <1>1, SelectIsUpto
<1>4. g[Len(s)] = f[Len(s)]
  <2>1. Upto(Append(s, x), S, g)
    BY <1>3 DEF t
  <2> QED BY <1>1, <1>2, <2>1, UptoOfAppend
<1>5. g[Len(s) + 1] = IF x \in S THEN Append(g[Len(s)], x) ELSE g[Len(s)]
  <2>1. Len(s) + 1 \in 1..Len(t) /\ Len(s) + 1 - 1 = Len(s) /\ Len(t) \in Nat
    BY <1>1
  <2> QED BY <1>1, <1>3, <2>1, UptoAt
<1> QED BY <1>1, <1>2, <1>3, <1>4, <1>5 DEF t

LEMMA SelectType ==
    ASSUME NEW E, NEW S
    PROVE  \A s \in Seq(E) : Select(s, S) \in Seq(E)
<1> DEFINE T == {s \in Seq(E) : Select(s, S) \in Seq(E)}
<1>1. <<>> \in T
  <2>1. Select(<<>>, S) = <<>> /\ <<>> \in Seq(E)
    BY SelectEmpty
  <2> QED BY <2>1
<1>2. ASSUME NEW s \in Seq(E) \intersect T, NEW x \in E PROVE Append(s, x) \in T
  <2>1. Select(Append(s, x), S) = IF x \in S THEN Append(Select(s, S), x) ELSE Select(s, S)
    BY SelectAppend
  <2> QED BY <2>1, AppendProperties
<1> HIDE DEF T
<1>3. Seq(E) \subseteq T
  BY <1>1, <1>2, SeqSetInduction
<1> QED BY <1>3 DEF T

LEMMA ToSetAppend ==
    ASSUME NEW E, NEW s \in Seq(E), NEW x \in E
    PROVE  ToSet(Append(s, x)) = ToSet(s) \union {x}
<1> DEFINE t == Append(s, x)
<1>1. /\ Len(s) \in Nat /\ DOMAIN t = 1..(Len(s) + 1) /\ DOMAIN s = 1..Len(s)
      /\ t[Len(s) + 1] = x
      /\ \A i \in 1..Len(s) : t[i] = s[i]
  BY AppendProperties, LenProperties
<1> HIDE DEF t
<1>2. ASSUME NEW y \in ToSet(t) PROVE y \in ToSet(s) \union {x}
  <2>1. PICK i \in 1..(Len(s) + 1) : y = t[i]
    BY <1>1 DEF ToSet
  <2> QED BY <1>1, <2>1 DEF ToSet
<1>3. ASSUME NEW y \in ToSet(s) \union {x} PROVE y \in ToSet(t)
  <2>1. CASE y = x
    BY <1>1, <2>1 DEF ToSet
  <2>2. CASE y \in ToSet(s)
    <3>1. PICK i \in 1..Len(s) : y = s[i]
      BY <1>1, <2>2 DEF ToSet
    <3>2. i \in 1..(Len(s) + 1) /\ t[i] = y
      BY <1>1, <3>1
    <3> QED BY <1>1, <3>2 DEF ToSet
  <2> QED BY <2>1, <2>2
<1> QED BY <1>2, <1>3 DEF t

LEMMA ToSetEmpty == ToSet(<<>>) = {}
  BY DEF ToSet

\* The elements kept are those of the set.
LEMMA SelectElements ==
    ASSUME NEW E, NEW S
    PROVE  \A s \in Seq(E) : ToSet(Select(s, S)) = ToSet(s) \intersect S
<1> DEFINE T == {s \in Seq(E) : ToSet(Select(s, S)) = ToSet(s) \intersect S}
<1>1. <<>> \in T
  BY SelectEmpty, ToSetEmpty
<1>2. ASSUME NEW s \in Seq(E) \intersect T, NEW x \in E PROVE Append(s, x) \in T
  <2>1. Select(Append(s, x), S) = IF x \in S THEN Append(Select(s, S), x) ELSE Select(s, S)
    BY SelectAppend
  <2>2. Select(s, S) \in Seq(E)
    BY SelectType
  <2>3. ToSet(Append(s, x)) = ToSet(s) \union {x}
    BY ToSetAppend
  <2>4. ToSet(Append(Select(s, S), x)) = ToSet(Select(s, S)) \union {x}
    BY <2>2, ToSetAppend
  <2>5. Append(s, x) \in Seq(E)
    OBVIOUS
  <2> QED BY <2>1, <2>3, <2>4, <2>5
<1> HIDE DEF T
<1>3. Seq(E) \subseteq T
  BY <1>1, <1>2, SeqSetInduction
<1> QED BY <1>3 DEF T

\* Sets that agree on the elements of a sequence select the same of it.
LEMMA SelectAgree ==
    ASSUME NEW E, NEW S, NEW U
    PROVE  \A s \in Seq(E) :
               ToSet(s) \intersect S = ToSet(s) \intersect U => Select(s, S) = Select(s, U)
<1> DEFINE T == {s \in Seq(E) : ToSet(s) \intersect S = ToSet(s) \intersect U
                                   => Select(s, S) = Select(s, U)}
<1>1. <<>> \in T
  BY SelectEmpty
<1>2. ASSUME NEW s \in Seq(E) \intersect T, NEW x \in E PROVE Append(s, x) \in T
  <2> SUFFICES ASSUME ToSet(Append(s, x)) \intersect S = ToSet(Append(s, x)) \intersect U
               PROVE  Select(Append(s, x), S) = Select(Append(s, x), U)
    OBVIOUS
  <2>1. ToSet(Append(s, x)) = ToSet(s) \union {x}
    BY ToSetAppend
  <2>2. x \in S <=> x \in U
    BY <2>1
  <2>3. ToSet(s) \intersect S = ToSet(s) \intersect U
    BY <2>1
  <2>4. Select(s, S) = Select(s, U)
    BY <2>3
  <2>5. Select(Append(s, x), S) = IF x \in S THEN Append(Select(s, S), x) ELSE Select(s, S)
    BY SelectAppend
  <2>6. Select(Append(s, x), U) = IF x \in U THEN Append(Select(s, U), x) ELSE Select(s, U)
    BY SelectAppend
  <2> QED BY <2>2, <2>4, <2>5, <2>6
<1> HIDE DEF T
<1>3. Seq(E) \subseteq T
  BY <1>1, <1>2, SeqSetInduction
<1> QED BY <1>3 DEF T

\* Selecting twice is selecting what is in both sets.
LEMMA SelectSelect ==
    ASSUME NEW E, NEW S, NEW U
    PROVE  \A s \in Seq(E) : Select(Select(s, S), U) = Select(s, S \intersect U)
<1> DEFINE T == {s \in Seq(E) : Select(Select(s, S), U) = Select(s, S \intersect U)}
<1>1. <<>> \in T
  BY SelectEmpty
<1>2. ASSUME NEW s \in Seq(E) \intersect T, NEW x \in E PROVE Append(s, x) \in T
  <2> DEFINE t == Select(s, S)
  <2>1. Select(Append(s, x), S) = IF x \in S THEN Append(t, x) ELSE t
    BY SelectAppend
  <2>2. t \in Seq(E)
    BY SelectType
  <2>0. Select(t, U) = Select(s, S \intersect U) /\ Append(s, x) \in Seq(E)
    OBVIOUS
  <2> HIDE DEF t, T
  <2>3. Select(Append(t, x), U) = IF x \in U THEN Append(Select(t, U), x) ELSE Select(t, U)
    BY <2>2, SelectAppend
  <2>4. Select(Append(s, x), S \intersect U)
            = IF x \in S \intersect U THEN Append(Select(s, S \intersect U), x)
                                     ELSE Select(s, S \intersect U)
    BY SelectAppend
  <2>5. CASE x \in S
    <3>1. Select(Append(t, x), U) = Select(Append(s, x), S \intersect U)
      BY <2>0, <2>3, <2>4, <2>5
    <3> QED BY <2>0, <2>1, <2>5, <3>1 DEF T
  <2>6. CASE x \notin S
    BY <2>0, <2>1, <2>4, <2>6 DEF T
  <2> QED BY <2>5, <2>6
<1> HIDE DEF T
<1>3. Seq(E) \subseteq T
  BY <1>1, <1>2, SeqSetInduction
<1> QED BY <1>3 DEF T

\* A set with every element of a sequence selects all of it.
LEMMA SelectAll ==
    ASSUME NEW E, NEW S
    PROVE  \A s \in Seq(E) : ToSet(s) \subseteq S => Select(s, S) = s
<1> DEFINE T == {s \in Seq(E) : ToSet(s) \subseteq S => Select(s, S) = s}
<1>1. <<>> \in T
  BY SelectEmpty
<1>2. ASSUME NEW s \in Seq(E) \intersect T, NEW x \in E PROVE Append(s, x) \in T
  <2>1. Select(Append(s, x), S) = IF x \in S THEN Append(Select(s, S), x) ELSE Select(s, S)
    BY SelectAppend
  <2>2. ToSet(Append(s, x)) = ToSet(s) \union {x}
    BY ToSetAppend
  <2>3. Append(s, x) \in Seq(E)
    OBVIOUS
  <2> QED BY <2>1, <2>2, <2>3
<1> HIDE DEF T
<1>3. Seq(E) \subseteq T
  BY <1>1, <1>2, SeqSetInduction
<1> QED BY <1>3 DEF T

\* t is a subsequence of s: its elements lie in s at ever later places.
Embeds(t, s, m) ==
    /\ m \in [1..Len(t) -> 1..Len(s)]
    /\ \A k \in 1..Len(t) : t[k] = s[m[k]]
    /\ \A k, l \in 1..Len(t) : k < l => m[k] < m[l]

\* What is selected is a subsequence.
LEMMA SelectEmbeds ==
    ASSUME NEW E, NEW S
    PROVE  \A s \in Seq(E) : \E m : Embeds(Select(s, S), s, m)
<1> DEFINE T == {s \in Seq(E) : \E m : Embeds(Select(s, S), s, m)}
<1>1. <<>> \in T
  <2>1. Embeds(<<>>, <<>>, [k \in {} |-> 0])
    BY DEF Embeds
  <2> QED BY <2>1, SelectEmpty
<1>2. ASSUME NEW s \in Seq(E) \intersect T, NEW x \in E PROVE Append(s, x) \in T
  <2> DEFINE t == Select(s, S)
             long == Append(s, x)
  <2>1. PICK m : Embeds(t, s, m)
    OBVIOUS
  <2>2. /\ long \in Seq(E) /\ Len(long) = Len(s) + 1 /\ Len(s) \in Nat
        /\ \A i \in 1..Len(s) : long[i] = s[i]
        /\ long[Len(s) + 1] = x
    BY AppendProperties
  <2>3. t \in Seq(E) /\ Len(t) \in Nat
    BY SelectType
  <2>4. Select(long, S) = IF x \in S THEN Append(t, x) ELSE t
    BY SelectAppend
  <2>5. /\ Len(Append(t, x)) = Len(t) + 1 /\ Append(t, x)[Len(t) + 1] = x
        /\ \A k \in 1..Len(t) : Append(t, x)[k] = t[k]
    BY <2>3, AppendProperties
  <2> HIDE DEF t, long
  <2>0. \A k \in 1..Len(t) : m[k] \in 1..Len(s) /\ t[k] = s[m[k]]
    BY <2>1 DEF Embeds
  <2>6. CASE x \notin S
    <3>1. m \in [1..Len(t) -> 1..Len(long)]
      BY <2>0, <2>1, <2>2 DEF Embeds
    <3>2. \A k \in 1..Len(t) : t[k] = long[m[k]]
      BY <2>0, <2>2
    <3>3. Embeds(t, long, m)
      BY <2>1, <3>1, <3>2 DEF Embeds
    <3> QED BY <2>2, <2>4, <2>6, <3>3 DEF long
  <2>7. CASE x \in S
    <3> DEFINE u == Append(t, x)
               g == [k \in 1..(Len(t) + 1) |-> IF k = Len(t) + 1 THEN Len(s) + 1 ELSE m[k]]
    <3>1. \A k \in 1..Len(t) : g[k] = m[k] /\ m[k] \in 1..Len(s) /\ t[k] = s[m[k]]
      BY <2>0, <2>3
    <3>2. g[Len(t) + 1] = Len(s) + 1
      BY <2>3
    <3>3. g \in [1..(Len(t) + 1) -> 1..(Len(s) + 1)]
      <4> SUFFICES ASSUME NEW k \in 1..(Len(t) + 1) PROVE g[k] \in 1..(Len(s) + 1)
        OBVIOUS
      <4>1. CASE k = Len(t) + 1
        BY <2>2, <3>2, <4>1
      <4>2. CASE k # Len(t) + 1
        <5>1. k \in 1..Len(t)
          BY <2>3, <4>2
        <5> HIDE DEF g
        <5> QED BY <2>2, <3>1, <5>1
      <4> QED BY <4>1, <4>2
    <3> HIDE DEF g
    <3>4. \A k \in 1..(Len(t) + 1) : u[k] = long[g[k]]
      BY <2>2, <2>3, <2>5, <3>1, <3>2
    <3>5. \A k, l \in 1..(Len(t) + 1) : k < l => g[k] < g[l]
      <4> SUFFICES ASSUME NEW k \in 1..(Len(t) + 1), NEW l \in 1..(Len(t) + 1), k < l
                   PROVE  g[k] < g[l]
        OBVIOUS
      <4>1. k \in 1..Len(t)
        BY <2>3
      <4>2. CASE l = Len(t) + 1
        BY <2>2, <3>1, <3>2, <4>1, <4>2
      <4>3. CASE l # Len(t) + 1
        <5>1. l \in 1..Len(t)
          BY <2>3, <4>3
        <5> QED BY <2>1, <3>1, <4>1, <5>1 DEF Embeds
      <4> QED BY <4>2, <4>3
    <3>6. Embeds(u, long, g)
      BY <2>2, <2>5, <3>3, <3>4, <3>5 DEF Embeds
    <3> QED BY <2>2, <2>4, <2>7, <3>6 DEF long
  <2> QED BY <2>6, <2>7
<1> HIDE DEF T
<1>3. Seq(E) \subseteq T
  BY <1>1, <1>2, SeqSetInduction
<1> QED BY <1>3 DEF T

-----------------------------------------------------------------------------
(* Elements by their place *)

LEMMA ToSetAt ==
    ASSUME NEW E, NEW s \in Seq(E)
    PROVE  /\ \A i \in 1..Len(s) : s[i] \in ToSet(s)
           /\ \A x \in ToSet(s) : \E i \in 1..Len(s) : s[i] = x
           /\ ToSet(s) \subseteq E
<1>1. DOMAIN s = 1..Len(s) /\ \A i \in 1..Len(s) : s[i] \in E
  OBVIOUS
<1> QED BY <1>1 DEF ToSet

\* What is left of a sequence from its m-th element on.
LEMMA Suffix ==
    ASSUME NEW E, NEW s \in Seq(E), NEW m \in 1..(Len(s) + 1)
    PROVE  LET t == SubSeq(s, m, Len(s))
           IN  /\ t \in Seq(E)
               /\ t # <<>> <=> m <= Len(s)
               /\ t # <<>> => Last(t) = s[Len(s)]
               /\ \A k \in m..Len(s) : s[k] \in ToSet(t)
               /\ \A x \in ToSet(t) : \E k \in m..Len(s) : s[k] = x
<1> DEFINE t == SubSeq(s, m, Len(s))
<1>1. Len(s) \in Nat /\ \A i \in m..Len(s) : s[i] \in E
  OBVIOUS
<1>2. /\ t \in Seq(E)
      /\ Len(t) = IF m <= Len(s) THEN Len(s) - m + 1 ELSE 0
      /\ \A i \in 1..(Len(s) - m + 1) : t[i] = s[m + i - 1]
  BY <1>1, SubSeqProperties
<1> HIDE DEF t
<1>3. t # <<>> <=> m <= Len(s)
  BY <1>1, <1>2
<1>4. ASSUME t # <<>> PROVE Last(t) = s[Len(s)]
  <2>1. m <= Len(s) /\ Len(t) = Len(s) - m + 1 /\ Len(t) \in 1..(Len(s) - m + 1)
    BY <1>1, <1>2, <1>3, <1>4
  <2>2. t[Len(t)] = s[m + Len(t) - 1] /\ m + Len(t) - 1 = Len(s)
    BY <1>1, <1>2, <2>1
  <2> QED BY <2>2 DEF Last
<1>5. ASSUME NEW k \in m..Len(s) PROVE s[k] \in ToSet(t)
  <2>1. k - m + 1 \in 1..(Len(s) - m + 1) /\ k - m + 1 \in 1..Len(t) /\ m + (k - m + 1) - 1 = k
    BY <1>1, <1>2
  <2>2. t[k - m + 1] = s[k]
    BY <1>2, <2>1
  <2> QED BY <1>2, <2>1, <2>2, ToSetAt
<1>6. ASSUME NEW x \in ToSet(t) PROVE \E k \in m..Len(s) : s[k] = x
  <2>1. PICK i \in 1..Len(t) : t[i] = x
    BY <1>2, ToSetAt
  <2>2. i \in 1..(Len(s) - m + 1) /\ m + i - 1 \in m..Len(s)
    BY <1>1, <1>2
  <2> QED BY <1>2, <2>1, <2>2
<1> QED BY <1>2, <1>3, <1>4, <1>5, <1>6 DEF t

\* A subsequence has only elements of the sequence.
LEMMA ElementsOfSelect ==
    ASSUME NEW E, NEW s \in Seq(E), NEW S
    PROVE  /\ Select(s, S) \in Seq(E)
           /\ ToSet(Select(s, S)) \subseteq ToSet(s)
           /\ ToSet(Select(s, S)) \subseteq S
  BY SelectType, SelectElements

\* The last element of a selection may be left out of what selects it.
LEMMA SelectFront ==
    ASSUME NEW E, NEW s \in Seq(E), NEW r \in Seq(E), NEW x \in E, x \notin ToSet(r),
           Append(r, x) = Select(s, ToSet(Append(r, x)))
    PROVE  r = Select(s, ToSet(r))
<1> DEFINE R == ToSet(r)
           X == ToSet(Append(r, x))
<1>1. R \subseteq X
  BY ToSetAppend
<1>2. Select(Append(r, x), R) = Select(r, R)
  BY SelectAppend
<1>3. Select(r, R) = r
  BY SelectAll
<1>4. Select(Select(s, X), R) = Select(s, X \intersect R)
  BY SelectSelect
<1>5. X \intersect R = R
  BY <1>1
<1> QED BY <1>2, <1>3, <1>4, <1>5

-----------------------------------------------------------------------------
(* Functions defined by recursion on the numbers up to a bound *)

Recursion(f, base, step, N) == f[0] = base /\ \A n \in 1..N : f[n] = step[n][f[n - 1]]

AlikeOnwards(f, g, N) == f[0] = g[0] /\ \A n \in 1..N : f[n - 1] = g[n - 1] => f[n] = g[n]

\* A start and steps that stay in a set define a function into it.
LEMMA RecursionExists ==
    ASSUME NEW N \in Nat, NEW V, NEW base \in V, NEW step \in [1..N -> [V -> V]]
    PROVE  \E f \in [0..N -> V] : Recursion(f, base, step, N)
<1> DEFINE T == {m \in Nat : m <= N => \E f \in [0..m -> V] :
                     f[0] = base /\ \A n \in 1..m : f[n] = step[n][f[n - 1]]}
<1>1. 0 \in T
  <2> DEFINE f == [n \in 0..0 |-> base]
  <2>1. f \in [0..0 -> V] /\ f[0] = base /\ \A n \in 1..0 : f[n] = step[n][f[n - 1]]
    OBVIOUS
  <2> HIDE DEF f
  <2>2. QED
    BY <2>1
<1>2. ASSUME NEW m \in Nat, m \in T PROVE m + 1 \in T
  <2> SUFFICES ASSUME m + 1 <= N
               PROVE  \E f \in [0..(m + 1) -> V] :
                          f[0] = base /\ \A n \in 1..(m + 1) : f[n] = step[n][f[n - 1]]
    BY <1>2
  <2>1. PICK f \in [0..m -> V] : f[0] = base /\ \A n \in 1..m : f[n] = step[n][f[n - 1]]
    BY <1>2
  <2> DEFINE g == [n \in 0..(m + 1) |-> IF n = m + 1 THEN step[m + 1][f[m]] ELSE f[n]]
  <2>2. step[m + 1][f[m]] \in V
    <3>1. m + 1 \in 1..N /\ f[m] \in V
      OBVIOUS
    <3>2. QED
      BY <3>1
  <2>3. g \in [0..(m + 1) -> V]
    BY <2>2
  <2>4. \A n \in 0..m : g[n] = f[n]
    OBVIOUS
  <2>5. g[m + 1] = step[m + 1][f[m]]
    OBVIOUS
  <2> HIDE DEF g
  <2>6. \A n \in 1..(m + 1) : g[n] = step[n][g[n - 1]]
    <3>1. TAKE n \in 1..(m + 1)
    <3>2. n - 1 \in 0..m /\ g[n - 1] = f[n - 1]
      BY <2>4
    <3>3. CASE n = m + 1
      BY <2>5, <3>2, <3>3
    <3>4. CASE n # m + 1
      <4>1. n \in 1..m /\ g[n] = f[n]
        BY <2>4, <3>4
      <4>2. QED
        BY <2>1, <3>2, <4>1
    <3>5. QED
      BY <3>3, <3>4
  <2>7. g[0] = base
    BY <2>1, <2>4
  <2>8. QED
    BY <2>3, <2>6, <2>7
<1>3. Nat \subseteq T
  <2> HIDE DEF T
  <2>1. QED
    BY <1>1, <1>2, NatSetInduction
<1>4. N \in T
  BY <1>3
<1>5. QED
  BY <1>4 DEF Recursion

\* Functions that start alike and go on alike are alike.
LEMMA RecursionUnique ==
    ASSUME NEW N \in Nat, NEW f, NEW g, AlikeOnwards(f, g, N)
    PROVE  \A n \in 0..N : f[n] = g[n]
<1> DEFINE T == {m \in Nat : m <= N => f[m] = g[m]}
<1>1. 0 \in T
  BY DEF AlikeOnwards
<1>2. ASSUME NEW m \in Nat, m \in T PROVE m + 1 \in T
  <2> SUFFICES ASSUME m + 1 <= N PROVE f[m + 1] = g[m + 1]
    OBVIOUS
  <2>1. m + 1 \in 1..N /\ (m + 1) - 1 = m /\ f[m] = g[m]
    BY <1>2
  <2>2. QED
    BY <2>1 DEF AlikeOnwards
<1>3. Nat \subseteq T
  <2> HIDE DEF T
  <2>1. QED
    BY <1>1, <1>2, NatSetInduction
<1>4. QED
  BY <1>3

=============================================================================
