--------------------------- MODULE CorlibEventProofs ---------------------------
(* Theorems about CorlibEvent, for any delegates, lists and nesting; among  *)
(* them that it implements EventSpec.                                       *)
EXTENDS CorlibEvent, SequenceTheorems, WellFoundedInduction, TLAPS

(***************************************************************************)
(* Induction over numbers and lists, with the property as a set.           *)
(***************************************************************************)

(* A set of numbers that is not empty has a least element.                  *)
LEMMA LeastNumber ==
  ASSUME NEW T, T \subseteq Nat, T # {}
  PROVE  \E n \in T : \A m \in T : n <= m
<1> DEFINE Less == {p \in Nat \X Nat : p[1] < p[2]}
<1>1. IsWellFoundedOn(OpToRel(<, Nat), Nat)
  BY NatLessThanWellFounded, Zenon
<1>2. OpToRel(<, Nat) = Less
  BY DEF OpToRel
<1>3. IsWellFoundedOn(Less, Nat)
  BY <1>1, <1>2, Zenon
<1>4. \A m, n \in Nat : <<m, n>> \in Less <=> m < n
  OBVIOUS
<1> HIDE DEF Less
<1>5. \E n \in T : \A m \in T : ~(<<m, n>> \in Less)
  BY <1>3, WFMin
<1>6. PICK n \in T : \A m \in T : ~(<<m, n>> \in Less)
  BY <1>5
<1>7. \A m \in T : ~(m < n)
  BY <1>4, <1>6
<1> QED BY <1>7

(* A set of lists that has the empty one and is closed under Append has     *)
(* them all.                                                                *)
LEMMA ListInduction ==
  ASSUME NEW X, NEW Good, <<>> \in Good,
         \A s \in Seq(X), x \in X : s \in Good => Append(s, x) \in Good
  PROVE  Seq(X) \subseteq Good
<1> DEFINE Bad == {n \in Nat : \E s \in Seq(X) : s \notin Good /\ Len(s) = n}
<1> SUFFICES ASSUME Bad # {}
             PROVE  FALSE
  <2>1. \A s \in Seq(X) : Len(s) \in Nat
    BY LenProperties
  <2> QED BY <2>1
<1>1. PICK n \in Bad : \A m \in Bad : n <= m
  BY LeastNumber
<1>2. PICK s \in Seq(X) : s \notin Good /\ Len(s) = n
  BY <1>1
<1>3. PICK t \in Seq(X), x \in X : s = Append(t, x)
  BY <1>2, SequenceEmptyOrAppend
<1>4. Len(t) \in Nat /\ Len(s) = Len(t) + 1
  BY <1>3, AppendProperties, LenProperties
<1>5. t \notin Good
  BY <1>2, <1>3
<1> QED BY <1>1, <1>2, <1>4, <1>5

(***************************************************************************)
(* What Select returns.                                                    *)
(***************************************************************************)

(* f is the function of Select's definition, for the first N entries.       *)
IsPick(f, s, S, N) ==
  f = [n \in 0..N |->
         IF n = 0 THEN <<>>
         ELSE IF s[n] \in S THEN Append(f[n - 1], s[n])
                            ELSE f[n - 1]]

LEMMA PickExists ==
  ASSUME NEW s, NEW S, NEW N \in Nat
  PROVE  \E f : IsPick(f, s, S, N)
<1> DEFINE Bad == {n \in Nat : ~ \E f : IsPick(f, s, S, n)}
<1> SUFFICES ASSUME Bad # {}
             PROVE  FALSE
  OBVIOUS
<1>1. PICK n \in Bad : \A m \in Bad : n <= m
  BY LeastNumber
<1>2. n \in Nat /\ ~ \E f : IsPick(f, s, S, n)
  BY <1>1
<1>3. CASE n = 0
  <2>1. IsPick([m \in 0..0 |-> <<>>], s, S, 0)
    BY DEF IsPick
  <2> QED BY <1>2, <1>3, <2>1
<1>4. CASE n # 0
  <2>1. n - 1 \in Nat /\ n - 1 \notin Bad
    BY <1>1, <1>2, <1>4
  <2>2. PICK f : IsPick(f, s, S, n - 1)
    BY <2>1
  <2> DEFINE last == IF s[n] \in S THEN Append(f[n - 1], s[n]) ELSE f[n - 1]
  <2> DEFINE g == [m \in 0..n |-> IF m = n THEN last ELSE f[m]]
  <2>3. \A m \in 0..n - 1 :
          f[m] = IF m = 0 THEN <<>>
                 ELSE IF s[m] \in S THEN Append(f[m - 1], s[m]) ELSE f[m - 1]
    BY <2>2 DEF IsPick
  <2>4. ASSUME NEW m \in 0..n
        PROVE  g[m] = IF m = 0 THEN <<>>
                      ELSE IF s[m] \in S THEN Append(g[m - 1], s[m])
                                         ELSE g[m - 1]
    <3>1. CASE m = n
      <4>1. n - 1 \in 0..n /\ n - 1 # n
        BY <1>2, <1>4
      <4>2. g[m] = last /\ g[m - 1] = f[n - 1]
        BY <3>1, <4>1
      <4> QED BY <1>4, <3>1, <4>2
    <3>2. CASE m # n
      <4>1. m \in 0..n - 1 /\ g[m] = f[m]
        BY <1>2, <3>2
      <4>2. m # 0 => g[m - 1] = f[m - 1]
        BY <1>2, <4>1
      <4> QED BY <2>3, <4>1, <4>2
    <3> QED BY <3>1, <3>2
  <2>5. IsPick(g, s, S, n)
    <3>1. g = [m \in 0..n |-> g[m]]
      OBVIOUS
    <3> HIDE DEF g
    <3> QED BY <2>4, <3>1 DEF IsPick
  <2> QED BY <1>2, <2>5
<1> QED BY <1>3, <1>4

(* It depends on the entries up to there only.                              *)
LEMMA PickIsUnique ==
  ASSUME NEW s, NEW t, NEW S, NEW N \in Nat, NEW M \in Nat, N <= M,
         \A n \in 1..N : s[n] = t[n],
         NEW f, NEW g, IsPick(f, s, S, N), IsPick(g, t, S, M)
  PROVE  \A n \in 0..N : f[n] = g[n]
<1> DEFINE Bad == {n \in 0..N : f[n] # g[n]}
<1> SUFFICES ASSUME Bad # {}
             PROVE  FALSE
  OBVIOUS
<1>1. Bad \subseteq Nat
  OBVIOUS
<1>2. PICK n \in Bad : \A m \in Bad : n <= m
  BY <1>1, LeastNumber
<1>3. \A m \in 0..N :
        f[m] = IF m = 0 THEN <<>>
               ELSE IF s[m] \in S THEN Append(f[m - 1], s[m]) ELSE f[m - 1]
  BY DEF IsPick
<1>4. \A m \in 0..M :
        g[m] = IF m = 0 THEN <<>>
               ELSE IF t[m] \in S THEN Append(g[m - 1], t[m]) ELSE g[m - 1]
  BY DEF IsPick
<1>5. n \in 0..N /\ n \in 0..M /\ f[n] # g[n]
  BY <1>2
<1>6. n # 0
  BY <1>3, <1>4, <1>5
<1>7. n - 1 \in 0..N /\ ~(n <= n - 1)
  BY <1>5, <1>6
<1>8. f[n - 1] = g[n - 1]
  BY <1>2, <1>7
<1>9. s[n] = t[n]
  BY <1>5, <1>6
<1> QED BY <1>3, <1>4, <1>5, <1>6, <1>8, <1>9

(* The equations that the rest rests on.                                    *)
LEMMA SelectEmpty ==
  ASSUME NEW S
  PROVE  Select(<<>>, S) = <<>>
<1> DEFINE f == CHOOSE g : IsPick(g, <<>>, S, Len(<<>>))
<1>1. Select(<<>>, S) = f[Len(<<>>)]
  BY DEF Select, IsPick
<1>2. IsPick(f, <<>>, S, 0)
  BY PickExists
<1> HIDE DEF f
<1> QED BY <1>1, <1>2 DEF IsPick

LEMMA SelectAppend ==
  ASSUME NEW X, NEW s \in Seq(X), NEW x \in X, NEW S
  PROVE  Select(Append(s, x), S) =
           IF x \in S THEN Append(Select(s, S), x) ELSE Select(s, S)
<1> DEFINE t == Append(s, x)
<1> DEFINE f == CHOOSE g : IsPick(g, s, S, Len(s))
<1> DEFINE h == CHOOSE g : IsPick(g, t, S, Len(t))
<1>1. Select(s, S) = f[Len(s)] /\ Select(t, S) = h[Len(t)]
  BY DEF Select, IsPick
<1>2. /\ Len(s) \in Nat /\ Len(t) = Len(s) + 1 /\ t[Len(t)] = x
      /\ \A n \in 1..Len(s) : s[n] = t[n]
  BY AppendProperties, LenProperties
<1> HIDE DEF t
<1>3. IsPick(f, s, S, Len(s)) /\ IsPick(h, t, S, Len(t))
  <2>1. Len(t) \in Nat
    BY <1>2
  <2> QED BY <1>2, <2>1, PickExists
<1> HIDE DEF f, h
<1>4. f[Len(s)] = h[Len(s)]
  <2> DEFINE N == Len(s)
  <2> DEFINE M == Len(t)
  <2>1. /\ N \in Nat /\ M \in Nat /\ N <= M
        /\ \A n \in 1..N : s[n] = t[n]
        /\ IsPick(f, s, S, N) /\ IsPick(h, t, S, M)
    BY <1>2, <1>3
  <2> HIDE DEF N, M
  <2>2. \A n \in 0..N : f[n] = h[n]
    BY <2>1, PickIsUnique
  <2> QED BY <2>1, <2>2 DEF N
<1>5. h[Len(t)] = IF t[Len(t)] \in S THEN Append(h[Len(t) - 1], t[Len(t)])
                                     ELSE h[Len(t) - 1]
  <2>1. Len(t) \in 0..Len(t) /\ Len(t) # 0
    BY <1>2
  <2> QED BY <1>3, <2>1 DEF IsPick
<1>6. Len(t) - 1 = Len(s)
  BY <1>2
<1> QED BY <1>1, <1>2, <1>4, <1>5, <1>6 DEF t

(* The entries of a list that is appended to.                               *)
LEMMA AppendSet ==
  ASSUME NEW X, NEW s \in Seq(X), NEW x \in X
  PROVE  Append(s, x) \in Seq(X) /\ ToSet(Append(s, x)) = ToSet(s) \cup {x}
<1>1. /\ Append(s, x) \in Seq(X) /\ Len(Append(s, x)) = Len(s) + 1
      /\ DOMAIN Append(s, x) = 1..Len(s) + 1 /\ DOMAIN s = 1..Len(s)
      /\ Len(s) \in Nat
      /\ \A i \in 1..Len(s) : Append(s, x)[i] = s[i]
      /\ Append(s, x)[Len(s) + 1] = x
  BY AppendProperties, LenProperties
<1> QED BY <1>1 DEF ToSet

LEMMA ConcatAppend ==
  ASSUME NEW X, NEW s \in Seq(X), NEW t \in Seq(X), NEW x \in X
  PROVE  s \o Append(t, x) = Append(s \o t, x)
<1>1. <<x>> \in Seq(X) /\ s \o t \in Seq(X)
  BY ConcatProperties
<1>2. Append(t, x) = t \o <<x>> /\ Append(s \o t, x) = (s \o t) \o <<x>>
  BY <1>1, AppendIsConcat
<1> QED BY <1>1, <1>2, ConcatAssociative

(***************************************************************************)
(* Lemmas about Select.                                                    *)
(***************************************************************************)

LEMMA SelectList ==
  ASSUME NEW X, NEW s \in Seq(X), NEW S
  PROVE  /\ Select(s, S) \in Seq(X)
         /\ ToSet(Select(s, S)) = ToSet(s) \cap S
<1> DEFINE Good == {u \in Seq(X) : /\ Select(u, S) \in Seq(X)
                                   /\ ToSet(Select(u, S)) = ToSet(u) \cap S}
<1>1. <<>> \in Good
  <2>1. <<>> \in Seq(X) /\ ToSet(<<>>) = {}
    BY EmptySeq DEF ToSet
  <2> QED BY <2>1, SelectEmpty
<1>2. ASSUME NEW u \in Seq(X), NEW x \in X, u \in Good
      PROVE  Append(u, x) \in Good
  <2>1. \A v \in Seq(X) : /\ Append(v, x) \in Seq(X)
                          /\ ToSet(Append(v, x)) = ToSet(v) \cup {x}
    BY AppendSet
  <2>2. CASE x \in S
    <3>1. Select(Append(u, x), S) = Append(Select(u, S), x)
      BY <2>2, SelectAppend
    <3>2. Select(u, S) \in Seq(X) /\ ToSet(Select(u, S)) = ToSet(u) \cap S
      BY <1>2
    <3>3. ToSet(Append(Select(u, S), x)) = (ToSet(u) \cap S) \cup {x}
      BY <2>1, <3>2
    <3> QED BY <2>1, <2>2, <3>1, <3>2, <3>3
  <2>3. CASE x \notin S
    BY <1>2, <2>1, <2>3, SelectAppend
  <2> QED BY <2>2, <2>3
<1> HIDE DEF Good
<1>3. s \in Good
  BY <1>1, <1>2, ListInduction
<1> QED BY <1>3 DEF Good

(* Nothing to select.                                                       *)
LEMMA SelectNothing ==
  ASSUME NEW X, NEW s \in Seq(X), NEW S, ToSet(s) \cap S = {}
  PROVE  Select(s, S) = <<>>
<1>1. Select(s, S) \in Seq(X) /\ ToSet(Select(s, S)) = {}
  BY SelectList
<1>2. ASSUME Select(s, S) # <<>>
      PROVE  FALSE
  <2>1. Len(Select(s, S)) \in Nat \ {0}
    BY <1>1, <1>2, EmptySeq
  <2>2. 1 \in DOMAIN Select(s, S)
    BY <1>1, <2>1, LenProperties
  <2> QED BY <1>1, <2>2 DEF ToSet
<1> QED BY <1>2

(* One list after the other.                                                *)
LEMMA SelectConcat ==
  ASSUME NEW X, NEW s \in Seq(X), NEW t \in Seq(X), NEW S
  PROVE  Select(s \o t, S) = Select(s, S) \o Select(t, S)
<1> DEFINE Good ==
      {u \in Seq(X) : Select(s \o u, S) = Select(s, S) \o Select(u, S)}
<1>1. <<>> \in Good
  <2>1. <<>> \in Seq(X) /\ s \o <<>> = s
    BY EmptySeq, ConcatEmptySeq
  <2>2. Select(s, S) \o <<>> = Select(s, S)
    BY SelectList, ConcatEmptySeq
  <2> QED BY <2>1, <2>2, SelectEmpty
<1>2. ASSUME NEW u \in Seq(X), NEW x \in X, u \in Good
      PROVE  Append(u, x) \in Good
  <2>1. /\ Append(u, x) \in Seq(X) /\ s \o u \in Seq(X)
        /\ Select(s, S) \in Seq(X) /\ Select(u, S) \in Seq(X)
    BY AppendProperties, ConcatProperties, SelectList
  <2>2. s \o Append(u, x) = Append(s \o u, x)
    BY ConcatAppend
  <2>3. Select(s, S) \o Append(Select(u, S), x) =
          Append(Select(s, S) \o Select(u, S), x)
    BY <2>1, ConcatAppend
  <2>4. Select(s \o u, S) = Select(s, S) \o Select(u, S)
    BY <1>2
  <2>5. /\ Select(Append(u, x), S) =
             IF x \in S THEN Append(Select(u, S), x) ELSE Select(u, S)
        /\ Select(Append(s \o u, x), S) =
             IF x \in S THEN Append(Select(s \o u, S), x) ELSE Select(s \o u, S)
    BY <2>1, SelectAppend
  <2>6. Select(s \o Append(u, x), S) = Select(s, S) \o Select(Append(u, x), S)
    BY <2>2, <2>3, <2>4, <2>5
  <2> QED BY <2>1, <2>6
<1> HIDE DEF Good
<1>3. t \in Good
  BY <1>1, <1>2, ListInduction
<1> QED BY <1>3 DEF Good

(* Selecting from a selection.                                              *)
LEMMA SelectSelect ==
  ASSUME NEW X, NEW s \in Seq(X), NEW S, NEW R
  PROVE  Select(Select(s, S), R) = Select(s, S \cap R)
<1> DEFINE Good ==
      {u \in Seq(X) : Select(Select(u, S), R) = Select(u, S \cap R)}
<1>1. <<>> \in Good
  BY EmptySeq, SelectEmpty
<1>2. ASSUME NEW u \in Seq(X), NEW x \in X, u \in Good
      PROVE  Append(u, x) \in Good
  <2>1. Append(u, x) \in Seq(X) /\ Select(u, S) \in Seq(X)
    BY AppendProperties, SelectList
  <2>2. Select(Append(u, x), S \cap R) =
          IF x \in S \cap R THEN Append(Select(u, S \cap R), x)
                            ELSE Select(u, S \cap R)
    BY SelectAppend
  <2>3. CASE x \in S
    <3>1. Select(Append(u, x), S) = Append(Select(u, S), x)
      BY <2>3, SelectAppend
    <3>2. Select(Append(Select(u, S), x), R) =
            IF x \in R THEN Append(Select(Select(u, S), R), x)
                       ELSE Select(Select(u, S), R)
      BY <2>1, SelectAppend
    <3>3. Select(Select(u, S), R) = Select(u, S \cap R)
      BY <1>2
    <3>4. x \in S \cap R <=> x \in R
      BY <2>3
    <3>5. Select(Select(Append(u, x), S), R) = Select(Append(u, x), S \cap R)
      BY <2>2, <3>1, <3>2, <3>3, <3>4
    <3> QED BY <2>1, <3>5
  <2>4. CASE x \notin S
    <3>1. Select(Append(u, x), S) = Select(u, S)
      BY <2>4, SelectAppend
    <3> QED BY <1>2, <2>1, <2>2, <2>4, <3>1
  <2> QED BY <2>3, <2>4
<1> HIDE DEF Good
<1>3. s \in Good
  BY <1>1, <1>2, ListInduction
<1> QED BY <1>3 DEF Good

(* Two lists that differ only in what is not selected.                      *)
LEMMA SelectSame ==
  ASSUME NEW X, NEW s \in Seq(X), NEW t \in Seq(X), NEW S, NEW R,
         Len(s) = Len(t),
         \A i \in 1..Len(s) : \/ s[i] = t[i] /\ (s[i] \in S <=> s[i] \in R)
                              \/ s[i] \notin S /\ t[i] \notin R
  PROVE  Select(s, S) = Select(t, R)
<1> DEFINE Like(u, v) ==
      /\ Len(u) = Len(v)
      /\ \A i \in 1..Len(u) : \/ u[i] = v[i] /\ (u[i] \in S <=> u[i] \in R)
                              \/ u[i] \notin S /\ v[i] \notin R
<1> DEFINE Good ==
      {u \in Seq(X) : \A v \in Seq(X) :
                        Like(u, v) => Select(u, S) = Select(v, R)}
<1>1. <<>> \in Good
  <2>1. \A v \in Seq(X) : Len(v) = 0 => v = <<>>
    BY EmptySeq
  <2> QED BY <2>1, EmptySeq, SelectEmpty
<1>2. ASSUME NEW u \in Seq(X), NEW x \in X, u \in Good
      PROVE  Append(u, x) \in Good
  <2> SUFFICES ASSUME NEW v \in Seq(X), Like(Append(u, x), v)
               PROVE  Select(Append(u, x), S) = Select(v, R)
    BY AppendProperties
  <2>1. /\ Len(u) \in Nat /\ Len(Append(u, x)) = Len(u) + 1
        /\ \A i \in 1..Len(u) : Append(u, x)[i] = u[i]
        /\ Append(u, x)[Len(u) + 1] = x
    BY AppendProperties, LenProperties
  <2>2. Len(v) = Len(u) + 1
    BY <2>1
  <2>3. v # <<>>
    BY <2>1, <2>2, EmptySeq
  <2>4. PICK w \in Seq(X), y \in X : v = Append(w, y)
    BY <2>3, SequenceEmptyOrAppend
  <2>5. /\ Len(w) \in Nat /\ Len(v) = Len(w) + 1
        /\ \A i \in 1..Len(w) : v[i] = w[i]
        /\ v[Len(w) + 1] = y
    BY <2>4, AppendProperties, LenProperties
  <2>6. Len(w) = Len(u)
    BY <2>1, <2>2, <2>5
  <2>7. ASSUME NEW i \in 1..Len(u)
        PROVE  \/ u[i] = w[i] /\ (u[i] \in S <=> u[i] \in R)
               \/ u[i] \notin S /\ w[i] \notin R
    <3>1. i \in 1..Len(Append(u, x))
      BY <2>1
    <3> QED BY <2>1, <2>5, <2>6, <3>1
  <2>8. Select(u, S) = Select(w, R)
    BY <1>2, <2>6, <2>7
  <2>9. \/ x = y /\ (x \in S <=> x \in R)
        \/ x \notin S /\ y \notin R
    <3>1. Len(u) + 1 \in 1..Len(Append(u, x))
      BY <2>1
    <3> QED BY <2>1, <2>5, <2>6, <3>1
  <2>10. /\ Select(Append(u, x), S) =
              IF x \in S THEN Append(Select(u, S), x) ELSE Select(u, S)
         /\ Select(v, R) =
              IF y \in R THEN Append(Select(w, R), y) ELSE Select(w, R)
    BY <2>4, SelectAppend
  <2> QED BY <2>8, <2>9, <2>10
<1>3. Like(s, t)
  OBVIOUS
<1> HIDE DEF Good
<1>4. s \in Good
  BY <1>1, <1>2, ListInduction
<1> QED BY <1>3, <1>4 DEF Good

(***************************************************************************)
(* What an invocation has to call, as an operator of the list and the      *)
(* enumerator.                                                             *)
(***************************************************************************)

Entries == Delegates \cup {Null}
Enumerators == [mIdx : Int, since : SUBSET Delegates,
                called : SUBSET Delegates]

Behind(its, e) == SubSeq(its, e.mIdx + 2, Len(its))
DueIn(its, e) == Select(Behind(its, e), e.since)

InvocationsIn(its, es) ==
  [k \in DOMAIN es |-> [due |-> DueIn(its, es[k]), called |-> es[k].called]]

LEMMA FunctionIsSeq ==
  ASSUME NEW S, NEW n \in Nat, NEW f \in [1..n -> S]
  PROVE  f \in Seq(S) /\ Len(f) = n
<1>1. f \in Seq(S)
  BY SeqDef
<1> QED BY <1>1, LenProperties

LEMMA BehindList ==
  ASSUME NEW its \in Seq(Entries), NEW e \in Enumerators, e.mIdx >= -1
  PROVE  /\ Behind(its, e) \in Seq(Entries)
         /\ Len(Behind(its, e)) = IF e.mIdx + 2 <= Len(its)
                                    THEN Len(its) - e.mIdx - 1 ELSE 0
         /\ \A i \in 1..Len(Behind(its, e)) :
              /\ e.mIdx + 1 + i \in 1..Len(its)
              /\ Behind(its, e)[i] = its[e.mIdx + 1 + i]
<1>1. /\ e.mIdx \in Int
      /\ Len(its) \in Nat
      /\ \A i \in 1..Len(its) : its[i] \in Entries
  BY LenProperties, ElementOfSeq DEF Enumerators
<1> DEFINE n == e.mIdx + 2
<1>2. n \in Int /\ n >= 1
  BY <1>1
<1>3. /\ SubSeq(its, n, Len(its)) \in Seq(Entries)
      /\ Len(SubSeq(its, n, Len(its))) =
           IF n <= Len(its) THEN Len(its) - n + 1 ELSE 0
      /\ \A i \in 1..Len(its) - n + 1 :
           SubSeq(its, n, Len(its))[i] = its[n + i - 1]
  BY <1>1, <1>2, SubSeqProperties
<1>4. Len(its) - n + 1 = Len(its) - e.mIdx - 1
  BY <1>1
<1>5. ASSUME NEW i \in 1..Len(SubSeq(its, n, Len(its)))
      PROVE  /\ e.mIdx + 1 + i \in 1..Len(its)
             /\ SubSeq(its, n, Len(its))[i] = its[e.mIdx + 1 + i]
  <2>1. i \in 1..Len(its) - n + 1 /\ n <= Len(its)
    BY <1>1, <1>2, <1>3
  <2>2. n + i - 1 = e.mIdx + 1 + i /\ n + i - 1 \in 1..Len(its)
    <3> DEFINE m == e.mIdx
    <3>1. m \in Int /\ m >= -1 /\ n = m + 2 /\ i \in Int /\ Len(its) \in Nat
      BY <1>1
    <3> HIDE DEF m, n
    <3>2. n + i - 1 = m + 1 + i /\ n + i - 1 \in 1..Len(its)
      BY <2>1, <3>1
    <3> QED BY <3>2 DEF m
  <2> QED BY <1>3, <2>1, <2>2
<1> QED BY <1>3, <1>4, <1>5 DEF Behind

LEMMA DueList ==
  ASSUME NEW its \in Seq(Entries), NEW e \in Enumerators, e.mIdx >= -1
  PROVE  /\ DueIn(its, e) \in Seq(Entries)
         /\ ToSet(DueIn(its, e)) \subseteq ToSet(its) \cap e.since
<1>1. /\ Behind(its, e) \in Seq(Entries)
      /\ \A i \in 1..Len(Behind(its, e)) :
           /\ e.mIdx + 1 + i \in 1..Len(its)
           /\ Behind(its, e)[i] = its[e.mIdx + 1 + i]
  BY BehindList
<1>2. ToSet(Behind(its, e)) \subseteq ToSet(its)
  BY <1>1, LenProperties DEF ToSet
<1> QED BY <1>1, <1>2, SelectList DEF DueIn

(* Two lists of the same length.                                            *)
LEMMA DueSame ==
  ASSUME NEW its \in Seq(Entries), NEW e \in Enumerators, e.mIdx >= -1,
         NEW its2 \in Seq(Entries), NEW e2 \in Enumerators, NEW S,
         e2.mIdx = e.mIdx, Len(its2) = Len(its),
         \A i \in 1..Len(its) :
           \/ its[i] = its2[i] /\ (its[i] \in S <=> its[i] \in e2.since)
           \/ its[i] \notin S /\ its2[i] \notin e2.since
  PROVE  Select(Behind(its, e), S) = DueIn(its2, e2)
<1> DEFINE b == Behind(its, e)
<1> DEFINE c == Behind(its2, e2)
<1>1. /\ b \in Seq(Entries)
      /\ Len(b) = IF e.mIdx + 2 <= Len(its) THEN Len(its) - e.mIdx - 1 ELSE 0
      /\ \A i \in 1..Len(b) : /\ e.mIdx + 1 + i \in 1..Len(its)
                              /\ b[i] = its[e.mIdx + 1 + i]
  BY BehindList
<1>2. /\ c \in Seq(Entries)
      /\ Len(c) = IF e.mIdx + 2 <= Len(its) THEN Len(its) - e.mIdx - 1 ELSE 0
      /\ \A i \in 1..Len(c) : c[i] = its2[e.mIdx + 1 + i]
  <2>1. /\ c \in Seq(Entries)
        /\ Len(c) = IF e2.mIdx + 2 <= Len(its2) THEN Len(its2) - e2.mIdx - 1
                                                 ELSE 0
        /\ \A i \in 1..Len(c) : c[i] = its2[e2.mIdx + 1 + i]
    BY BehindList
  <2> QED BY <2>1
<1> HIDE DEF b, c
<1>3. Len(b) = Len(c)
  BY <1>1, <1>2
<1>4. \A i \in 1..Len(b) : \/ b[i] = c[i] /\ (b[i] \in S <=> b[i] \in e2.since)
                           \/ b[i] \notin S /\ c[i] \notin e2.since
  <2> SUFFICES ASSUME NEW i \in 1..Len(b)
               PROVE  \/ b[i] = c[i] /\ (b[i] \in S <=> b[i] \in e2.since)
                      \/ b[i] \notin S /\ c[i] \notin e2.since
    OBVIOUS
  <2> DEFINE j == e.mIdx + 1 + i
  <2>1. j \in 1..Len(its) /\ b[i] = its[j] /\ c[i] = its2[j]
    BY <1>1, <1>2, <1>3
  <2> HIDE DEF j
  <2> QED BY <2>1
<1>5. Select(b, S) = Select(c, e2.since)
  <2>1. b \in Seq(Entries) /\ c \in Seq(Entries)
    BY <1>1, <1>2
  <2> QED BY <1>3, <1>4, <2>1, SelectSame, SMTT(30)
<1> QED BY <1>5 DEF b, c, DueIn

(* A list of one entry.                                                     *)
LEMMA SelectSingle ==
  ASSUME NEW X, NEW x \in X, NEW S
  PROVE  Select(<<x>>, S) = IF x \in S THEN <<x>> ELSE <<>>
<1>1. PICK none \in Seq(X) : none = <<>>
  BY EmptySeq
<1>2. Append(none, x) = <<x>>
  BY <1>1
<1>3. Select(Append(none, x), S) =
        IF x \in S THEN Append(Select(none, S), x) ELSE Select(none, S)
  BY SelectAppend
<1> QED BY <1>1, <1>2, <1>3, SelectEmpty

LEMMA SelectFirst ==
  ASSUME NEW X, NEW x \in X, NEW s \in Seq(X), NEW S
  PROVE  Select(<<x>> \o s, S) = IF x \in S THEN <<x>> \o Select(s, S)
                                            ELSE Select(s, S)
<1>1. PICK one \in Seq(X) : one = <<x>>
  <2>1. <<x>> \in Seq(X)
    OBVIOUS
  <2> QED BY <2>1
<1>2. Select(one \o s, S) = Select(one, S) \o Select(s, S)
  BY SelectConcat
<1>3. <<>> \o Select(s, S) = Select(s, S)
  BY SelectList, ConcatEmptySeq
<1>4. CASE x \in S
  <2>1. Select(one, S) = one
    BY <1>1, <1>4, SelectSingle
  <2>2. Select(one \o s, S) = one \o Select(s, S)
    BY <1>2, <2>1
  <2> QED BY <1>1, <1>4, <2>2
<1>5. CASE x \notin S
  <2>1. Select(one, S) = <<>>
    BY <1>1, <1>5, SelectSingle
  <2>2. Select(one \o s, S) = Select(s, S)
    BY <1>2, <1>3, <2>1
  <2> QED BY <1>1, <1>5, <2>2
<1> QED BY <1>4, <1>5

(* A delegate that is added at the end is not one that has been there.      *)
LEMMA DueAppended ==
  ASSUME NEW its \in Seq(Entries), NEW e \in Enumerators, e.mIdx >= -1,
         NEW d \in Entries, d \notin e.since
  PROVE  DueIn(Append(its, d), e) = DueIn(its, e)
<1> DEFINE b == Behind(its, e)
<1> DEFINE more == Append(its, d)
<1>1. /\ more \in Seq(Entries) /\ Len(more) = Len(its) + 1
      /\ \A i \in 1..Len(its) : more[i] = its[i]
      /\ more[Len(its) + 1] = d
      /\ Len(its) \in Nat /\ e.mIdx \in Int
  BY AppendProperties, LenProperties DEF Enumerators
<1>2. /\ b \in Seq(Entries)
      /\ Len(b) = IF e.mIdx + 2 <= Len(its) THEN Len(its) - e.mIdx - 1 ELSE 0
      /\ \A i \in 1..Len(b) : b[i] = its[e.mIdx + 1 + i]
  BY BehindList
<1> HIDE DEF more
<1>3. /\ Behind(more, e) \in Seq(Entries)
      /\ Len(Behind(more, e)) =
           IF e.mIdx + 2 <= Len(its) + 1 THEN Len(its) - e.mIdx ELSE 0
      /\ \A i \in 1..Len(Behind(more, e)) :
           Behind(more, e)[i] = more[e.mIdx + 1 + i]
  <2>1. /\ Behind(more, e) \in Seq(Entries)
        /\ Len(Behind(more, e)) =
             IF e.mIdx + 2 <= Len(more) THEN Len(more) - e.mIdx - 1 ELSE 0
        /\ \A i \in 1..Len(Behind(more, e)) :
             Behind(more, e)[i] = more[e.mIdx + 1 + i]
    BY <1>1, BehindList
  <2>2. Len(more) - e.mIdx - 1 = Len(its) - e.mIdx
    BY <1>1
  <2> QED BY <1>1, <2>1, <2>2
<1> HIDE DEF b
<1>4. CASE e.mIdx + 2 <= Len(its) + 1
  <2>1. /\ Append(b, d) \in Seq(Entries) /\ Len(Append(b, d)) = Len(b) + 1
        /\ \A i \in 1..Len(b) : Append(b, d)[i] = b[i]
        /\ Append(b, d)[Len(b) + 1] = d
    BY <1>2, AppendProperties
  <2>2. Len(b) = Len(its) - e.mIdx - 1 /\ Len(b) \in Nat
    BY <1>1, <1>2, <1>4
  <2>3. Len(Behind(more, e)) = Len(Append(b, d))
    BY <1>1, <1>3, <1>4, <2>1, <2>2
  <2>4. \A i \in 1..Len(Behind(more, e)) : Behind(more, e)[i] = Append(b, d)[i]
    <3> SUFFICES ASSUME NEW i \in 1..Len(Behind(more, e))
                 PROVE  Behind(more, e)[i] = Append(b, d)[i]
      OBVIOUS
    <3>1. i \in 1..Len(b) \/ i = Len(b) + 1
      BY <2>1, <2>2, <2>3
    <3>2. Behind(more, e)[i] = more[e.mIdx + 1 + i]
      BY <1>3
    <3>3. CASE i \in 1..Len(b)
      <4> DEFINE m == e.mIdx
      <4>1. m \in Int /\ m >= -1 /\ Len(b) = Len(its) - m - 1
        BY <1>1, <2>2
      <4> HIDE DEF m
      <4>2. m + 1 + i \in 1..Len(its)
        BY <1>1, <3>3, <4>1
      <4>3. more[m + 1 + i] = its[m + 1 + i] /\ b[i] = its[m + 1 + i]
        BY <1>1, <1>2, <3>3, <4>2 DEF m
      <4> QED BY <2>1, <3>2, <3>3, <4>3 DEF m
    <3>4. CASE i = Len(b) + 1
      <4>1. e.mIdx + 1 + i = Len(its) + 1
        BY <1>1, <2>2, <3>4
      <4> QED BY <1>1, <2>1, <3>2, <3>4, <4>1
    <3> QED BY <3>1, <3>3, <3>4
  <2>5. Behind(more, e) = Append(b, d)
    BY <1>3, <2>1, <2>3, <2>4, SeqEqual
  <2>6. Select(Append(b, d), e.since) = Select(b, e.since)
    BY <1>2, SelectAppend
  <2> QED BY <2>5, <2>6 DEF DueIn, more, b
<1>5. CASE ~(e.mIdx + 2 <= Len(its) + 1)
  <2>1. Len(b) = 0 /\ Len(Behind(more, e)) = 0
    BY <1>1, <1>2, <1>3, <1>5
  <2>2. b = <<>> /\ Behind(more, e) = <<>>
    BY <1>2, <1>3, <2>1, EmptySeq
  <2> QED BY <2>2 DEF DueIn, more, b
<1> QED BY <1>4, <1>5

(* A delegate that is added to the front pushes one that has been passed    *)
(* behind the index again.                                                  *)
LEMMA DueAtFront ==
  ASSUME NEW its \in Seq(Entries), NEW e \in Enumerators, e.mIdx >= -1,
         NEW d \in Entries, d \notin e.since
  PROVE  \E again \in {<<>>} \cup {<<x>> : x \in ToSet(its) \cap e.since} :
           DueIn(<<d>> \o its, e) = again \o DueIn(its, e)
<1> DEFINE more == <<d>> \o its
<1> DEFINE n == e.mIdx + 2
<1>1. /\ more \in Seq(Entries) /\ Len(more) = Len(its) + 1
      /\ Len(its) \in Nat /\ n \in Int /\ n >= 1
      /\ <<d>> \in Seq(Entries) /\ Len(<<d>>) = 1
  BY ConcatProperties, LenProperties DEF Enumerators
<1>2. DueIn(its, e) \in Seq(Entries) /\ <<>> \o DueIn(its, e) = DueIn(its, e)
  BY DueList, ConcatEmptySeq
<1>3. /\ DueIn(its, e) = Select(SubSeq(its, n, Len(its)), e.since)
      /\ DueIn(more, e) = Select(SubSeq(more, n, Len(its) + 1), e.since)
  BY <1>1 DEF DueIn, Behind
<1> HIDE DEF n
<1>4. CASE n = 1
  <2>1. SubSeq(its, 1, Len(its)) = its /\ SubSeq(more, 1, Len(its) + 1) = more
    BY <1>1, SubSeqFull
  <2>2. Select(more, e.since) = Select(its, e.since)
    BY SelectFirst
  <2>3. DueIn(more, e) = DueIn(its, e)
    BY <1>3, <1>4, <2>1, <2>2
  <2> QED BY <1>2, <2>3
<1>5. CASE n > 1 /\ n <= Len(its) + 1
  <2>1. SubSeq(more, n, Len(its) + 1) = SubSeq(its, n - 1, Len(its))
    <3>1. /\ n \in Len(<<d>>) + 1..Len(<<d>>) + Len(its)
          /\ Len(its) + 1 \in Len(<<d>>) + 1..Len(<<d>>) + Len(its)
      BY <1>1, <1>5
    <3>2. SubSeq(more, n, Len(its) + 1) =
            SubSeq(its, n - Len(<<d>>), Len(its) + 1 - Len(<<d>>))
      BY <1>1, <3>1, SubSeqOfConcat2
    <3>3. n - Len(<<d>>) = n - 1 /\ Len(its) + 1 - Len(<<d>>) = Len(its)
      BY <1>1
    <3> QED BY <3>2, <3>3
  <2> DEFINE x == its[n - 1]
  <2>2. n - 1 \in 1..Len(its) /\ Len(its) \in n - 1..Len(its)
    BY <1>1, <1>5
  <2>3. /\ SubSeq(its, n - 1, Len(its)) =
             <<x>> \o SubSeq(its, n - 1 + 1, Len(its))
        /\ n - 1 + 1 = n
    BY <1>1, <2>2, SubSeqRecursiveFirst
  <2>4. x \in Entries /\ <<x>> \in Seq(Entries) /\ x \in ToSet(its)
    BY <2>2, ElementOfSeq, LenProperties DEF ToSet
  <2>5. SubSeq(its, n, Len(its)) \in Seq(Entries)
    <3>1. \A i \in n..Len(its) : its[i] \in Entries
      BY <1>1, ElementOfSeq
    <3> QED BY <1>1, <3>1, SubSeqProperties
  <2> HIDE DEF x, more
  <2>6. PICK rest \in Seq(Entries) : rest = SubSeq(its, n, Len(its))
    BY <2>5
  <2>7. Select(<<x>> \o rest, e.since) =
          IF x \in e.since THEN <<x>> \o Select(rest, e.since)
                           ELSE Select(rest, e.since)
    <3> DEFINE S == e.since
    <3>1. x \in Entries /\ rest \in Seq(Entries)
      BY <2>4, <2>6
    <3> HIDE DEF S
    <3>2. Select(<<x>> \o rest, S) = IF x \in S THEN <<x>> \o Select(rest, S)
                                              ELSE Select(rest, S)
      BY <3>1, SelectFirst
    <3> QED BY <3>2 DEF S
  <2>8. SubSeq(more, n, Len(its) + 1) = <<x>> \o rest
    BY <2>1, <2>3, <2>6
  <2>9. DueIn(more, e) = Select(<<x>> \o rest, e.since)
    BY <1>3, <2>8
  <2>10. DueIn(its, e) = Select(rest, e.since)
    BY <1>3, <2>6
  <2>11. DueIn(more, e) = IF x \in e.since THEN <<x>> \o DueIn(its, e)
                                           ELSE DueIn(its, e)
    BY <2>7, <2>9, <2>10
  <2> QED BY <1>2, <2>4, <2>11 DEF more
<1>6. CASE n > Len(its) + 1
  <2>1. SubSeq(its, n, Len(its)) = <<>> /\ SubSeq(more, n, Len(its) + 1) = <<>>
    BY <1>1, <1>6, SubSeqEmpty
  <2> HIDE DEF more
  <2>2. SubSeq(its, n, Len(its)) = SubSeq(more, n, Len(its) + 1)
    BY <2>1
  <2>3. DueIn(more, e) = DueIn(its, e)
    BY <1>3, <2>2
  <2> QED BY <1>2, <2>3 DEF more
<1>7. n = 1 \/ (n > 1 /\ n <= Len(its) + 1) \/ n > Len(its) + 1
  BY <1>1
<1> QED BY <1>4, <1>5, <1>6, <1>7, Zenon

(* An entry that is replaced by a hole is not due any more.                 *)
LEMMA DueRemoved ==
  ASSUME NEW its \in Seq(Entries), NEW e \in Enumerators, e.mIdx >= -1,
         NEW its2 \in Seq(Entries), NEW e2 \in Enumerators, NEW d \in Delegates,
         e2.mIdx = e.mIdx, e2.since = e.since \ {d}, Len(its2) = Len(its),
         \A i \in 1..Len(its) :
           its[i] = its2[i] \/ (its[i] = d /\ its2[i] = Null)
  PROVE  DueIn(its2, e2) = Select(DueIn(its, e), Delegates \ {d})
<1>1. e.since \subseteq Delegates /\ Null \notin Delegates
  BY EventAssumption DEF Enumerators
<1> DEFINE S == e.since \cap (Delegates \ {d})
<1>2. S = e2.since /\ d \notin S /\ Null \notin S
  BY <1>1
<1>3. Behind(its, e) \in Seq(Entries)
  BY BehindList
<1>4. Select(DueIn(its, e), Delegates \ {d}) = Select(Behind(its, e), S)
  BY <1>3, SelectSelect DEF DueIn
<1> HIDE DEF S
<1>5. \A i \in 1..Len(its) :
        \/ its[i] = its2[i] /\ (its[i] \in S <=> its[i] \in e2.since)
        \/ its[i] \notin S /\ its2[i] \notin e2.since
  BY <1>2
<1>6. Select(Behind(its, e), S) = DueIn(its2, e2)
  BY <1>5, DueSame
<1> QED BY <1>4, <1>6

(* The next entry that is no hole is the one that is due, if it was there   *)
(* when the invocation began.                                               *)
LEMMA DueNext ==
  ASSUME NEW its \in Seq(Entries), NEW e \in Enumerators, e.mIdx >= -1,
         NEW i \in 1..Len(its), i > e.mIdx + 1,
         \A j \in 1..Len(its) : e.mIdx + 1 < j /\ j < i => its[j] = Null,
         NEW e2 \in Enumerators, e2.mIdx = i - 1, e2.since = e.since
  PROVE  DueIn(its, e) = IF its[i] \in e.since THEN <<its[i]>> \o DueIn(its, e2)
                                               ELSE DueIn(its, e2)
<1> DEFINE n == e.mIdx + 2
<1> DEFINE x == its[i]
<1> DEFINE S == e.since
<1> DEFINE skipped == SubSeq(its, n, i - 1)
<1> DEFINE rest == SubSeq(its, i + 1, Len(its))
<1>1. /\ Len(its) \in Nat /\ n \in Int /\ n >= 1 /\ i \in 1..Len(its) /\ n <= i
      /\ \A j \in 1..Len(its) : n <= j /\ j < i => its[j] = Null
  BY LenProperties DEF Enumerators
<1>2. /\ DueIn(its, e) = Select(SubSeq(its, n, Len(its)), S)
      /\ DueIn(its, e2) = Select(rest, S)
  <2>1. i - 1 + 2 = i + 1
    BY <1>1
  <2> QED BY <2>1 DEF DueIn, Behind
<1> HIDE DEF n
<1>3. \A j \in 1..Len(its) : its[j] \in Entries
  BY ElementOfSeq
<1>4. SubSeq(its, n, Len(its)) = skipped \o SubSeq(its, i, Len(its))
  <2>1. /\ n \in 1..Len(its) + 1 /\ i - 1 \in n - 1..Len(its)
        /\ Len(its) \in i - 1..Len(its) /\ i - 1 + 1 = i
    BY <1>1
  <2>2. SubSeq(its, n, i - 1) \o SubSeq(its, i - 1 + 1, Len(its)) =
          SubSeq(its, n, Len(its))
    BY <2>1, ConcatAdjacentSubSeq
  <2> QED BY <2>1, <2>2
<1>5. SubSeq(its, i, Len(its)) = <<x>> \o rest
  <2>1. Len(its) \in i..Len(its)
    BY <1>1
  <2> QED BY <2>1, SubSeqRecursiveFirst
<1>6. skipped \in Seq(Entries) /\ ToSet(skipped) \subseteq {Null}
  <2>1. \A j \in n..i - 1 : j \in 1..Len(its) /\ its[j] = Null
    BY <1>1
  <2>2. n \in Int /\ i - 1 \in Int /\ \A j \in n..i - 1 : its[j] \in {Null}
    BY <1>1, <2>1
  <2>3. skipped \in Seq({Null})
    BY <2>2, SubSeqProperties
  <2>4. ToSet(skipped) \subseteq {Null}
    BY <2>3, LenProperties, ElementOfSeq DEF ToSet
  <2>5. {Null} \subseteq Entries
    BY DEF Entries
  <2> QED BY <2>3, <2>4, <2>5, SeqMonotonic
<1>7. rest \in Seq(Entries)
  <2>1. i + 1 \in Int /\ Len(its) \in Int
        /\ \A j \in i + 1..Len(its) : its[j] \in Entries
    BY <1>1, <1>3
  <2> QED BY <2>1, SubSeqProperties
<1>8. x \in Entries /\ <<x>> \in Seq(Entries)
  BY <1>3
<1> HIDE DEF x, skipped, rest
<1>9. S \subseteq Delegates /\ Null \notin S
  BY EventAssumption DEF Enumerators
<1> HIDE DEF S
<1>10. Select(skipped, S) = <<>>
  BY <1>6, <1>9, SelectNothing
<1>11. Select(<<x>> \o rest, S) = IF x \in S THEN <<x>> \o Select(rest, S)
                                              ELSE Select(rest, S)
  BY <1>7, <1>8, SelectFirst
<1> DEFINE tail == <<x>> \o rest
<1>12. tail \in Seq(Entries)
  BY <1>7, <1>8, ConcatProperties
<1>13. SubSeq(its, n, Len(its)) = skipped \o tail
  BY <1>4, <1>5
<1> HIDE DEF tail
<1>14. Select(skipped \o tail, S) = Select(tail, S)
  <2>1. Select(skipped \o tail, S) = Select(skipped, S) \o Select(tail, S)
    BY <1>6, <1>12, SelectConcat
  <2>2. <<>> \o Select(tail, S) = Select(tail, S)
    BY <1>12, SelectList, ConcatEmptySeq
  <2> QED BY <1>10, <2>1, <2>2
<1>15. DueIn(its, e) = Select(tail, S)
  BY <1>2, <1>13, <1>14
<1> QED BY <1>2, <1>11, <1>15 DEF tail, x, S

(* Nothing is due when only holes are left.                                 *)
LEMMA DueEnded ==
  ASSUME NEW its \in Seq(Entries), NEW e \in Enumerators, e.mIdx >= -1,
         \A j \in 1..Len(its) : j > e.mIdx + 1 => its[j] = Null
  PROVE  DueIn(its, e) = <<>>
<1>1. /\ Behind(its, e) \in Seq(Entries)
      /\ \A i \in 1..Len(Behind(its, e)) :
           /\ e.mIdx + 1 + i \in 1..Len(its)
           /\ Behind(its, e)[i] = its[e.mIdx + 1 + i]
  BY BehindList
<1>2. \A i \in 1..Len(Behind(its, e)) : Behind(its, e)[i] = Null
  <2>1. e.mIdx \in Int
    BY DEF Enumerators
  <2>2. \A i \in 1..Len(Behind(its, e)) : e.mIdx + 1 + i > e.mIdx + 1
    BY <2>1
  <2> QED BY <1>1, <2>2
<1>3. ToSet(Behind(its, e)) \cap e.since = {}
  BY <1>1, <1>2, LenProperties, EventAssumption DEF ToSet, Enumerators
<1> QED BY <1>1, <1>3, SelectNothing DEF DueIn

(* The invocations are a list.                                              *)
Invocation == [due : Seq(Entries), called : SUBSET Delegates]

LEMMA InvocationsList ==
  ASSUME NEW its \in Seq(Entries), NEW es \in Seq(Enumerators),
         \A k \in 1..Len(es) : es[k].mIdx >= -1
  PROVE  /\ InvocationsIn(its, es) \in Seq(Invocation)
         /\ Len(InvocationsIn(its, es)) = Len(es)
         /\ DOMAIN InvocationsIn(its, es) = 1..Len(es) /\ DOMAIN es = 1..Len(es)
         /\ \A k \in 1..Len(es) :
              /\ InvocationsIn(its, es)[k].due = DueIn(its, es[k])
              /\ InvocationsIn(its, es)[k].called = es[k].called
<1>1. Len(es) \in Nat /\ DOMAIN es = 1..Len(es)
  BY LenProperties
<1>2. \A k \in 1..Len(es) : es[k] \in Enumerators
  BY ElementOfSeq
<1>3. \A k \in 1..Len(es) :
        DueIn(its, es[k]) \in Seq(Entries) /\ es[k].called \subseteq Delegates
  BY <1>2, DueList DEF Enumerators
<1>4. InvocationsIn(its, es) \in [1..Len(es) -> Invocation]
  BY <1>1, <1>3 DEF InvocationsIn, Invocation
<1> QED BY <1>1, <1>4, FunctionIsSeq DEF InvocationsIn


(***************************************************************************)
(* Lists that are removed from, and enumerators that forget.               *)
(***************************************************************************)

(* The entries that are in S occur once.                                    *)
Distinct(s, S) ==
  \A i, k \in 1..Len(s) : s[i] = s[k] /\ s[i] \in S => i = k

(* Selecting all of it.                                                     *)
LEMMA SelectAll ==
  ASSUME NEW X, NEW s \in Seq(X), NEW S, ToSet(s) \subseteq S
  PROVE  Select(s, S) = s
<1> DEFINE Good == {u \in Seq(X) : ToSet(u) \subseteq S => Select(u, S) = u}
<1>1. <<>> \in Good
  BY EmptySeq, SelectEmpty
<1>2. ASSUME NEW u \in Seq(X), NEW x \in X, u \in Good
      PROVE  Append(u, x) \in Good
  BY <1>2, AppendSet, SelectAppend
<1> HIDE DEF Good
<1>3. s \in Good
  BY <1>1, <1>2, ListInduction
<1> QED BY <1>3 DEF Good

(* What is selected from a list without doubles has no doubles.             *)
LEMMA SelectDistinct ==
  ASSUME NEW X, NEW s \in Seq(X), NEW S, Distinct(s, S)
  PROVE  Distinct(Select(s, S), S)
<1> DEFINE Good ==
      {u \in Seq(X) : Distinct(u, S) => Distinct(Select(u, S), S)}
<1>1. <<>> \in Good
  <2>1. <<>> \in Seq(X) /\ Len(<<>>) = 0
    BY EmptySeq
  <2>2. Distinct(<<>>, S)
    BY <2>1 DEF Distinct
  <2> QED BY <2>1, <2>2, SelectEmpty
<1>2. ASSUME NEW u \in Seq(X), NEW x \in X, u \in Good
      PROVE  Append(u, x) \in Good
  <2> DEFINE v == Append(u, x)
  <2>1. /\ v \in Seq(X) /\ Len(v) = Len(u) + 1 /\ Len(u) \in Nat
        /\ \A i \in 1..Len(u) : v[i] = u[i]
        /\ v[Len(u) + 1] = x
    BY AppendProperties, LenProperties
  <2> SUFFICES ASSUME Distinct(v, S)
               PROVE  Distinct(Select(v, S), S)
    BY <2>1
  <2>2. /\ Select(u, S) \in Seq(X) /\ ToSet(Select(u, S)) = ToSet(u) \cap S
        /\ Select(v, S) = IF x \in S THEN Append(Select(u, S), x)
                                     ELSE Select(u, S)
    BY SelectList, SelectAppend
  <2> HIDE DEF v
  <2>3. Distinct(u, S)
    <3> SUFFICES ASSUME NEW i \in 1..Len(u), NEW k \in 1..Len(u),
                        u[i] = u[k], u[i] \in S
                 PROVE  i = k
      BY DEF Distinct
    <3>1. i \in 1..Len(v) /\ k \in 1..Len(v) /\ v[i] = v[k] /\ v[i] \in S
      BY <2>1
    <3> QED BY <3>1 DEF Distinct
  <2>4. Distinct(Select(u, S), S)
    BY <1>2, <2>3
  <2>5. CASE x \in S
    <3> DEFINE w == Select(u, S)
    <3>1. x \notin ToSet(u)
      <4> SUFFICES ASSUME NEW i \in 1..Len(u), u[i] = x
                   PROVE  FALSE
        BY LenProperties DEF ToSet
      <4>1. i \in 1..Len(v) /\ Len(u) + 1 \in 1..Len(v) /\ i # Len(u) + 1
        BY <2>1
      <4> QED BY <2>1, <2>5, <4>1 DEF Distinct
    <3>2. w \in Seq(X) /\ x \notin ToSet(w) /\ Distinct(w, S)
      BY <2>2, <2>4, <3>1
    <3> HIDE DEF w
    <3>3. /\ Append(w, x) \in Seq(X) /\ Len(Append(w, x)) = Len(w) + 1
          /\ Len(w) \in Nat /\ DOMAIN w = 1..Len(w)
          /\ \A i \in 1..Len(w) : Append(w, x)[i] = w[i]
          /\ Append(w, x)[Len(w) + 1] = x
      BY <3>2, AppendProperties, LenProperties
    <3>4. \A i \in 1..Len(w) : w[i] # x
      BY <3>2, <3>3 DEF ToSet
    <3>5. Distinct(Append(w, x), S)
      <4> SUFFICES ASSUME NEW i \in 1..Len(w) + 1, NEW k \in 1..Len(w) + 1,
                          Append(w, x)[i] = Append(w, x)[k],
                          Append(w, x)[i] \in S
                   PROVE  i = k
        BY <3>3 DEF Distinct
      <4>1. \A j \in 1..Len(w) + 1 : j \in 1..Len(w) \/ j = Len(w) + 1
        BY <3>3
      <4> QED BY <3>2, <3>3, <3>4, <4>1 DEF Distinct
    <3>6. Select(v, S) = Append(w, x)
      BY <2>2, <2>5 DEF w
    <3> QED BY <3>5, <3>6
  <2>6. CASE x \notin S
    BY <2>2, <2>4, <2>6
  <2> QED BY <2>5, <2>6
<1> HIDE DEF Good
<1>3. s \in Good
  BY <1>1, <1>2, ListInduction
<1> QED BY <1>3 DEF Good

(* An entry that is taken out of the list.                                  *)
LEMMA RemovedList ==
  ASSUME NEW its \in Seq(Entries), NEW i \in 1..Len(its)
  PROVE  /\ RemoveAt(its, i) \in Seq(Entries)
         /\ Len(RemoveAt(its, i)) = Len(its) - 1
         /\ \A k \in 1..Len(its) - 1 :
              RemoveAt(its, i)[k] = IF k < i THEN its[k] ELSE its[k + 1]
<1> DEFINE front == SubSeq(its, 1, i - 1)
<1> DEFINE rest == SubSeq(its, i + 1, Len(its))
<1>1. Len(its) \in Nat /\ i \in 1..Len(its)
  BY LenProperties
<1>2. \A k \in 1..Len(its) : its[k] \in Entries
  BY ElementOfSeq
<1>3. /\ front \in Seq(Entries) /\ Len(front) = i - 1
      /\ \A k \in 1..i - 1 : front[k] = its[k]
  <2>1. 1 \in Int /\ i - 1 \in Int /\ \A k \in 1..i - 1 : its[k] \in Entries
    BY <1>1, <1>2
  <2>2. /\ front \in Seq(Entries)
        /\ Len(front) = IF 1 <= i - 1 THEN i - 1 - 1 + 1 ELSE 0
        /\ \A k \in 1..i - 1 - 1 + 1 : front[k] = its[1 + k - 1]
    BY <2>1, SubSeqProperties
  <2> HIDE DEF front
  <2>3. Len(front) = i - 1 /\ i - 1 - 1 + 1 = i - 1
    BY <1>1, <2>2
  <2>4. \A k \in 1..i - 1 : front[k] = its[k]
    <3> SUFFICES ASSUME NEW k \in 1..i - 1
                 PROVE  front[k] = its[k]
      OBVIOUS
    <3>1. 1 + k - 1 = k
      OBVIOUS
    <3> QED BY <2>2, <2>3, <3>1
  <2> QED BY <2>2, <2>3, <2>4
<1>4. /\ rest \in Seq(Entries) /\ Len(rest) = Len(its) - i
      /\ \A k \in 1..Len(its) - i : rest[k] = its[i + k]
  <2>1. /\ i + 1 \in Int /\ Len(its) \in Int
        /\ \A k \in i + 1..Len(its) : its[k] \in Entries
    BY <1>1, <1>2
  <2>2. /\ rest \in Seq(Entries)
        /\ Len(rest) = IF i + 1 <= Len(its) THEN Len(its) - (i + 1) + 1 ELSE 0
        /\ \A k \in 1..Len(its) - (i + 1) + 1 : rest[k] = its[i + 1 + k - 1]
    BY <2>1, SubSeqProperties
  <2> HIDE DEF rest
  <2>3. Len(rest) = Len(its) - i /\ Len(its) - (i + 1) + 1 = Len(its) - i
    BY <1>1, <2>2
  <2>4. \A k \in 1..Len(its) - i : rest[k] = its[i + k]
    <3> SUFFICES ASSUME NEW k \in 1..Len(its) - i
                 PROVE  rest[k] = its[i + k]
      OBVIOUS
    <3>1. i + 1 + k - 1 = i + k
      BY <1>1
    <3> QED BY <2>2, <2>3, <3>1
  <2> QED BY <2>2, <2>3, <2>4
<1>5. RemoveAt(its, i) = front \o rest
  BY DEF RemoveAt
<1> HIDE DEF front, rest
<1>6. /\ front \o rest \in Seq(Entries)
      /\ Len(front \o rest) = Len(front) + Len(rest)
      /\ \A k \in 1..Len(front) + Len(rest) :
           (front \o rest)[k] = IF k <= Len(front) THEN front[k]
                                                   ELSE rest[k - Len(front)]
  BY <1>3, <1>4, ConcatProperties
<1>7. Len(front) + Len(rest) = Len(its) - 1
  BY <1>1, <1>3, <1>4
<1>8. ASSUME NEW k \in 1..Len(its) - 1
      PROVE  (front \o rest)[k] = IF k < i THEN its[k] ELSE its[k + 1]
  <2>1. CASE k < i
    <3>1. k \in 1..i - 1
      BY <2>1
    <3> QED BY <1>3, <1>6, <1>7, <2>1, <3>1
  <2>2. CASE ~(k < i)
    <3>1. k - (i - 1) \in 1..Len(its) - i /\ i + (k - (i - 1)) = k + 1
      BY <1>1, <2>2
    <3>2. ~(k <= i - 1)
      BY <1>1, <2>2
    <3> QED BY <1>3, <1>4, <1>6, <1>7, <2>2, <3>1, <3>2
  <2> QED BY <2>1, <2>2
<1> QED BY <1>5, <1>6, <1>7, <1>8

(* Parts that are selected alike.                                           *)
LEMMA SelectParts ==
  ASSUME NEW X, NEW front \in Seq(X), NEW rest \in Seq(X), NEW tail \in Seq(X),
         NEW S, NEW R
  PROVE  (/\ Select(front, R) = Select(front, S)
          /\ Select(tail, R) = Select(rest, S))
         => Select(front \o tail, R) = Select(front \o rest, S)
<1>1. Select(front \o tail, R) = Select(front, R) \o Select(tail, R)
  BY SelectConcat
<1>2. Select(front \o rest, S) = Select(front, S) \o Select(rest, S)
  BY SelectConcat
<1> QED BY <1>1, <1>2

(* An entry that is not in the list may be selected or not.                 *)
LEMMA SelectOthers ==
  ASSUME NEW X, NEW t \in Seq(X), NEW S, NEW x, x \notin ToSet(t)
  PROVE  Select(t, S \ {x}) = Select(t, S)
<1> DEFINE R == S \ {x}
<1>1. \A k \in 1..Len(t) : t[k] \in R <=> t[k] \in S
  BY LenProperties DEF ToSet
<1> HIDE DEF R
<1>2. Select(t, R) = Select(t, S)
  BY <1>1, SelectSame
<1> QED BY <1>2 DEF R

(* An entry that is not in front and rest is taken out between them.        *)
LEMMA MiddleRemoved ==
  ASSUME NEW X, NEW front \in Seq(X), NEW rest \in Seq(X), NEW tail \in Seq(X),
         NEW x \in X, NEW S
  PROVE  /\ x \notin ToSet(front) /\ x \notin ToSet(rest)
         /\ Select(tail, S \ {x}) = Select(rest, S \ {x})
         => Select(front \o rest, S) = Select(Select(front \o tail, S), S \ {x})
<1> DEFINE R == S \ {x}
<1>0. SUFFICES ASSUME x \notin ToSet(front), x \notin ToSet(rest),
                      Select(tail, R) = Select(rest, R)
               PROVE  Select(front \o rest, S)
                        = Select(Select(front \o tail, S), R)
  OBVIOUS
<1>1. Select(front, R) = Select(front, S) /\ Select(rest, R) = Select(rest, S)
  BY <1>0, SelectOthers
<1>2. PICK all \in Seq(X) : all = front \o tail
  BY ConcatProperties
<1>3. Select(Select(all, S), R) = Select(all, R)
  <2>1. S \cap R = R
    OBVIOUS
  <2> HIDE DEF R
  <2> QED BY <2>1, SelectSelect
<1> HIDE DEF R
<1>4. Select(front \o tail, R) = Select(front \o rest, S)
  BY <1>0, <1>1, SelectParts
<1> QED BY <1>2, <1>3, <1>4 DEF R

(* It is taken out of the delegates that are there.                         *)
LEMMA RemovedSelect ==
  ASSUME NEW its \in Seq(Entries), NEW i \in 1..Len(its),
         Distinct(its, Delegates), its[i] \in Delegates
  PROVE  Select(RemoveAt(its, i), Delegates) =
           Select(Select(its, Delegates), Delegates \ {its[i]})
<1>1. Len(its) \in Nat /\ i \in 1..Len(its)
  BY LenProperties
<1>3. \A k \in 1..Len(its) : its[k] \in Entries
  BY ElementOfSeq
<1>4. PICK front \in Seq(Entries) : front = SubSeq(its, 1, i - 1)
  <2>1. 1 \in Int /\ i - 1 \in Int /\ \A k \in 1..i - 1 : its[k] \in Entries
    BY <1>1, <1>3
  <2> QED BY <2>1, SubSeqProperties
<1>5. PICK rest \in Seq(Entries) : rest = SubSeq(its, i + 1, Len(its))
  <2>1. /\ i + 1 \in Int /\ Len(its) \in Int
        /\ \A k \in i + 1..Len(its) : its[k] \in Entries
    BY <1>1, <1>3
  <2> QED BY <2>1, SubSeqProperties
<1>7. its = front \o (<<its[i]>> \o rest)
  <2>1. 1 \in 1..Len(its) + 1 /\ i - 1 \in 1 - 1..Len(its)
        /\ Len(its) \in i - 1..Len(its) /\ i - 1 + 1 = i
    BY <1>1
  <2>2. SubSeq(its, 1, i - 1) \o SubSeq(its, i - 1 + 1, Len(its)) =
          SubSeq(its, 1, Len(its))
    BY <2>1, ConcatAdjacentSubSeq
  <2>3. SubSeq(its, 1, Len(its)) = its
    BY SubSeqFull
  <2>4. Len(its) \in i..Len(its)
    BY <1>1
  <2>5. SubSeq(its, i, Len(its)) = <<its[i]>> \o SubSeq(its, i + 1, Len(its))
    BY <2>4, SubSeqRecursiveFirst
  <2> QED BY <1>4, <1>5, <2>1, <2>2, <2>3, <2>5
<1>8. RemoveAt(its, i) = front \o rest
  BY <1>4, <1>5 DEF RemoveAt
<1>10. \A k \in 1..Len(its) : its[k] = its[i] => k = i
  BY <1>1 DEF Distinct
<1>11. its[i] \notin ToSet(front) /\ its[i] \notin ToSet(rest)
  <2>1. \A k \in 1..Len(front) : k \in 1..i - 1 /\ front[k] = its[k]
    <3>1. 1 \in Int /\ i - 1 \in Int /\ \A k \in 1..i - 1 : its[k] \in Entries
      BY <1>1, <1>3
    <3>2. /\ Len(front) = IF 1 <= i - 1 THEN i - 1 - 1 + 1 ELSE 0
          /\ \A k \in 1..i - 1 - 1 + 1 : front[k] = its[1 + k - 1]
      BY <1>4, <3>1, SubSeqProperties
    <3> SUFFICES ASSUME NEW k \in 1..Len(front)
                 PROVE  k \in 1..i - 1 /\ front[k] = its[k]
      OBVIOUS
    <3>3. k \in 1..i - 1 /\ 1 + k - 1 = k
      BY <1>1, <3>2
    <3>4. k \in 1..i - 1 - 1 + 1
      BY <1>1, <3>3
    <3> QED BY <3>2, <3>3, <3>4
  <2>2. \A k \in 1..Len(rest) : \E j \in i + 1..Len(its) : rest[k] = its[j]
    <3>1. /\ i + 1 \in Int /\ Len(its) \in Int
          /\ \A k \in i + 1..Len(its) : its[k] \in Entries
      BY <1>1, <1>3
    <3>2. /\ Len(rest) = IF i + 1 <= Len(its) THEN Len(its) - (i + 1) + 1 ELSE 0
          /\ \A k \in 1..Len(its) - (i + 1) + 1 : rest[k] = its[i + 1 + k - 1]
      BY <1>5, <3>1, SubSeqProperties
    <3> SUFFICES ASSUME NEW k \in 1..Len(rest)
                 PROVE  \E j \in i + 1..Len(its) : rest[k] = its[j]
      OBVIOUS
    <3>3. k \in 1..Len(its) - (i + 1) + 1 /\ i + 1 + k - 1 \in i + 1..Len(its)
      BY <1>1, <3>2
    <3> QED BY <3>2, <3>3
  <2>3. DOMAIN front = 1..Len(front) /\ DOMAIN rest = 1..Len(rest)
    BY LenProperties
  <2>4. i \notin 1..i - 1 /\ i \notin i + 1..Len(its)
    BY <1>1
  <2>5. 1..i - 1 \subseteq 1..Len(its) /\ i + 1..Len(its) \subseteq 1..Len(its)
    BY <1>1
  <2> QED BY <1>10, <2>1, <2>2, <2>3, <2>4, <2>5 DEF ToSet
<1>12. PICK tail \in Seq(Entries) : tail = <<its[i]>> \o rest
  <2>1. <<its[i]>> \in Seq(Entries)
    BY <1>3
  <2> QED BY <2>1, ConcatProperties
<1> DEFINE x == its[i]
<1> DEFINE R == Delegates \ {x}
<1>13. Select(tail, R) = Select(rest, R)
  <2>1. x \notin R /\ x \in Entries
    BY <1>3
  <2> HIDE DEF R, x
  <2> QED BY <1>12, <2>1, SelectFirst DEF x
<1>14. x \in Entries /\ x \notin ToSet(front) /\ x \notin ToSet(rest)
  BY <1>3, <1>11
<1> HIDE DEF x
<1>15. Select(front \o rest, Delegates)
         = Select(Select(front \o tail, Delegates), R)
  BY <1>13, <1>14, MiddleRemoved
<1> QED BY <1>7, <1>8, <1>12, <1>15 DEF x

(* What is behind an enumerator's index has not been passed.                *)
LEMMA DueIsBehind ==
  ASSUME NEW its \in Seq(Entries), NEW e \in Enumerators, e.mIdx >= -1,
         NEW i \in 1..Len(its), i <= e.mIdx + 1,
         Distinct(its, Delegates), its[i] \in Delegates
  PROVE  its[i] \notin ToSet(DueIn(its, e))
<1>1. /\ Behind(its, e) \in Seq(Entries)
      /\ \A k \in 1..Len(Behind(its, e)) :
           /\ e.mIdx + 1 + k \in 1..Len(its)
           /\ Behind(its, e)[k] = its[e.mIdx + 1 + k]
  BY BehindList
<1>2. ASSUME NEW k \in 1..Len(Behind(its, e)), Behind(its, e)[k] = its[i]
      PROVE  FALSE
  <2>1. e.mIdx + 1 + k = i
    BY <1>1, <1>2 DEF Distinct
  <2>2. e.mIdx \in Int
    BY DEF Enumerators
  <2> QED BY <2>1, <2>2
<1>3. its[i] \notin ToSet(Behind(its, e))
  BY <1>1, <1>2, LenProperties DEF ToSet
<1>4. ToSet(DueIn(its, e)) \subseteq ToSet(Behind(its, e))
  BY <1>1, SelectList DEF DueIn
<1> QED BY <1>3, <1>4

(* Enumerators that forget delegates.                                       *)
Forgotten(es, ds) ==
  [k \in DOMAIN es |-> [es[k] EXCEPT !.since = @ \ ds, !.called = @ \ ds]]

LEMMA ForgottenList ==
  ASSUME NEW es \in Seq(Enumerators), NEW ds
  PROVE  /\ Forgotten(es, ds) \in Seq(Enumerators)
         /\ Len(Forgotten(es, ds)) = Len(es)
         /\ \A k \in 1..Len(es) :
              /\ Forgotten(es, ds)[k].mIdx = es[k].mIdx
              /\ Forgotten(es, ds)[k].since = es[k].since \ ds
              /\ Forgotten(es, ds)[k].called = es[k].called \ ds
<1>1. Len(es) \in Nat /\ DOMAIN es = 1..Len(es)
  BY LenProperties
<1>2. \A k \in 1..Len(es) : es[k] \in Enumerators
  BY ElementOfSeq
<1>3. ASSUME NEW e \in Enumerators, NEW f,
             f = [e EXCEPT !.since = @ \ ds, !.called = @ \ ds]
      PROVE  /\ f \in Enumerators /\ f.mIdx = e.mIdx
             /\ f.since = e.since \ ds /\ f.called = e.called \ ds
  BY <1>3 DEF Enumerators
<1>4. ASSUME NEW k \in 1..Len(es)
      PROVE  /\ Forgotten(es, ds)[k] \in Enumerators
             /\ Forgotten(es, ds)[k].mIdx = es[k].mIdx
             /\ Forgotten(es, ds)[k].since = es[k].since \ ds
             /\ Forgotten(es, ds)[k].called = es[k].called \ ds
  BY <1>1, <1>2, <1>3 DEF Forgotten
<1>5. Forgotten(es, ds) \in [1..Len(es) -> Enumerators]
  BY <1>1, <1>4 DEF Forgotten
<1>6. Forgotten(es, ds) \in Seq(Enumerators) /\ Len(Forgotten(es, ds)) = Len(es)
  BY <1>1, <1>5, FunctionIsSeq
<1> QED BY <1>4, <1>6

(* Enumerators whose calls do not count any more.                           *)
LEMMA UncalledList ==
  ASSUME NEW es \in Seq(Enumerators),
         NEW es2, es2 = [k \in DOMAIN es |-> [es[k] EXCEPT !.called = {}]]
  PROVE  /\ es2 \in Seq(Enumerators) /\ Len(es2) = Len(es)
         /\ \A k \in 1..Len(es) :
              /\ es2[k].mIdx = es[k].mIdx /\ es2[k].since = es[k].since
              /\ es2[k].called = {}
<1>1. Len(es) \in Nat /\ DOMAIN es = 1..Len(es)
  BY LenProperties
<1>2. \A k \in 1..Len(es) : es[k] \in Enumerators
  BY ElementOfSeq
<1>3. ASSUME NEW e \in Enumerators, NEW f, f = [e EXCEPT !.called = {}]
      PROVE  /\ f \in Enumerators /\ f.mIdx = e.mIdx
             /\ f.since = e.since /\ f.called = {}
  BY <1>3 DEF Enumerators
<1>4. ASSUME NEW k \in 1..Len(es)
      PROVE  /\ es2[k] \in Enumerators
             /\ es2[k].mIdx = es[k].mIdx
             /\ es2[k].since = es[k].since /\ es2[k].called = {}
  BY <1>1, <1>2, <1>3
<1>5. es2 \in [1..Len(es) -> Enumerators]
  BY <1>1, <1>4
<1>6. es2 \in Seq(Enumerators) /\ Len(es2) = Len(es)
  BY <1>1, <1>5, FunctionIsSeq
<1> QED BY <1>4, <1>6

(***************************************************************************)
(* The inductive invariant.                                                *)
(***************************************************************************)

(* A hole is a removal that the outermost enumerator will clean up after,   *)
(* and the list stays a list until then, unless the event is disposed.      *)
ListInv ==
  /\ Distinct(items, Delegates)
  /\ kind = "null" <=> items = <<>>
  /\ kind = "one" => Len(items) = 1
  /\ Null \in ToSet(items) => hadEnumRemoves /\ kind = "list"
  /\ hadEnumRemoves => IsEnumerating /\ (kind = "list" \/ disposed)
  /\ crashed => disposed

(* An enumerator's delegates are in the list; those it has called, not      *)
(* behind its index.                                                        *)
CalledUpTo(its, e, x) == \E j \in 1..Len(its) : j <= e.mIdx + 1 /\ its[j] = x

EnumeratorOK(its, e) ==
  /\ e.mIdx >= -1
  /\ e.since \subseteq ToSet(its)
  /\ \A x \in e.called : CalledUpTo(its, e, x)

EnumeratorInv ==
  \A k \in 1..Len(enumerators) : EnumeratorOK(items, enumerators[k])

EventInv == TypeOK /\ ListInv /\ EnumeratorInv

LEMMA StateLists ==
  ASSUME TypeOK
  PROVE  /\ items \in Seq(Entries) /\ enumerators \in Seq(Enumerators)
         /\ Len(items) \in Nat /\ DOMAIN items = 1..Len(items)
         /\ \A i \in 1..Len(items) : items[i] \in Entries
         /\ Len(enumerators) \in Nat /\ DOMAIN enumerators = 1..Len(enumerators)
         /\ \A k \in 1..Len(enumerators) : enumerators[k] \in Enumerators
         /\ IsEnumerating <=> Len(enumerators) # 0
<1>1. items \in Seq(Entries) /\ enumerators \in Seq(Enumerators)
  BY DEF TypeOK, Entries, Enumerators
<1>2. enumerators = <<>> <=> Len(enumerators) = 0
  BY <1>1, EmptySeq
<1> QED BY <1>1, <1>2, LenProperties, ElementOfSeq DEF IsEnumerating

(* The list changes and the enumerators are what they were, have forgotten  *)
(* delegates, or have forgotten what they called.                           *)
LEMMA AppendedOK ==
  ASSUME NEW its \in Seq(Entries), NEW d \in Entries, NEW e,
         EnumeratorOK(its, e)
  PROVE  EnumeratorOK(Append(its, d), e)
<1>1. /\ Len(Append(its, d)) = Len(its) + 1 /\ Len(its) \in Nat
      /\ \A i \in 1..Len(its) : Append(its, d)[i] = its[i]
      /\ ToSet(Append(its, d)) = ToSet(its) \cup {d}
  BY AppendProperties, AppendSet, LenProperties
<1>2. \A i \in 1..Len(its) : i \in 1..Len(Append(its, d))
  BY <1>1
<1> QED BY <1>1, <1>2 DEF EnumeratorOK, CalledUpTo

LEMMA HoledOK ==
  ASSUME NEW its \in Seq(Entries), NEW i \in 1..Len(its), NEW e, NEW e2,
         EnumeratorOK(its, e), e2.mIdx = e.mIdx,
         e2.since = e.since \ {its[i]}, e2.called = e.called \ {its[i]}
  PROVE  EnumeratorOK([its EXCEPT ![i] = Null], e2)
<1> DEFINE its2 == [its EXCEPT ![i] = Null]
<1>1. /\ its2 \in Seq(Entries) /\ Len(its2) = Len(its) /\ Len(its) \in Nat
      /\ \A j \in 1..Len(its) : its2[j] = IF j = i THEN Null ELSE its[j]
      /\ DOMAIN its = 1..Len(its) /\ DOMAIN its2 = 1..Len(its)
  <2>1. Null \in Entries
    BY DEF Entries
  <2> QED BY <2>1, ExceptSeq, LenProperties
<1> HIDE DEF its2
<1>2. e2.since \subseteq ToSet(its2)
  BY <1>1 DEF EnumeratorOK, ToSet
<1>3. \A x \in e2.called : CalledUpTo(its2, e2, x)
  BY <1>1 DEF EnumeratorOK, CalledUpTo
<1> QED BY <1>2, <1>3 DEF EnumeratorOK, its2

(* What the initial state and every step keep.                              *)
LEMMA InitInv == Init => EventInv
<1> SUFFICES ASSUME Init
             PROVE  EventInv
  OBVIOUS
<1>1. items = <<>> /\ enumerators = <<>> /\ Len(<<>>) = 0
  BY EmptySeq DEF Init
<1>2. TypeOK
  BY <1>1, EmptySeq DEF Init, TypeOK
<1>3. ListInv
  <2>1. Distinct(<<>>, Delegates) /\ ToSet(<<>>) = {}
    BY <1>1, EmptySeq DEF Distinct, ToSet
  <2> QED BY <1>1, <2>1 DEF Init, ListInv
<1>4. EnumeratorInv
  BY <1>1 DEF EnumeratorInv
<1> QED BY <1>2, <1>3, <1>4 DEF EventInv

LEMMA AddInv ==
  ASSUME EventInv, NEW d \in Delegates, Add(d)
  PROVE  EventInv'
<1>1. /\ items \in Seq(Entries) /\ enumerators \in Seq(Enumerators)
      /\ Len(items) \in Nat /\ DOMAIN items = 1..Len(items)
  BY StateLists DEF EventInv
<1>2. d \in Entries /\ d # Null
  BY EventAssumption DEF Entries
<1>3. /\ items' = Append(items, d) /\ items' \in Seq(Entries) /\ items' # <<>>
      /\ Len(items') = Len(items) + 1 /\ ToSet(items') = ToSet(items) \cup {d}
      /\ \A i \in 1..Len(items) : items'[i] = items[i]
      /\ items'[Len(items) + 1] = d
  BY <1>1, <1>2, AppendProperties, AppendSet DEF Add
<1>4. /\ d \notin ToSet(items)
      /\ kind' = IF kind = "null" THEN "one" ELSE "list"
      /\ UNCHANGED <<hadEnumRemoves, enumerators, crashed, disposed>>
  BY DEF Add
<1>5. TypeOK'
  BY <1>3, <1>4 DEF EventInv, TypeOK, Entries
<1>6. Distinct(items', Delegates)
  <2> SUFFICES ASSUME NEW i \in 1..Len(items) + 1, NEW k \in 1..Len(items) + 1,
                      items'[i] = items'[k], items'[i] \in Delegates
               PROVE  i = k
    BY <1>3 DEF Distinct
  <2>1. \A j \in 1..Len(items) + 1 : j \in 1..Len(items) \/ j = Len(items) + 1
    BY <1>1
  <2>2. \A j \in 1..Len(items) : items[j] # d
    BY <1>1, <1>4 DEF ToSet
  <2> QED BY <1>3, <2>1, <2>2 DEF EventInv, ListInv, Distinct
<1>7. ListInv'
  <2>1. kind' = "one" => Len(items') = 1
    <3>1. kind = "null" => Len(items) = 0
      BY EmptySeq DEF EventInv, ListInv
    <3> QED BY <1>3, <1>4, <3>1
  <2>2. Null \in ToSet(items') => hadEnumRemoves' /\ kind' = "list"
    BY <1>2, <1>3, <1>4 DEF EventInv, ListInv
  <2>3. hadEnumRemoves' => IsEnumerating' /\ (kind' = "list" \/ disposed')
    BY <1>4 DEF EventInv, ListInv, IsEnumerating
  <2>4. kind' # "null" /\ (crashed' => disposed')
    BY <1>4 DEF EventInv, ListInv
  <2> QED BY <1>3, <1>6, <2>1, <2>2, <2>3, <2>4 DEF ListInv
<1>8. EnumeratorInv'
  BY <1>1, <1>2, <1>3, <1>4, AppendedOK DEF EventInv, EnumeratorInv
<1> QED BY <1>5, <1>7, <1>8 DEF EventInv

LEMMA Uncalled ==
  ASSUME TypeOK, NEW d, AddFront(d)
  PROVE  /\ enumerators' \in Seq(Enumerators)
         /\ Len(enumerators') = Len(enumerators)
         /\ \A k \in 1..Len(enumerators) :
              /\ enumerators'[k].mIdx = enumerators[k].mIdx
              /\ enumerators'[k].since = enumerators[k].since
              /\ enumerators'[k].called = {}
<1>1. enumerators \in Seq(Enumerators)
  BY StateLists
<1> QED BY <1>1, UncalledList DEF AddFront

LEMMA AddFrontInv ==
  ASSUME EventInv, NEW d \in Delegates, AddFront(d)
  PROVE  EventInv'
<1>1. /\ items \in Seq(Entries) /\ enumerators \in Seq(Enumerators)
      /\ Len(items) \in Nat /\ DOMAIN items = 1..Len(items)
  BY StateLists DEF EventInv
<1>2. d \in Entries /\ d # Null /\ <<d>> \in Seq(Entries) /\ Len(<<d>>) = 1
  BY EventAssumption DEF Entries
<1>3. items' = <<d>> \o items
  BY DEF AddFront
<1>4. /\ items' \in Seq(Entries) /\ Len(items') = Len(items) + 1
      /\ items'[1] = d /\ \A i \in 1..Len(items) : items'[i + 1] = items[i]
  <2>1. /\ <<d>> \o items \in Seq(Entries)
        /\ Len(<<d>> \o items) = Len(<<d>>) + Len(items)
        /\ \A i \in 1..Len(<<d>>) + Len(items) : (<<d>> \o items)[i] =
             IF i <= Len(<<d>>) THEN <<d>>[i] ELSE items[i - Len(<<d>>)]
    BY <1>1, <1>2, ConcatProperties
  <2>2. \A i \in 1..Len(items) + 1 :
          items'[i] = IF i <= 1 THEN <<d>>[i] ELSE items[i - 1]
    BY <1>1, <1>2, <1>3, <2>1
  <2>3. <<d>>[1] = d
    OBVIOUS
  <2>4. items'[1] = d
    BY <1>1, <2>2, <2>3
  <2>5. ASSUME NEW i \in 1..Len(items)
        PROVE  items'[i + 1] = items[i]
    <3>1. i + 1 \in 1..Len(items) + 1 /\ ~(i + 1 <= 1) /\ i + 1 - 1 = i
      BY <1>1
    <3> QED BY <2>2, <3>1
  <2> QED BY <1>1, <1>2, <1>3, <2>1, <2>4, <2>5
<1>5. \A j \in 1..Len(items) + 1 :
        j = 1 \/ (j - 1 \in 1..Len(items) /\ items'[j] = items[j - 1])
  <2> SUFFICES ASSUME NEW j \in 1..Len(items) + 1, j # 1
               PROVE  j - 1 \in 1..Len(items) /\ items'[j] = items[j - 1]
    OBVIOUS
  <2>1. j - 1 \in 1..Len(items) /\ j - 1 + 1 = j
    BY <1>1
  <2> QED BY <1>4, <2>1
<1>6. /\ d \notin ToSet(items)
      /\ kind' = IF kind = "null" THEN "one" ELSE "list"
      /\ UNCHANGED <<hadEnumRemoves, crashed, disposed>>
  BY DEF AddFront
<1>7. ToSet(items') = ToSet(items) \cup {d}
  <2>1. DOMAIN items' = 1..Len(items) + 1
    BY <1>4, LenProperties
  <2>2. \A i \in 1..Len(items) : i + 1 \in 1..Len(items) + 1
    BY <1>1
  <2>3. 1 \in 1..Len(items) + 1
    BY <1>1
  <2>4. ToSet(items') \subseteq ToSet(items) \cup {d}
    <3> SUFFICES ASSUME NEW j \in 1..Len(items) + 1
                 PROVE  items'[j] \in ToSet(items) \cup {d}
      BY <2>1 DEF ToSet
    <3>1. CASE j = 1
      BY <1>4, <3>1
    <3>2. CASE j # 1
      BY <1>1, <1>5, <3>2 DEF ToSet
    <3> QED BY <3>1, <3>2
  <2>5. ToSet(items) \subseteq ToSet(items')
    <3> SUFFICES ASSUME NEW i \in 1..Len(items)
                 PROVE  items[i] \in ToSet(items')
      BY <1>1 DEF ToSet
    <3> QED BY <1>4, <2>1, <2>2 DEF ToSet
  <2>6. d \in ToSet(items')
    BY <1>4, <2>1, <2>3 DEF ToSet
  <2> QED BY <2>4, <2>5, <2>6
<1>8. /\ enumerators' \in Seq(Enumerators)
      /\ Len(enumerators') = Len(enumerators)
      /\ \A k \in 1..Len(enumerators) :
           /\ enumerators'[k].mIdx = enumerators[k].mIdx
           /\ enumerators'[k].since = enumerators[k].since
           /\ enumerators'[k].called = {}
  BY Uncalled DEF EventInv
<1>9. TypeOK'
  BY <1>4, <1>6, <1>8 DEF EventInv, TypeOK, Entries, Enumerators
<1>10. Distinct(items', Delegates)
  <2> SUFFICES ASSUME NEW i \in 1..Len(items) + 1, NEW k \in 1..Len(items) + 1,
                      items'[i] = items'[k], items'[i] \in Delegates
               PROVE  i = k
    BY <1>4 DEF Distinct
  <2>1. \A j \in 1..Len(items) : items[j] # d
    BY <1>1, <1>6 DEF ToSet
  <2>2. CASE i = 1 \/ k = 1
    BY <1>4, <1>5, <2>1, <2>2
  <2>3. CASE i # 1 /\ k # 1
    <3>1. /\ i - 1 \in 1..Len(items) /\ k - 1 \in 1..Len(items)
          /\ items[i - 1] = items[k - 1] /\ items[i - 1] \in Delegates
      BY <1>5, <2>3
    <3>2. i - 1 = k - 1
      BY <3>1 DEF EventInv, ListInv, Distinct
    <3> QED BY <3>2
  <2> QED BY <2>2, <2>3
<1>11. ListInv'
  <2>1. kind' = "one" => Len(items') = 1
    <3>1. kind = "null" => Len(items) = 0
      BY EmptySeq DEF EventInv, ListInv
    <3> QED BY <1>4, <1>6, <3>1
  <2>2. Null \in ToSet(items') => hadEnumRemoves' /\ kind' = "list"
    BY <1>2, <1>6, <1>7 DEF EventInv, ListInv
  <2>3. hadEnumRemoves' => IsEnumerating' /\ (kind' = "list" \/ disposed')
    <3>1. IsEnumerating => IsEnumerating'
      BY <1>1, <1>8, EmptySeq DEF IsEnumerating
    <3> QED BY <1>6, <3>1 DEF EventInv, ListInv
  <2>4. kind' # "null" /\ (crashed' => disposed')
    BY <1>6 DEF EventInv, ListInv
  <2>5. items' # <<>>
    BY <1>1, <1>4, EmptySeq
  <2> QED BY <1>10, <2>1, <2>2, <2>3, <2>4, <2>5 DEF ListInv
<1>12. EnumeratorInv'
  BY <1>7, <1>8 DEF EventInv, EnumeratorInv, EnumeratorOK
<1> QED BY <1>9, <1>11, <1>12 DEF EventInv

(* Where the entry is that is removed.                                      *)
LEMMA IndexOfEntry ==
  ASSUME TypeOK, NEW d \in ToSet(items)
  PROVE  IndexOf(d) \in 1..Len(items) /\ items[IndexOf(d)] = d
<1>1. DOMAIN items = 1..Len(items)
  BY StateLists
<1>2. \E i \in DOMAIN items : items[i] = d
  BY DEF ToSet
<1> QED BY <1>1, <1>2 DEF IndexOf

LEMMA NotEnumerating ==
  ASSUME EventInv, ~IsEnumerating, NEW ds
  PROVE  enumerators = <<>> /\ Forgotten(enumerators, ds) = <<>>
<1>1. enumerators = <<>> /\ enumerators \in Seq(Enumerators)
  BY StateLists DEF EventInv, IsEnumerating
<1>2. Forgotten(enumerators, ds) \in Seq(Enumerators)
      /\ Len(Forgotten(enumerators, ds)) = Len(enumerators)
  BY <1>1, ForgottenList
<1> QED BY <1>1, <1>2, EmptySeq

LEMMA RemoveWhileEnumeratingInv ==
  ASSUME EventInv, NEW d \in Delegates, RemoveFromList(d), IsEnumerating
  PROVE  EventInv'
<1> DEFINE i == IndexOf(d)
<1>1. /\ items \in Seq(Entries) /\ enumerators \in Seq(Enumerators)
      /\ Len(items) \in Nat /\ DOMAIN items = 1..Len(items)
  BY StateLists DEF EventInv
<1>2. i \in 1..Len(items) /\ items[i] = d
  BY IndexOfEntry DEF EventInv, RemoveFromList
<1>3. items' = [items EXCEPT ![i] = Null]
  BY DEF RemoveFromList
<1> HIDE DEF i
<1>4. /\ items' \in Seq(Entries) /\ Len(items') = Len(items)
      /\ \A j \in 1..Len(items) : items'[j] = IF j = i THEN Null ELSE items[j]
  <2>1. Null \in Entries
    BY DEF Entries
  <2> QED BY <1>1, <1>2, <1>3, <2>1, ExceptSeq
<1>5. items' # <<>> /\ items # <<>>
  BY <1>1, <1>2, <1>4, EmptySeq
<1>6. /\ kind = "list" /\ kind' = "list" /\ hadEnumRemoves' = TRUE
      /\ enumerators' = Forgotten(enumerators, {d})
      /\ UNCHANGED <<crashed, disposed>>
  BY <1>5 DEF RemoveFromList, Forget, Forgotten
<1>7. /\ enumerators' \in Seq(Enumerators)
      /\ Len(enumerators') = Len(enumerators)
      /\ \A k \in 1..Len(enumerators) :
           /\ enumerators'[k].mIdx = enumerators[k].mIdx
           /\ enumerators'[k].since = enumerators[k].since \ {d}
           /\ enumerators'[k].called = enumerators[k].called \ {d}
  BY <1>1, <1>6, ForgottenList
<1>8. TypeOK'
  BY <1>4, <1>6, <1>7 DEF EventInv, TypeOK, Entries, Enumerators
<1>9. ListInv'
  <2>1. Distinct(items', Delegates)
    BY <1>4, EventAssumption DEF EventInv, ListInv, Distinct
  <2>2. IsEnumerating'
    BY <1>1, <1>7, EmptySeq DEF IsEnumerating
  <2> QED BY <1>5, <1>6, <2>1, <2>2 DEF EventInv, ListInv
<1>10. EnumeratorInv'
  <2> SUFFICES ASSUME NEW k \in 1..Len(enumerators)
               PROVE  EnumeratorOK(items', enumerators'[k])
    BY <1>7 DEF EnumeratorInv
  <2>1. EnumeratorOK(items, enumerators[k])
    BY DEF EventInv, EnumeratorInv
  <2> QED BY <1>1, <1>2, <1>3, <1>7, <2>1, HoledOK
<1> QED BY <1>8, <1>9, <1>10 DEF EventInv

LEMMA RemoveOutsideInv ==
  ASSUME EventInv, NEW d \in Delegates, RemoveFromList(d), ~IsEnumerating
  PROVE  EventInv'
<1> DEFINE i == IndexOf(d)
<1>1. /\ items \in Seq(Entries) /\ enumerators = <<>>
      /\ Len(items) \in Nat /\ DOMAIN items = 1..Len(items)
  BY StateLists, NotEnumerating DEF EventInv
<1>2. i \in 1..Len(items) /\ items[i] = d
  BY IndexOfEntry DEF EventInv, RemoveFromList
<1>3. items' = RemoveAt(items, i)
  BY DEF RemoveFromList
<1> HIDE DEF i
<1>4. /\ items' \in Seq(Entries) /\ Len(items') = Len(items) - 1
      /\ \A k \in 1..Len(items) - 1 :
           items'[k] = IF k < i THEN items[k] ELSE items[k + 1]
  BY <1>1, <1>2, <1>3, RemovedList
<1>5. /\ kind' = IF items' = <<>> THEN "null" ELSE "list"
      /\ hadEnumRemoves' = FALSE /\ kind = "list"
      /\ enumerators' = <<>> /\ UNCHANGED <<crashed, disposed>>
  <2>1. enumerators' = Forgotten(enumerators, {d})
    BY DEF RemoveFromList, Forget, Forgotten
  <2>2. enumerators' = <<>>
    BY <2>1, NotEnumerating
  <2> QED BY <2>2 DEF RemoveFromList
<1>6. TypeOK'
  BY <1>4, <1>5, EmptySeq DEF EventInv, TypeOK, Entries
<1>7. \A k \in 1..Len(items) - 1 :
        \E j \in 1..Len(items) : items'[k] = items[j]
  <2> SUFFICES ASSUME NEW k \in 1..Len(items) - 1
               PROVE  \E j \in 1..Len(items) : items'[k] = items[j]
    OBVIOUS
  <2>1. k \in 1..Len(items) /\ k + 1 \in 1..Len(items)
    BY <1>1
  <2> QED BY <1>4, <2>1
<1>8. ListInv'
  <2>1. Distinct(items', Delegates)
    <3> SUFFICES ASSUME NEW j \in 1..Len(items) - 1,
                        NEW k \in 1..Len(items) - 1,
                        items'[j] = items'[k], items'[j] \in Delegates
                 PROVE  j = k
      BY <1>4 DEF Distinct
    <3> DEFINE at(m) == IF m < i THEN m ELSE m + 1
    <3>1. /\ at(j) \in 1..Len(items) /\ at(k) \in 1..Len(items)
          /\ items'[j] = items[at(j)] /\ items'[k] = items[at(k)]
      BY <1>1, <1>2, <1>4
    <3>2. at(j) = at(k) => j = k
      BY <1>2
    <3> HIDE DEF at
    <3> QED BY <3>1, <3>2 DEF EventInv, ListInv, Distinct
  <2>2. Null \notin ToSet(items')
    <3>1. Null \notin ToSet(items)
      BY DEF EventInv, ListInv
    <3>2. DOMAIN items' = 1..Len(items) - 1
      BY <1>4, LenProperties
    <3> QED BY <1>1, <1>7, <3>1, <3>2 DEF ToSet
  <2> QED BY <1>5, <2>1, <2>2 DEF EventInv, ListInv
<1>9. EnumeratorInv'
  BY <1>5, EmptySeq DEF EnumeratorInv
<1> QED BY <1>6, <1>8, <1>9 DEF EventInv

LEMMA RemoveOneInv ==
  ASSUME EventInv, NEW d \in Delegates, RemoveOne(d)
  PROVE  EventInv'
<1>1. /\ items \in Seq(Entries) /\ enumerators \in Seq(Enumerators)
      /\ Len(items) \in Nat /\ DOMAIN items = 1..Len(items)
  BY StateLists DEF EventInv
<1>2. /\ items = <<d>> /\ items' = <<>> /\ kind = "one" /\ kind' = "null"
      /\ enumerators' = Forgotten(enumerators, {d})
      /\ UNCHANGED <<hadEnumRemoves, crashed, disposed>>
  BY DEF RemoveOne, Forget, Forgotten
<1>3. /\ enumerators' \in Seq(Enumerators)
      /\ Len(enumerators') = Len(enumerators)
      /\ \A k \in 1..Len(enumerators) :
           /\ enumerators'[k].mIdx = enumerators[k].mIdx
           /\ enumerators'[k].since = enumerators[k].since \ {d}
           /\ enumerators'[k].called = enumerators[k].called \ {d}
  BY <1>1, <1>2, ForgottenList
<1>4. ToSet(items) \subseteq {d}
  <2>1. Len(<<d>>) = 1 /\ <<d>>[1] = d
    OBVIOUS
  <2> QED BY <1>1, <1>2, <2>1 DEF ToSet
<1>5. TypeOK'
  BY <1>2, <1>3, EmptySeq DEF EventInv, TypeOK, Entries, Enumerators
<1>6. ListInv'
  <2>1. Distinct(<<>>, Delegates) /\ ToSet(<<>>) = {}
    BY EmptySeq DEF Distinct, ToSet
  <2>2. hadEnumRemoves' => IsEnumerating' /\ disposed'
    BY <1>1, <1>2, <1>3, EmptySeq DEF EventInv, ListInv, IsEnumerating
  <2> QED BY <1>2, <2>1, <2>2 DEF EventInv, ListInv
<1>7. EnumeratorInv'
  <2> SUFFICES ASSUME NEW k \in 1..Len(enumerators)
               PROVE  EnumeratorOK(items', enumerators'[k])
    BY <1>3 DEF EnumeratorInv
  <2>1. EnumeratorOK(items, enumerators[k])
    BY DEF EventInv, EnumeratorInv
  <2>2. \A x \in enumerators[k].called : x \in ToSet(items)
    BY <1>1, <2>1 DEF EnumeratorOK, CalledUpTo, ToSet
  <2>3. enumerators'[k].since = {} /\ enumerators'[k].called = {}
    BY <1>3, <1>4, <2>1, <2>2 DEF EnumeratorOK
  <2> QED BY <1>3, <2>1, <2>3 DEF EnumeratorOK
<1> QED BY <1>5, <1>6, <1>7 DEF EventInv

LEMMA DisposeInv ==
  ASSUME EventInv, Dispose
  PROVE  EventInv'
<1>1. /\ items \in Seq(Entries) /\ enumerators \in Seq(Enumerators)
      /\ Len(items) \in Nat /\ DOMAIN items = 1..Len(items)
      /\ \A k \in 1..Len(enumerators) : enumerators[k] \in Enumerators
  BY StateLists DEF EventInv
<1>2. /\ items' = <<>>
      /\ kind' = "null" /\ disposed' = IsEnumerating /\ ~crashed
      /\ enumerators' = Forgotten(enumerators, Delegates)
      /\ UNCHANGED <<hadEnumRemoves, crashed>>
  BY DEF Dispose, Forget, Forgotten, InProgram
<1>3. /\ enumerators' \in Seq(Enumerators)
      /\ Len(enumerators') = Len(enumerators)
      /\ \A k \in 1..Len(enumerators) :
           /\ enumerators'[k].mIdx = enumerators[k].mIdx
           /\ enumerators'[k].since = enumerators[k].since \ Delegates
           /\ enumerators'[k].called = enumerators[k].called \ Delegates
  BY <1>1, <1>2, ForgottenList
<1>4. IsEnumerating \in BOOLEAN /\ (IsEnumerating <=> IsEnumerating')
  BY <1>1, <1>3, EmptySeq DEF IsEnumerating
<1>5. TypeOK'
  BY <1>2, <1>3, <1>4, EmptySeq DEF EventInv, TypeOK, Entries, Enumerators
<1>6. ListInv'
  <2>1. Distinct(<<>>, Delegates) /\ ToSet(<<>>) = {}
    BY EmptySeq DEF Distinct, ToSet
  <2> QED BY <1>2, <1>4, <2>1 DEF EventInv, ListInv
<1>7. EnumeratorInv'
  <2> SUFFICES ASSUME NEW k \in 1..Len(enumerators)
               PROVE  EnumeratorOK(items', enumerators'[k])
    BY <1>3 DEF EnumeratorInv
  <2>1. EnumeratorOK(items, enumerators[k])
    BY DEF EventInv, EnumeratorInv
  <2>2. enumerators'[k].since = {} /\ enumerators'[k].called = {}
    BY <1>1, <1>3 DEF Enumerators
  <2> QED BY <1>3, <2>1, <2>2 DEF EnumeratorOK
<1> QED BY <1>5, <1>6, <1>7 DEF EventInv

LEMMA BeginInv ==
  ASSUME EventInv, Begin
  PROVE  EventInv'
<1>1. /\ items \in Seq(Entries) /\ enumerators \in Seq(Enumerators)
      /\ Len(enumerators) \in Nat
  BY StateLists DEF EventInv
<1>2. ToSet(Present) = ToSet(items) \cap Delegates
  BY <1>1, SelectList DEF Present
<1> DEFINE e == [mIdx |-> -1, since |-> ToSet(Present), called |-> {}]
<1>3. e \in Enumerators
  BY <1>2 DEF Enumerators
<1>4. EnumeratorOK(items, e)
  BY <1>2 DEF EnumeratorOK
<1>5. /\ enumerators' = Append(enumerators, e)
      /\ UNCHANGED <<kind, items, hadEnumRemoves, crashed, disposed>>
  BY DEF Begin
<1> HIDE DEF e
<1>6. /\ enumerators' \in Seq(Enumerators) /\ enumerators' # <<>>
      /\ Len(enumerators') = Len(enumerators) + 1
      /\ \A k \in 1..Len(enumerators) : enumerators'[k] = enumerators[k]
      /\ enumerators'[Len(enumerators) + 1] = e
  BY <1>1, <1>3, <1>5, AppendProperties
<1>7. TypeOK'
  BY <1>5, <1>6 DEF EventInv, TypeOK, Enumerators
<1>8. ListInv'
  BY <1>5, <1>6 DEF EventInv, ListInv, IsEnumerating
<1>9. EnumeratorInv'
  <2>1. \A k \in 1..Len(enumerators) + 1 :
          k \in 1..Len(enumerators) \/ k = Len(enumerators) + 1
    BY <1>1
  <2> QED BY <1>4, <1>5, <1>6, <2>1 DEF EventInv, EnumeratorInv
<1> QED BY <1>7, <1>8, <1>9 DEF EventInv

(* What MoveNext does: the next entry and the enumerator that it becomes.   *)
LEMMA MoveNextStep ==
  ASSUME EventInv, MoveNext
  PROVE  \E i \in 1..Len(items), e2 \in Enumerators :
           LET n == Len(enumerators)
               e == enumerators[n] IN
           /\ n \in 1..Len(enumerators) /\ e \in Enumerators
           /\ i > e.mIdx + 1 /\ items[i] \in Delegates
           /\ \A j \in 1..Len(items) :
                e.mIdx + 1 < j /\ j < i => items[j] = Null
           /\ e2.mIdx = i - 1 /\ e2.since = e.since
           /\ e2.called = e.called \cup {items[i]}
           /\ enumerators' = [enumerators EXCEPT ![n] = e2]
<1> DEFINE n == Len(enumerators)
<1> DEFINE e == enumerators[n]
<1>1. /\ Len(items) \in Nat /\ DOMAIN items = 1..Len(items)
      /\ \A i \in 1..Len(items) : items[i] \in Entries
      /\ Len(enumerators) \in Nat
      /\ \A k \in 1..Len(enumerators) : enumerators[k] \in Enumerators
      /\ IsEnumerating => Len(enumerators) # 0
  BY StateLists DEF EventInv
<1>2. n \in 1..Len(enumerators) /\ e \in Enumerators
  BY <1>1 DEF MoveNext
<1>3. e.mIdx \in Int
  BY <1>2 DEF Enumerators
<1>4. NextIndices = {i \in 1..Len(items) : i > e.mIdx + 1 /\ items[i] # Null}
  BY <1>1 DEF NextIndices, Last
<1> DEFINE i == CHOOSE i \in NextIndices : \A j \in NextIndices : i <= j
<1>5. i \in NextIndices /\ \A j \in NextIndices : i <= j
  <2>1. NextIndices # {} /\ NextIndices \subseteq Nat
    BY <1>4 DEF MoveNext
  <2> QED BY <2>1, LeastNumber
<1>6. enumerators' = [enumerators EXCEPT ![n] =
        [mIdx |-> i - 1, since |-> e.since,
         called |-> e.called \cup {items[i]}]]
  BY DEF MoveNext, Last
<1> HIDE DEF i
<1>7. i \in 1..Len(items) /\ i > e.mIdx + 1 /\ items[i] \in Delegates
  BY <1>1, <1>4, <1>5 DEF Entries
<1>8. \A j \in 1..Len(items) : e.mIdx + 1 < j /\ j < i => items[j] = Null
  BY <1>3, <1>4, <1>5, <1>7
<1> DEFINE e2 == [mIdx |-> i - 1, since |-> e.since,
                  called |-> e.called \cup {items[i]}]
<1>9. /\ e2 \in Enumerators /\ e2.mIdx = i - 1 /\ e2.since = e.since
      /\ e2.called = e.called \cup {items[i]}
  BY <1>2, <1>7 DEF Enumerators
<1>10. enumerators' = [enumerators EXCEPT ![n] = e2]
  BY <1>6
<1> HIDE DEF e2
<1> QED BY <1>2, <1>7, <1>8, <1>9, <1>10

LEMMA MoveNextInv ==
  ASSUME EventInv, MoveNext
  PROVE  EventInv'
<1>1. /\ enumerators \in Seq(Enumerators) /\ Len(enumerators) \in Nat
      /\ DOMAIN items = 1..Len(items)
  BY StateLists DEF EventInv
<1> DEFINE n == Len(enumerators)
<1>2. PICK i \in 1..Len(items), e2 \in Enumerators :
        /\ n \in 1..Len(enumerators)
        /\ i > enumerators[n].mIdx + 1
        /\ e2.mIdx = i - 1 /\ e2.since = enumerators[n].since
        /\ e2.called = enumerators[n].called \cup {items[i]}
        /\ enumerators' = [enumerators EXCEPT ![n] = e2]
        /\ enumerators[n] \in Enumerators
  BY MoveNextStep
<1>3. UNCHANGED <<kind, items, hadEnumRemoves, crashed, disposed>>
  BY DEF MoveNext
<1>4. /\ enumerators' \in Seq(Enumerators) /\ Len(enumerators') = n
      /\ \A k \in 1..n : enumerators'[k] = IF k = n THEN e2 ELSE enumerators[k]
  BY <1>1, <1>2, ExceptSeq
<1> HIDE DEF n
<1>5. TypeOK'
  BY <1>3, <1>4 DEF EventInv, TypeOK, Enumerators
<1>6. ListInv'
  <2>1. IsEnumerating'
    BY <1>1, <1>2, <1>4, EmptySeq DEF IsEnumerating, n
  <2> QED BY <1>3, <2>1 DEF EventInv, ListInv
<1>7. EnumeratorInv'
  <2>1. EnumeratorOK(items, enumerators[n])
    BY <1>2 DEF EventInv, EnumeratorInv
  <2>2. EnumeratorOK(items, e2)
    <3>1. enumerators[n].mIdx \in Int
      BY <1>2 DEF Enumerators
    <3>2. e2.mIdx >= -1 /\ e2.since \subseteq ToSet(items)
      BY <1>2, <2>1, <3>1 DEF EnumeratorOK
    <3>3. CalledUpTo(items, e2, items[i])
      BY <1>2 DEF CalledUpTo
    <3>4. \A x \in enumerators[n].called : CalledUpTo(items, e2, x)
      BY <1>2, <2>1, <3>1 DEF EnumeratorOK, CalledUpTo
    <3> QED BY <1>2, <3>2, <3>3, <3>4 DEF EnumeratorOK
  <2> QED BY <1>3, <1>4, <2>2 DEF EventInv, EnumeratorInv, n
<1> QED BY <1>5, <1>6, <1>7 DEF EventInv

LEMMA FrontList ==
  ASSUME NEW X, NEW s \in Seq(X), Len(s) # 0
  PROVE  /\ Front(s) \in Seq(X) /\ Len(Front(s)) = Len(s) - 1
         /\ DOMAIN Front(s) = 1..Len(s) - 1
         /\ \A k \in 1..Len(s) - 1 : Front(s)[k] = s[k]
<1> DEFINE n == Len(s)
<1>1. n \in Nat /\ n # 0 /\ \A k \in 1..n : s[k] \in X
  BY LenProperties, ElementOfSeq
<1>2. /\ 1 \in Int /\ n - 1 \in Int
      /\ \A k \in 1..n - 1 : s[k] \in X
  BY <1>1
<1>3. /\ Front(s) \in Seq(X)
      /\ Len(Front(s)) = IF 1 <= n - 1 THEN n - 1 - 1 + 1 ELSE 0
      /\ \A k \in 1..n - 1 - 1 + 1 : Front(s)[k] = s[1 + k - 1]
  BY <1>2, SubSeqProperties DEF Front
<1> HIDE DEF n
<1>4. Len(Front(s)) = n - 1 /\ n - 1 - 1 + 1 = n - 1
  BY <1>1, <1>3
<1>5. \A k \in 1..n - 1 : Front(s)[k] = s[k]
  <2> SUFFICES ASSUME NEW k \in 1..n - 1
               PROVE  Front(s)[k] = s[k]
    OBVIOUS
  <2>1. 1 + k - 1 = k
    OBVIOUS
  <2> QED BY <1>3, <1>4, <2>1
<1> QED BY <1>3, <1>4, <1>5, LenProperties DEF n

LEMMA EndInnerInv ==
  ASSUME EventInv, EndInner
  PROVE  EventInv'
<1>1. /\ enumerators \in Seq(Enumerators) /\ Len(enumerators) \in Nat
      /\ \A k \in 1..Len(enumerators) : enumerators[k] \in Enumerators
  BY StateLists DEF EventInv
<1> DEFINE n == Len(enumerators)
<1>2. n > 1 /\ UNCHANGED <<kind, items, hadEnumRemoves, crashed, disposed>>
  BY DEF EndInner
<1>3. enumerators' = Front(enumerators)
  BY DEF EndInner
<1>4. /\ enumerators' \in Seq(Enumerators) /\ Len(enumerators') = n - 1
      /\ \A k \in 1..n - 1 : enumerators'[k] = enumerators[k]
  BY <1>1, <1>2, <1>3, FrontList
<1>5. TypeOK'
  BY <1>2, <1>4 DEF EventInv, TypeOK, Enumerators
<1>6. ListInv'
  <2>1. IsEnumerating'
    BY <1>1, <1>2, <1>4, EmptySeq DEF IsEnumerating
  <2> QED BY <1>2, <2>1 DEF EventInv, ListInv
<1>7. EnumeratorInv'
  <2>1. \A k \in 1..n - 1 : k \in 1..n
    BY <1>1
  <2> QED BY <1>2, <1>4, <2>1 DEF EventInv, EnumeratorInv
<1> QED BY <1>5, <1>6, <1>7 DEF EventInv

LEMMA EndRootInv ==
  ASSUME EventInv, EndRoot
  PROVE  EventInv'
<1>1. items \in Seq(Entries) /\ Distinct(items, Delegates)
  BY StateLists DEF EventInv, ListInv
<1>2. /\ Present \in Seq(Entries)
      /\ ToSet(Present) = ToSet(items) \cap Delegates
      /\ Distinct(Present, Delegates)
  BY <1>1, SelectList, SelectDistinct DEF Present
<1>3. /\ enumerators' = <<>> /\ hadEnumRemoves' = FALSE /\ disposed' = FALSE
      /\ items' = IF hadEnumRemoves THEN Present ELSE items
      /\ kind' = IF hadEnumRemoves /\ Present = <<>> THEN "null" ELSE kind
      /\ crashed' = FALSE /\ ~(hadEnumRemoves /\ kind = "one")
  BY DEF EndRoot, EventInv, TypeOK
<1>4. TypeOK'
  BY <1>2, <1>3, EmptySeq DEF EventInv, TypeOK, Entries
<1>5. ListInv'
  <2>1. kind = "null" => Present = <<>>
    BY SelectEmpty DEF EventInv, ListInv, Present
  <2>2. Distinct(items', Delegates) /\ Null \notin ToSet(items')
    BY <1>1, <1>2, <1>3, EventAssumption DEF EventInv, ListInv
  <2>3. kind' = "null" <=> items' = <<>>
    BY <1>3, <2>1 DEF EventInv, ListInv
  <2>4. kind' = "one" => Len(items') = 1
    BY <1>3 DEF EventInv, ListInv
  <2> QED BY <1>3, <2>2, <2>3, <2>4 DEF ListInv
<1>6. EnumeratorInv'
  BY <1>3, EmptySeq DEF EnumeratorInv
<1> QED BY <1>4, <1>5, <1>6 DEF EventInv

LEMMA EndRootBadCastInv ==
  ASSUME EventInv, EndRootBadCast
  PROVE  EventInv'
<1>1. crashed' = TRUE /\ disposed /\ hadEnumRemoves /\ kind = "one"
      /\ UNCHANGED <<kind, items, hadEnumRemoves, enumerators, disposed>>
  BY DEF EndRootBadCast, EventInv, ListInv
<1> QED BY <1>1 DEF EventInv, TypeOK, ListInv, EnumeratorInv, IsEnumerating

(* The invariant: what the list, the flag and the enumerators say of one    *)
(* another, whatever handlers do.                                           *)
LEMMA StepInv == EventInv /\ [Next]_vars => EventInv'
<1> SUFFICES ASSUME EventInv, [Next]_vars
             PROVE  EventInv'
  OBVIOUS
<1>1. ASSUME NEW d \in Delegates, Add(d) PROVE EventInv'
  BY <1>1, AddInv
<1>2. ASSUME NEW d \in Delegates, AddFront(d) PROVE EventInv'
  BY <1>2, AddFrontInv
<1>3. ASSUME NEW d \in Delegates, RemoveFromList(d) PROVE EventInv'
  BY <1>3, RemoveWhileEnumeratingInv, RemoveOutsideInv
<1>4. ASSUME NEW d \in Delegates, RemoveOne(d) PROVE EventInv'
  BY <1>4, RemoveOneInv
<1>5. CASE Dispose
  BY <1>5, DisposeInv
<1>6. CASE Begin
  BY <1>6, BeginInv
<1>7. CASE MoveNext
  BY <1>7, MoveNextInv
<1>8. CASE EndInner
  BY <1>8, EndInnerInv
<1>9. CASE EndRoot
  BY <1>9, EndRootInv
<1>10. CASE EndRootBadCast
  BY <1>10, EndRootBadCastInv
<1>11. CASE UNCHANGED vars
  BY <1>11 DEF vars, EventInv, TypeOK, ListInv, EnumeratorInv, IsEnumerating
<1> QED BY <1>1, <1>2, <1>3, <1>4, <1>5, <1>6, <1>7, <1>8, <1>9, <1>10, <1>11
           DEF Next

(* Event.Enumerator and the remove methods keep the list, the flag          *)
(* HadEnumRemoves and the indices of all enumerators consistent.            *)
THEOREM ListAndEnumerators == Spec => []EventInv
<1>1. Init => EventInv
  BY InitInv
<1>2. EventInv /\ [Next]_vars => EventInv'
  BY StepInv
<1> QED BY <1>1, <1>2, PTL DEF Spec

(* When the outermost invocation has ended, Dispose of the root enumerator  *)
(* has taken every hole out of the list and left no empty list behind.      *)
THEOREM HolesAreRemoved == Spec => []NoHoleIsLeft
<1>1. EventInv => NoHoleIsLeft
  BY DEF EventInv, ListInv, NoHoleIsLeft
<1> QED BY <1>1, ListAndEnumerators, PTL

(* The outermost enumerator's cast of the target to a list is wrong only    *)
(* after the event has been disposed inside the invocation.                 *)
THEOREM CastNeedsDispose == Spec => []CastIsValid
<1>1. EventInv => CastIsValid
  BY DEF EventInv, ListInv, CastIsValid
<1> QED BY <1>1, ListAndEnumerators, PTL

(***************************************************************************)
(* The event keeps EventSpec's promise: every step is one of EventSpec's,  *)
(* seen through Present and Invocations.                                   *)
(***************************************************************************)

LEMMA PresentIs ==
  ASSUME EventInv
  PROVE  /\ Present = Select(items, Delegates) /\ Present \in Seq(Entries)
         /\ ToSet(Present) = ToSet(items) \cap Delegates
<1>1. items \in Seq(Entries)
  BY StateLists DEF EventInv
<1> QED BY <1>1, SelectList DEF Present

LEMMA InvocationsAre ==
  ASSUME EventInv
  PROVE  /\ Invocations = InvocationsIn(items, enumerators)
         /\ Invocations \in Seq(Invocation)
         /\ Len(Invocations) = Len(enumerators)
         /\ DOMAIN Invocations = 1..Len(enumerators)
         /\ \A k \in 1..Len(enumerators) :
              /\ enumerators[k].mIdx >= -1
              /\ Invocations[k].due = DueIn(items, enumerators[k])
              /\ Invocations[k].called = enumerators[k].called
<1>1. Invocations = InvocationsIn(items, enumerators)
  BY DEF Invocations, InvocationsIn, Due, DueIn, Behind
<1>2. /\ items \in Seq(Entries) /\ enumerators \in Seq(Enumerators)
      /\ \A k \in 1..Len(enumerators) : enumerators[k].mIdx >= -1
  BY StateLists DEF EventInv, EnumeratorInv, EnumeratorOK
<1> QED BY <1>1, <1>2, InvocationsList

(* The same for the next state.                                             *)
LEMMA InvocationsWillBe == Invocations' = InvocationsIn(items', enumerators')
BY DEF Invocations, InvocationsIn, Due, DueIn, Behind

LEMMA PresentWillBe == Present' = Select(items', Delegates)
BY DEF Present

(* What is due depends on the index and on who was there.                   *)
LEMMA DueOf ==
  ASSUME NEW its, NEW e, NEW e2, e2.mIdx = e.mIdx, e2.since = e.since
  PROVE  DueIn(its, e2) = DueIn(its, e)
BY DEF DueIn, Behind

(* EventSpec's operators on lists are the same.                             *)
LEMMA SameToSet ==
  ASSUME NEW s
  PROVE  Promise!ToSet(s) = ToSet(s)
BY DEF Promise!ToSet, ToSet

LEMMA SameLastFront ==
  ASSUME NEW s
  PROVE  Promise!Last(s) = Last(s) /\ Promise!Front(s) = Front(s)
BY DEF Promise!Last, Last, Promise!Front, Front

LEMMA SameWithout ==
  ASSUME NEW s, NEW d
  PROVE  Promise!Without(s, d) = Select(s, Delegates \ {d})
<1>1. Promise!Select(s, Delegates \ {d}) = Select(s, Delegates \ {d})
  BY DEF Promise!Select, Select
<1> QED BY <1>1 DEF Promise!Without

LEMMA InitKept == Init => Promise!Init
<1> SUFFICES ASSUME Init
             PROVE  Promise!Init
  OBVIOUS
<1>1. EventInv /\ items = <<>> /\ enumerators = <<>>
  BY InitInv DEF Init
<1>2. Present = <<>>
  BY <1>1, SelectEmpty DEF Present
<1>3. Invocations = <<>>
  BY <1>1, InvocationsAre, EmptySeq
<1> QED BY <1>2, <1>3 DEF Promise!Init

LEMMA AddKept ==
  ASSUME EventInv, NEW d \in Delegates, Add(d)
  PROVE  Promise!Add(d)
<1>1. /\ items \in Seq(Entries) /\ enumerators \in Seq(Enumerators)
      /\ DOMAIN enumerators = 1..Len(enumerators)
      /\ \A k \in 1..Len(enumerators) : enumerators[k] \in Enumerators
  BY StateLists DEF EventInv
<1>2. /\ d \in Entries /\ d \notin ToSet(items) /\ items' = Append(items, d)
      /\ enumerators' = enumerators
  BY DEF Add, Entries
<1>3. d \notin ToSet(Present)
  BY <1>2, PresentIs
<1>4. Present' = Append(Present, d)
  <2>1. Select(Append(items, d), Delegates)
          = Append(Select(items, Delegates), d)
    BY <1>1, <1>2, SelectAppend
  <2> QED BY <1>2, <2>1, PresentIs, PresentWillBe
<1>5. \A k \in 1..Len(enumerators) :
        DueIn(Append(items, d), enumerators[k]) = DueIn(items, enumerators[k])
  <2> SUFFICES ASSUME NEW k \in 1..Len(enumerators)
               PROVE  DueIn(Append(items, d), enumerators[k]) =
                        DueIn(items, enumerators[k])
    OBVIOUS
  <2> DEFINE e == enumerators[k]
  <2>1. e \in Enumerators /\ e.mIdx >= -1 /\ d \notin e.since
    BY <1>1, <1>2 DEF EventInv, EnumeratorInv, EnumeratorOK
  <2> HIDE DEF e
  <2>2. DueIn(Append(items, d), e) = DueIn(items, e)
    BY <1>1, <1>2, <2>1, DueAppended
  <2> QED BY <2>2 DEF e
<1>6. InvocationsIn(items', enumerators') = InvocationsIn(items, enumerators)
  BY <1>1, <1>2, <1>5 DEF InvocationsIn
<1>7. Invocations' = Invocations
  BY <1>6, InvocationsAre, InvocationsWillBe
<1> QED BY <1>3, <1>4, <1>7, SameToSet DEF Promise!Add

LEMMA AddFrontKept ==
  ASSUME EventInv, NEW d \in Delegates, AddFront(d)
  PROVE  Promise!AddFront(d)
<1>1. /\ items \in Seq(Entries) /\ enumerators \in Seq(Enumerators)
      /\ DOMAIN enumerators = 1..Len(enumerators)
      /\ \A k \in 1..Len(enumerators) : enumerators[k] \in Enumerators
  BY StateLists DEF EventInv
<1>2. d \in Entries /\ d \notin ToSet(items) /\ items' = <<d>> \o items
  BY DEF AddFront, Entries
<1>3. d \notin ToSet(Present)
  BY <1>2, PresentIs
<1>4. Present' = <<d>> \o Present
  <2>1. PICK one \in Seq(Entries) : one = <<d>>
    <3>1. <<d>> \in Seq(Entries)
      BY <1>2
    <3> QED BY <3>1
  <2>2. Select(one, Delegates) = one
    BY <1>2, <2>1, SelectSingle
  <2>3. Select(one \o items, Delegates) = one \o Select(items, Delegates)
    <3>1. Select(one \o items, Delegates) =
            Select(one, Delegates) \o Select(items, Delegates)
      BY <1>1, SelectConcat
    <3> QED BY <2>2, <3>1
  <2> QED BY <1>2, <2>1, <2>3, PresentIs, PresentWillBe
<1>5. EventInv'
  BY AddFrontInv
<1>6. /\ enumerators' \in Seq(Enumerators)
      /\ Len(enumerators') = Len(enumerators)
      /\ DOMAIN enumerators' = 1..Len(enumerators)
      /\ \A k \in 1..Len(enumerators) :
           /\ enumerators'[k].mIdx = enumerators[k].mIdx
           /\ enumerators'[k].since = enumerators[k].since
           /\ enumerators'[k].called = {}
  <2>1. /\ enumerators' \in Seq(Enumerators)
        /\ Len(enumerators') = Len(enumerators)
        /\ \A k \in 1..Len(enumerators) :
             /\ enumerators'[k].mIdx = enumerators[k].mIdx
             /\ enumerators'[k].since = enumerators[k].since
             /\ enumerators'[k].called = {}
    BY Uncalled DEF EventInv
  <2> QED BY <2>1, LenProperties
<1>7. /\ DOMAIN Invocations = 1..Len(enumerators)
      /\ DOMAIN Invocations' = 1..Len(enumerators)
      /\ \A k \in 1..Len(enumerators) :
           /\ Invocations[k].due = DueIn(items, enumerators[k])
           /\ Invocations'[k].due = DueIn(items', enumerators'[k])
           /\ Invocations'[k].called = enumerators'[k].called
  <2>1. DOMAIN Invocations' = DOMAIN enumerators'
    BY InvocationsWillBe DEF InvocationsIn
  <2>2. \A k \in DOMAIN enumerators' :
          /\ Invocations'[k].due = DueIn(items', enumerators'[k])
          /\ Invocations'[k].called = enumerators'[k].called
    BY InvocationsWillBe DEF InvocationsIn
  <2> QED BY <1>6, <2>1, <2>2, InvocationsAre
<1>8. ASSUME NEW k \in 1..Len(enumerators)
      PROVE  \E again \in {<<>>} \cup {<<x>> : x \in ToSet(Present)} :
               DueIn(items', enumerators'[k]) =
                 again \o DueIn(items, enumerators[k])
  <2> DEFINE e == enumerators[k]
  <2>1. /\ e \in Enumerators /\ e.mIdx >= -1 /\ d \notin e.since
        /\ e.since \subseteq Delegates
    BY <1>1, <1>2 DEF EventInv, EnumeratorInv, EnumeratorOK, Enumerators
  <2>2. DueIn(items', enumerators'[k]) = DueIn(<<d>> \o items, e)
    BY <1>2, <1>6, DueOf
  <2> HIDE DEF e
  <2>3. PICK again \in {<<>>} \cup {<<x>> : x \in ToSet(items) \cap e.since} :
          DueIn(<<d>> \o items, e) = again \o DueIn(items, e)
    BY <1>1, <1>2, <2>1, DueAtFront
  <2>4. again \in {<<>>} \cup {<<x>> : x \in ToSet(Present)}
    BY <2>1, <2>3, PresentIs
  <2> QED BY <2>2, <2>3, <2>4 DEF e
<1>9. Promise!ToSet(Present) = ToSet(Present)
  BY SameToSet
<1>10. \A k \in DOMAIN Invocations :
         /\ Invocations'[k].called = {}
         /\ \E again \in {<<>>} \cup {<<x>> : x \in ToSet(Present)} :
              Invocations'[k].due = again \o Invocations[k].due
  <2> SUFFICES ASSUME NEW k \in 1..Len(enumerators)
               PROVE
                 /\ Invocations'[k].called = {}
                 /\ \E again \in {<<>>} \cup {<<x>> : x \in ToSet(Present)} :
                      Invocations'[k].due = again \o Invocations[k].due
    BY <1>7
  <2>1. Invocations'[k].called = {}
    BY <1>6, <1>7
  <2>2. PICK again \in {<<>>} \cup {<<x>> : x \in ToSet(Present)} :
          DueIn(items', enumerators'[k]) = again \o DueIn(items, enumerators[k])
    BY <1>8
  <2>3. Invocations'[k].due = again \o Invocations[k].due
    BY <1>7, <2>2
  <2> QED BY <2>1, <2>2, <2>3
<1>11. DOMAIN Invocations' = DOMAIN Invocations
  BY <1>7
<1> QED BY <1>3, <1>4, <1>9, <1>10, <1>11, Zenon DEF Promise!AddFront

(* A delegate that is removed, and everything that follows from it.         *)
LEMMA RemovalKept ==
  ASSUME EventInv, EventInv', NEW d \in Delegates, d \in ToSet(items),
         Present' = Select(Present, Delegates \ {d}),
         enumerators' = Forgotten(enumerators, {d}),
         \A k \in 1..Len(enumerators) :
           DueIn(items', enumerators'[k]) =
             Select(DueIn(items, enumerators[k]), Delegates \ {d})
  PROVE  Promise!RemoveListener(d)
<1>1. /\ enumerators \in Seq(Enumerators)
      /\ DOMAIN enumerators = 1..Len(enumerators)
  BY StateLists DEF EventInv
<1>2. /\ DOMAIN enumerators' = 1..Len(enumerators)
      /\ \A k \in 1..Len(enumerators) :
           enumerators'[k].called = enumerators[k].called \ {d}
  <2>1. DOMAIN enumerators' = 1..Len(enumerators)
    BY <1>1 DEF Forgotten
  <2>2. \A k \in 1..Len(enumerators) :
          enumerators'[k].called = enumerators[k].called \ {d}
    BY <1>1, ForgottenList
  <2> QED BY <2>1, <2>2
<1>3. Invocations' = [k \in 1..Len(enumerators) |->
         [due |-> DueIn(items', enumerators'[k]),
          called |-> enumerators'[k].called]]
  BY <1>2, InvocationsWillBe DEF InvocationsIn
<1>4. Invocations' = [k \in 1..Len(enumerators) |->
         [due |-> Select(DueIn(items, enumerators[k]), Delegates \ {d}),
          called |-> enumerators[k].called \ {d}]]
  BY <1>2, <1>3
<1>5. /\ DOMAIN Invocations = 1..Len(enumerators)
      /\ \A k \in 1..Len(enumerators) :
           /\ Invocations[k].due = DueIn(items, enumerators[k])
           /\ Invocations[k].called = enumerators[k].called
  BY InvocationsAre
<1>6. ASSUME NEW k \in 1..Len(enumerators)
      PROVE  Promise!Without(Invocations[k].due, d) =
               Select(DueIn(items, enumerators[k]), Delegates \ {d})
  BY <1>5, SameWithout
<1>7. Invocations' = [k \in DOMAIN Invocations |->
         [due |-> Promise!Without(Invocations[k].due, d),
          called |-> Invocations[k].called \ {d}]]
  BY <1>4, <1>5, <1>6
<1>8. Present' = Promise!Without(Present, d)
  BY SameWithout
<1>9. d \in Promise!ToSet(Present)
  BY PresentIs, SameToSet
<1> QED BY <1>7, <1>8, <1>9 DEF Promise!RemoveListener

LEMMA RemoveWhileEnumeratingKept ==
  ASSUME EventInv, NEW d \in Delegates, RemoveFromList(d), IsEnumerating
  PROVE  Promise!RemoveListener(d)
<1> DEFINE i == IndexOf(d)
<1>1. /\ items \in Seq(Entries) /\ enumerators \in Seq(Enumerators)
      /\ Len(items) \in Nat /\ DOMAIN items = 1..Len(items)
      /\ \A k \in 1..Len(enumerators) : enumerators[k] \in Enumerators
      /\ Distinct(items, Delegates)
  BY StateLists DEF EventInv, ListInv
<1>2. i \in 1..Len(items) /\ items[i] = d /\ d \in ToSet(items)
  BY IndexOfEntry DEF EventInv, RemoveFromList
<1>3. /\ items' = [items EXCEPT ![i] = Null]
      /\ enumerators' = Forgotten(enumerators, {d})
  BY DEF RemoveFromList, Forget, Forgotten
<1>4. EventInv'
  BY RemoveWhileEnumeratingInv
<1> HIDE DEF i
<1>5. /\ items' \in Seq(Entries) /\ Len(items') = Len(items)
      /\ \A j \in 1..Len(items) : items'[j] = IF j = i THEN Null ELSE items[j]
  <2>1. Null \in Entries
    BY DEF Entries
  <2> QED BY <1>1, <1>2, <1>3, <2>1, ExceptSeq
<1>6. Present' = Select(Present, Delegates \ {d})
  <2> DEFINE R == Delegates \ {d}
  <2>1. Delegates \cap R = R /\ d \notin R /\ Null \notin Delegates
    BY EventAssumption
  <2>2. \A j \in 1..Len(items) :
          j # i => (items[j] \in R <=> items[j] \in Delegates)
    BY <1>1, <1>2 DEF Distinct
  <2> HIDE DEF R
  <2>3. \A j \in 1..Len(items) :
          \/ items[j] = items'[j] /\ (items[j] \in R <=> items[j] \in Delegates)
          \/ items[j] \notin R /\ items'[j] \notin Delegates
    BY <1>2, <1>5, <2>1, <2>2
  <2>4. Select(items, R) = Select(items', Delegates)
    BY <1>1, <1>5, <2>3, SelectSame
  <2>5. Select(Select(items, Delegates), R) = Select(items, R)
    BY <1>1, <2>1, SelectSelect
  <2>6. Present' = Select(Present, R)
    BY <2>4, <2>5, PresentIs, PresentWillBe
  <2> QED BY <2>6 DEF R
<1>7. ASSUME NEW k \in 1..Len(enumerators)
      PROVE  DueIn(items', enumerators'[k]) =
               Select(DueIn(items, enumerators[k]), Delegates \ {d})
  <2>1. /\ enumerators'[k] \in Enumerators
        /\ enumerators'[k].mIdx = enumerators[k].mIdx
        /\ enumerators'[k].since = enumerators[k].since \ {d}
    <3>1. /\ enumerators' \in Seq(Enumerators)
          /\ Len(enumerators') = Len(enumerators)
      BY <1>1, <1>3, ForgottenList
    <3> QED BY <1>1, <1>3, <3>1, ForgottenList, ElementOfSeq
  <2>2. enumerators[k] \in Enumerators /\ enumerators[k].mIdx >= -1
    BY <1>1 DEF EventInv, EnumeratorInv, EnumeratorOK
  <2>3. \A j \in 1..Len(items) :
          items[j] = items'[j] \/ (items[j] = d /\ items'[j] = Null)
    BY <1>2, <1>5
  <2> DEFINE e == enumerators[k]
  <2> DEFINE e2 == enumerators'[k]
  <2>4. /\ e \in Enumerators /\ e.mIdx >= -1 /\ e2 \in Enumerators
        /\ e2.mIdx = e.mIdx /\ e2.since = e.since \ {d}
    BY <2>1, <2>2
  <2> HIDE DEF e, e2
  <2>5. DueIn(items', e2) = Select(DueIn(items, e), Delegates \ {d})
    <3> DEFINE new == items'
    <3>1. /\ items \in Seq(Entries) /\ new \in Seq(Entries)
          /\ Len(new) = Len(items)
          /\ \A j \in 1..Len(items) :
               items[j] = new[j] \/ (items[j] = d /\ new[j] = Null)
      BY <1>1, <1>5, <2>3
    <3> HIDE DEF new
    <3>2. DueIn(new, e2) = Select(DueIn(items, e), Delegates \ {d})
      BY <2>4, <3>1, DueRemoved, SMTT(60)
    <3> QED BY <3>2 DEF new
  <2> QED BY <2>5 DEF e, e2
<1> QED BY <1>2, <1>3, <1>4, <1>6, <1>7, RemovalKept

LEMMA RemoveOutsideKept ==
  ASSUME EventInv, NEW d \in Delegates, RemoveFromList(d), ~IsEnumerating
  PROVE  Promise!RemoveListener(d)
<1> DEFINE i == IndexOf(d)
<1>1. /\ items \in Seq(Entries) /\ Distinct(items, Delegates)
      /\ enumerators = <<>> /\ Len(enumerators) = 0
  BY StateLists, NotEnumerating, EmptySeq DEF EventInv, ListInv
<1>2. i \in 1..Len(items) /\ items[i] = d /\ d \in ToSet(items)
  BY IndexOfEntry DEF EventInv, RemoveFromList
<1>3. /\ items' = RemoveAt(items, i)
      /\ enumerators' = Forgotten(enumerators, {d})
  BY DEF RemoveFromList, Forget, Forgotten
<1>4. EventInv'
  BY RemoveOutsideInv
<1> HIDE DEF i
<1>5. Select(RemoveAt(items, i), Delegates) =
        Select(Select(items, Delegates), Delegates \ {d})
  BY <1>1, <1>2, RemovedSelect
<1>6. Present' = Select(Present, Delegates \ {d})
  BY <1>3, <1>5, PresentIs, PresentWillBe
<1>7. \A k \in 1..Len(enumerators) :
        DueIn(items', enumerators'[k]) =
          Select(DueIn(items, enumerators[k]), Delegates \ {d})
  BY <1>1
<1> QED BY <1>2, <1>3, <1>4, <1>6, <1>7, RemovalKept

(* Nothing is due in a list that is empty.                                  *)
LEMMA DueInNone ==
  ASSUME NEW e \in Enumerators, e.mIdx >= -1
  PROVE  DueIn(<<>>, e) = <<>>
<1>1. <<>> \in Seq(Entries) /\ Len(<<>>) = 0
  BY EmptySeq
<1>2. \A j \in 1..Len(<<>>) : j > e.mIdx + 1 => <<>>[j] = Null
  BY <1>1
<1> QED BY <1>1, <1>2, DueEnded

LEMMA RemoveOneKept ==
  ASSUME EventInv, NEW d \in Delegates, RemoveOne(d)
  PROVE  Promise!RemoveListener(d)
<1>1. /\ items \in Seq(Entries) /\ enumerators \in Seq(Enumerators)
      /\ DOMAIN items = 1..Len(items)
      /\ \A k \in 1..Len(enumerators) : enumerators[k] \in Enumerators
  BY StateLists DEF EventInv
<1>2. /\ items = <<d>> /\ items' = <<>>
      /\ enumerators' = Forgotten(enumerators, {d})
  BY DEF RemoveOne, Forget, Forgotten
<1>3. ToSet(items) = {d}
  <2>1. Len(<<d>>) = 1 /\ <<d>>[1] = d
    OBVIOUS
  <2> QED BY <1>1, <1>2, <2>1 DEF ToSet
<1>4. EventInv'
  BY RemoveOneInv
<1>5. Present' = Select(Present, Delegates \ {d})
  <2>1. Present' = <<>>
    BY <1>2, SelectEmpty, PresentWillBe
  <2>2. ToSet(Present) \cap (Delegates \ {d}) = {}
    BY <1>3, PresentIs
  <2>3. Select(Present, Delegates \ {d}) = <<>>
    BY <2>2, PresentIs, SelectNothing
  <2> QED BY <2>1, <2>3
<1>6. ASSUME NEW k \in 1..Len(enumerators)
      PROVE  DueIn(items', enumerators'[k]) =
               Select(DueIn(items, enumerators[k]), Delegates \ {d})
  <2>1. enumerators[k] \in Enumerators /\ enumerators[k].mIdx >= -1
    BY <1>1 DEF EventInv, EnumeratorInv, EnumeratorOK
  <2>2. enumerators'[k] \in Enumerators /\ enumerators'[k].mIdx >= -1
    <3>1. /\ enumerators' \in Seq(Enumerators)
          /\ Len(enumerators') = Len(enumerators)
          /\ enumerators'[k].mIdx = enumerators[k].mIdx
      BY <1>1, <1>2, ForgottenList
    <3> QED BY <2>1, <3>1, ElementOfSeq
  <2>3. DueIn(items', enumerators'[k]) = <<>>
    BY <1>2, <2>2, DueInNone
  <2>4. /\ DueIn(items, enumerators[k]) \in Seq(Entries)
        /\ ToSet(DueIn(items, enumerators[k])) \subseteq {d}
    BY <1>1, <1>3, <2>1, DueList
  <2>5. Select(DueIn(items, enumerators[k]), Delegates \ {d}) = <<>>
    <3>1. ToSet(DueIn(items, enumerators[k])) \cap (Delegates \ {d}) = {}
      BY <2>4
    <3> QED BY <2>4, <3>1, SelectNothing
  <2> QED BY <2>3, <2>5
<1> QED BY <1>2, <1>3, <1>4, <1>5, <1>6, RemovalKept

LEMMA DisposeKept ==
  ASSUME EventInv, Dispose
  PROVE  Promise!RemoveAll
<1>1. /\ items \in Seq(Entries) /\ enumerators \in Seq(Enumerators)
      /\ DOMAIN enumerators = 1..Len(enumerators)
      /\ \A k \in 1..Len(enumerators) : enumerators[k] \in Enumerators
  BY StateLists DEF EventInv
<1>2. /\ items' = <<>> /\ enumerators' = Forgotten(enumerators, Delegates)
  BY DEF Dispose, Forget, Forgotten
<1>3. Present' = <<>>
  BY <1>2, SelectEmpty, PresentWillBe
<1>4. /\ enumerators' \in Seq(Enumerators)
      /\ Len(enumerators') = Len(enumerators)
      /\ \A k \in 1..Len(enumerators) :
           /\ enumerators'[k].mIdx = enumerators[k].mIdx
           /\ enumerators'[k].called = enumerators[k].called \ Delegates
  BY <1>1, <1>2, ForgottenList
<1>5. DOMAIN enumerators' = 1..Len(enumerators)
  BY <1>4, LenProperties
<1>6. ASSUME NEW k \in 1..Len(enumerators)
      PROVE  /\ DueIn(items', enumerators'[k]) = <<>>
             /\ enumerators'[k].called = {}
  <2>1. enumerators[k] \in Enumerators /\ enumerators[k].mIdx >= -1
    BY <1>1 DEF EventInv, EnumeratorInv, EnumeratorOK
  <2>2. enumerators'[k] \in Enumerators /\ enumerators'[k].mIdx >= -1
    BY <1>4, <2>1, ElementOfSeq
  <2>3. enumerators[k].called \subseteq Delegates
    BY <2>1 DEF Enumerators
  <2>4. DueIn(items', enumerators'[k]) = <<>>
    BY <1>2, <2>2, DueInNone
  <2> QED BY <1>4, <2>3, <2>4
<1>7. Invocations' = [k \in 1..Len(enumerators) |->
         [due |-> DueIn(items', enumerators'[k]),
          called |-> enumerators'[k].called]]
  BY <1>5, InvocationsWillBe DEF InvocationsIn
<1>8. Invocations'
        = [k \in 1..Len(enumerators) |-> [due |-> <<>>, called |-> {}]]
  BY <1>6, <1>7
<1>9. DOMAIN Invocations = 1..Len(enumerators)
  BY InvocationsAre
<1> QED BY <1>3, <1>8, <1>9 DEF Promise!RemoveAll

LEMMA BeginKept ==
  ASSUME EventInv, Begin
  PROVE  Promise!Begin
<1>1. /\ items \in Seq(Entries) /\ enumerators \in Seq(Enumerators)
      /\ Len(enumerators) \in Nat /\ Len(items) \in Nat
      /\ DOMAIN enumerators = 1..Len(enumerators)
      /\ DOMAIN items = 1..Len(items)
      /\ \A i \in 1..Len(items) : items[i] \in Entries
  BY StateLists DEF EventInv
<1> DEFINE e == [mIdx |-> -1, since |-> ToSet(Present), called |-> {}]
<1>2. /\ e \in Enumerators
      /\ e.mIdx = -1
      /\ e.since = ToSet(Present)
      /\ e.called = {}
  BY PresentIs DEF Enumerators
<1>3. enumerators' = Append(enumerators, e) /\ items' = items
  BY DEF Begin
<1> HIDE DEF e
<1>4. DueIn(items, e) = Present
  <2>1. SubSeq(items, 1, Len(items)) = items
    BY <1>1, SubSeqFull
  <2>2. -1 + 2 = 1
    OBVIOUS
  <2>3. DueIn(items, e) = Select(items, ToSet(Present))
    BY <1>2, <2>1, <2>2 DEF DueIn, Behind
  <2>4. \A i \in 1..Len(items) :
          items[i] \in ToSet(Present) <=> items[i] \in Delegates
    BY <1>1, PresentIs DEF ToSet
  <2>5. Select(items, ToSet(Present)) = Select(items, Delegates)
    BY <1>1, <2>4, SelectSame
  <2> QED BY <2>3, <2>5, PresentIs
<1> DEFINE n == Len(enumerators)
<1>5. /\ DOMAIN enumerators' = 1..n + 1 /\ enumerators'[n + 1] = e
      /\ \A k \in 1..n : enumerators'[k] = enumerators[k]
  <2>1. /\ Append(enumerators, e) \in Seq(Enumerators)
        /\ Len(Append(enumerators, e)) = n + 1
        /\ Append(enumerators, e)[n + 1] = e
        /\ \A k \in 1..n : Append(enumerators, e)[k] = enumerators[k]
    BY <1>1, <1>2, AppendProperties
  <2>2. DOMAIN Append(enumerators, e) = 1..n + 1
    BY <2>1, LenProperties
  <2> QED BY <1>3, <2>1, <2>2
<1> DEFINE new == [due |-> Present, called |-> {}]
<1>6. /\ Invocations \in Seq(Invocation) /\ Len(Invocations) = n
      /\ Invocations = InvocationsIn(items, enumerators)
  BY InvocationsAre
<1>7. new \in Invocation
  BY PresentIs DEF Invocation
<1>8. /\ Append(Invocations, new) \in Seq(Invocation)
      /\ DOMAIN Append(Invocations, new) = 1..n + 1
      /\ Append(Invocations, new)[n + 1] = new
      /\ \A k \in 1..n : Append(Invocations, new)[k] = Invocations[k]
  <2> HIDE DEF new
  <2>1. /\ Append(Invocations, new) \in Seq(Invocation)
        /\ Len(Append(Invocations, new)) = n + 1
        /\ Append(Invocations, new)[n + 1] = new
        /\ \A k \in 1..n : Append(Invocations, new)[k] = Invocations[k]
    BY <1>6, <1>7, AppendProperties
  <2> QED BY <2>1, LenProperties
<1>9. /\ Invocations' = [k \in 1..n + 1 |->
            [due |-> DueIn(items, enumerators'[k]),
             called |-> enumerators'[k].called]]
      /\ Invocations = [k \in 1..n |->
            [due |-> DueIn(items, enumerators[k]),
             called |-> enumerators[k].called]]
  BY <1>1, <1>3, <1>5, <1>6, InvocationsWillBe DEF InvocationsIn
<1>10. Invocations' = Append(Invocations, new)
  <2> DEFINE after == Append(Invocations, new)
  <2>1. after = [k \in 1..n + 1 |-> after[k]]
    BY <1>8, LenProperties
  <2>2. ASSUME NEW k \in 1..n + 1
        PROVE  after[k] = [due |-> DueIn(items, enumerators'[k]),
                           called |-> enumerators'[k].called]
    <3>1. CASE k \in 1..n
      BY <1>5, <1>8, <1>9, <3>1
    <3>2. CASE k = n + 1
      <4>1. after[k] = new
        BY <1>8, <3>2
      <4>2. enumerators'[k] = e
        BY <1>5, <3>2
      <4>3. DueIn(items, enumerators'[k]) = Present
            /\ enumerators'[k].called = {}
        BY <1>2, <1>4, <4>2
      <4> QED BY <4>1, <4>3
    <3>3. k \in 1..n \/ k = n + 1
      BY <1>1
    <3> QED BY <3>1, <3>2, <3>3, Zenon
  <2> HIDE DEF after
  <2> QED BY <1>9, <2>1, <2>2 DEF after
<1>11. Present' = Present
  BY <1>3, PresentIs, PresentWillBe
<1> QED BY <1>10, <1>11 DEF Promise!Begin

(* MoveNext calls the handler that is due next, or one that came later.     *)
LEMMA MoveNextKept ==
  ASSUME EventInv, MoveNext
  PROVE  \E d \in Delegates : Promise!Call(d)
<1> DEFINE n == Len(enumerators)
<1>1. /\ items \in Seq(Entries) /\ enumerators \in Seq(Enumerators)
      /\ Len(items) \in Nat /\ n \in Nat
      /\ DOMAIN items = 1..Len(items) /\ DOMAIN enumerators = 1..n
      /\ Distinct(items, Delegates) /\ items' = items
  BY StateLists DEF EventInv, ListInv, MoveNext
<1>2. PICK i \in 1..Len(items), e2 \in Enumerators :
        /\ n \in 1..n /\ enumerators[n] \in Enumerators
        /\ i > enumerators[n].mIdx + 1 /\ items[i] \in Delegates
        /\ \A j \in 1..Len(items) :
             enumerators[n].mIdx + 1 < j /\ j < i => items[j] = Null
        /\ e2.mIdx = i - 1 /\ e2.since = enumerators[n].since
        /\ e2.called = enumerators[n].called \cup {items[i]}
        /\ enumerators' = [enumerators EXCEPT ![n] = e2]
  BY MoveNextStep
<1>3. EnumeratorOK(items, enumerators[n])
  BY <1>2 DEF EventInv, EnumeratorInv
<1>4. PICK e \in Enumerators : e = enumerators[n]
  BY <1>2
<1> DEFINE d == items[i]
<1>5. e.mIdx >= -1 /\ e.mIdx \in Int /\ e2.mIdx >= -1 /\ i <= e2.mIdx + 1
  BY <1>2, <1>3, <1>4 DEF EnumeratorOK, Enumerators
<1>6. DueIn(items, e) = IF d \in e.since THEN <<d>> \o DueIn(items, e2)
                                         ELSE DueIn(items, e2)
  BY <1>1, <1>2, <1>4, <1>5, DueNext
<1>7. d \notin ToSet(DueIn(items, e2))
  BY <1>1, <1>2, <1>5, DueIsBehind
<1>8. /\ DueIn(items, e2) \in Seq(Entries) /\ DueIn(items, e) \in Seq(Entries)
      /\ ToSet(DueIn(items, e2)) \subseteq Delegates
      /\ ToSet(DueIn(items, e)) \subseteq e.since
  <2>1. e2.since \subseteq Delegates
    BY DEF Enumerators
  <2> QED BY <1>1, <1>5, <2>1, DueList
<1>9. d \notin e.called
  <2> SUFFICES ASSUME d \in e.called
               PROVE  FALSE
    OBVIOUS
  <2>1. PICK j \in 1..Len(items) : j <= e.mIdx + 1 /\ items[j] = d
    BY <1>3, <1>4 DEF EnumeratorOK, CalledUpTo
  <2>2. j = i
    BY <1>1, <1>2, <2>1 DEF Distinct
  <2> QED BY <1>2, <1>4, <1>5, <2>1, <2>2
<1>10. d \in ToSet(Present)
  BY <1>1, <1>2, PresentIs DEF ToSet
<1>11. d \in ToSet(DueIn(items, e)) => d = Head(DueIn(items, e))
  <2>1. CASE d \in e.since
    BY <1>6, <2>1
  <2>2. CASE d \notin e.since
    BY <1>8, <2>2
  <2> QED BY <2>1, <2>2
<1>12. Select(DueIn(items, e), Delegates \ {d}) = DueIn(items, e2)
  <2> DEFINE R == Delegates \ {d}
  <2> DEFINE rest == DueIn(items, e2)
  <2>1. /\ rest \in Seq(Entries)
        /\ ToSet(rest) \subseteq R
        /\ d \notin R
        /\ d \in Entries
    BY <1>2, <1>7, <1>8 DEF Entries
  <2> HIDE DEF R, rest, d
  <2>2. Select(rest, R) = rest
    BY <2>1, SelectAll
  <2>3. Select(<<d>> \o rest, R) = rest
    BY <2>1, <2>2, SelectFirst
  <2>4. DueIn(items, e) = <<d>> \o rest \/ DueIn(items, e) = rest
    BY <1>6 DEF rest, d
  <2>5. Select(DueIn(items, e), R) = rest
    BY <2>2, <2>3, <2>4
  <2> QED BY <2>5 DEF R, rest, d
<1>13. /\ Invocations # <<>> /\ Len(Invocations) = n
       /\ DOMAIN Invocations = 1..n /\ Invocations \in Seq(Invocation)
       /\ Last(Invocations).due = DueIn(items, e)
       /\ Last(Invocations).called = e.called
  <2>1. Len(Invocations) # 0
    BY <1>1, <1>2, InvocationsAre
  <2> QED BY <1>2, <1>4, <2>1, InvocationsAre, EmptySeq DEF Last
<1>14. Invocations' = [Invocations EXCEPT ![n] =
          [due |-> DueIn(items, e2), called |-> e.called \cup {d}]]
  <2>1. /\ DOMAIN enumerators' = 1..n
        /\ \A k \in 1..n :
             enumerators'[k] = IF k = n THEN e2 ELSE enumerators[k]
    BY <1>1, <1>2
  <2>2. Invocations' = [k \in 1..n |->
          [due |-> DueIn(items, enumerators'[k]),
           called |-> enumerators'[k].called]]
    BY <1>1, <2>1, InvocationsWillBe DEF InvocationsIn
  <2>3. Invocations = [k \in 1..n |->
          [due |-> DueIn(items, enumerators[k]),
           called |-> enumerators[k].called]]
    BY <1>1, InvocationsAre DEF InvocationsIn
  <2> QED BY <1>2, <1>4, <2>1, <2>2, <2>3
<1>15. Present' = Present
  BY <1>1, PresentIs, PresentWillBe
<1>16. Promise!Call(d)
  <2>1. Promise!Last(Invocations) = Last(Invocations)
    BY SameLastFront
  <2>2. /\ Promise!ToSet(Present) = ToSet(Present)
        /\ Promise!ToSet(DueIn(items, e)) = ToSet(DueIn(items, e))
    BY SameToSet
  <2>3. Promise!Without(DueIn(items, e), d) = DueIn(items, e2)
    BY <1>12, SameWithout
  <2> QED BY <1>9, <1>10, <1>11, <1>13, <1>14, <1>15, <2>1, <2>2, <2>3
          DEF Promise!Call
<1> QED BY <1>2, <1>16

(* The innermost invocation ends: nothing is due in it any more.            *)
LEMMA EndedKept ==
  ASSUME EventInv, IsEnumerating, NextIndices = {},
         enumerators' = Front(enumerators), Present' = Present,
         items' = items \/ Len(enumerators) = 1
  PROVE  Promise!End
<1> DEFINE n == Len(enumerators)
<1>1. /\ items \in Seq(Entries) /\ enumerators \in Seq(Enumerators)
      /\ n \in Nat /\ n # 0 /\ DOMAIN items = 1..Len(items)
      /\ DOMAIN enumerators = 1..n
      /\ \A k \in 1..n : enumerators[k] \in Enumerators
  BY StateLists DEF EventInv
<1>2. n \in 1..n /\ \A k \in 1..n - 1 : k \in 1..n
  BY <1>1
<1>3. PICK e \in Enumerators : e = enumerators[n]
  BY <1>1, <1>2
<1>4. e.mIdx >= -1
  BY <1>2, <1>3 DEF EventInv, EnumeratorInv, EnumeratorOK
<1>5. \A j \in 1..Len(items) : j > e.mIdx + 1 => items[j] = Null
  BY <1>1, <1>3 DEF NextIndices, Last
<1>6. DueIn(items, e) = <<>>
  BY <1>1, <1>4, <1>5, DueEnded
<1>7. /\ Invocations \in Seq(Invocation) /\ Len(Invocations) = n
      /\ DOMAIN Invocations = 1..n /\ Invocations[n].due = <<>>
      /\ \A k \in 1..n : Invocations[k] \in Invocation
  BY <1>2, <1>3, <1>6, InvocationsAre, ElementOfSeq
<1>8. Invocations # <<>> /\ Last(Invocations).due = <<>>
  BY <1>1, <1>7, EmptySeq DEF Last
<1>9. /\ enumerators' \in Seq(Enumerators) /\ DOMAIN enumerators' = 1..n - 1
      /\ \A k \in 1..n - 1 : enumerators'[k] = enumerators[k]
  BY <1>1, FrontList
<1>10. /\ Front(Invocations) \in Seq(Invocation)
       /\ DOMAIN Front(Invocations) = 1..n - 1
       /\ \A k \in 1..n - 1 : Front(Invocations)[k] = Invocations[k]
  BY <1>1, <1>7, FrontList
<1>11. ASSUME NEW k \in 1..n - 1
       PROVE  DueIn(items', enumerators'[k]) = DueIn(items, enumerators[k])
  <2>1. items' = items
    BY <1>1
  <2> QED BY <1>9, <2>1
<1>12. Invocations' = [k \in 1..n - 1 |->
          [due |-> DueIn(items, enumerators[k]),
           called |-> enumerators[k].called]]
  BY <1>9, <1>11, InvocationsWillBe DEF InvocationsIn
<1>13. Invocations = [k \in 1..n |->
          [due |-> DueIn(items, enumerators[k]),
           called |-> enumerators[k].called]]
  BY <1>1, InvocationsAre DEF InvocationsIn
<1>14. Invocations' = Front(Invocations)
  <2> DEFINE f == Front(Invocations)
  <2>1. f = [k \in 1..n - 1 |-> f[k]]
    BY <1>10, LenProperties
  <2>2. \A k \in 1..n - 1 : f[k] = [due |-> DueIn(items, enumerators[k]),
                                    called |-> enumerators[k].called]
    BY <1>2, <1>10, <1>13
  <2> HIDE DEF f
  <2> QED BY <1>12, <2>1, <2>2 DEF f
<1>15. /\ Promise!Last(Invocations) = Last(Invocations)
       /\ Promise!Front(Invocations) = Front(Invocations)
  BY SameLastFront
<1> QED BY <1>8, <1>14, <1>15 DEF Promise!End

LEMMA EndInnerKept ==
  ASSUME EventInv, EndInner
  PROVE  Promise!End
<1>1. IsEnumerating
  <2>1. Len(enumerators) > 1
    BY DEF EndInner
  <2> QED BY <2>1, StateLists DEF EventInv
<1>2. items' = items /\ enumerators' = Front(enumerators) /\ NextIndices = {}
  BY DEF EndInner
<1>3. Present' = Present
  BY <1>2, PresentIs, PresentWillBe
<1> QED BY <1>1, <1>2, <1>3, EndedKept

LEMMA EndRootKept ==
  ASSUME EventInv, EndRoot
  PROVE  Promise!End
<1>1. /\ items \in Seq(Entries) /\ enumerators \in Seq(Enumerators)
  BY StateLists DEF EventInv
<1>2. /\ NextIndices = {} /\ Len(enumerators) = 1 /\ enumerators' = <<>>
      /\ items' = Present \/ items' = items
  BY DEF EndRoot
<1>3. IsEnumerating
  BY <1>2, StateLists DEF EventInv
<1>4. enumerators' = Front(enumerators)
  <2>1. Front(enumerators) \in Seq(Enumerators) /\ Len(Front(enumerators)) = 0
    <3>1. Len(enumerators) # 0 /\ Len(enumerators) - 1 = 0
      BY <1>2
    <3>2. /\ Front(enumerators) \in Seq(Enumerators)
          /\ Len(Front(enumerators)) = Len(enumerators) - 1
      BY <1>1, <3>1, FrontList
    <3> QED BY <3>1, <3>2
  <2> QED BY <1>2, <2>1, EmptySeq
<1>5. Present' = Present
  <2>1. Delegates \cap Delegates = Delegates
    OBVIOUS
  <2>2. Select(Select(items, Delegates), Delegates) = Select(items, Delegates)
    BY <1>1, <2>1, SelectSelect
  <2> QED BY <1>2, <2>2, PresentIs, PresentWillBe
<1> QED BY <1>2, <1>3, <1>4, <1>5, EndedKept

(* A step that changes neither the list nor the enumerators.                *)
LEMMA StutterKept ==
  ASSUME UNCHANGED <<items, enumerators>>
  PROVE  UNCHANGED Promise!vars
<1>1. Invocations' = InvocationsIn(items, enumerators) /\ Present' = Present
  BY InvocationsWillBe DEF Present
<1>2. Invocations = InvocationsIn(items, enumerators)
  BY DEF Invocations, InvocationsIn, Due, DueIn, Behind
<1> QED BY <1>1, <1>2 DEF Promise!vars

LEMMA StepKept == EventInv /\ [Next]_vars => [Promise!Next]_(Promise!vars)
<1> SUFFICES ASSUME EventInv, [Next]_vars
             PROVE  Promise!Next \/ UNCHANGED Promise!vars
  BY Zenon
<1>1. ASSUME NEW d \in Delegates, Add(d) PROVE Promise!Next
  BY <1>1, AddKept DEF Promise!Next
<1>2. ASSUME NEW d \in Delegates, AddFront(d) PROVE Promise!Next
  BY <1>2, AddFrontKept DEF Promise!Next
<1>3. ASSUME NEW d \in Delegates, RemoveFromList(d) PROVE Promise!Next
  BY <1>3, RemoveWhileEnumeratingKept, RemoveOutsideKept DEF Promise!Next
<1>4. ASSUME NEW d \in Delegates, RemoveOne(d) PROVE Promise!Next
  BY <1>4, RemoveOneKept DEF Promise!Next
<1>5. CASE Dispose
  BY <1>5, DisposeKept DEF Promise!Next
<1>6. CASE Begin
  BY <1>6, BeginKept DEF Promise!Next
<1>7. CASE MoveNext
  BY <1>7, MoveNextKept DEF Promise!Next
<1>8. CASE EndInner
  BY <1>8, EndInnerKept DEF Promise!Next
<1>9. CASE EndRoot
  BY <1>9, EndRootKept DEF Promise!Next
<1>10. CASE EndRootBadCast
  <2>1. UNCHANGED <<items, enumerators>>
    BY <1>10 DEF EndRootBadCast
  <2> QED BY <2>1, StutterKept
<1>11. CASE UNCHANGED vars
  <2>1. UNCHANGED <<items, enumerators>>
    BY <1>11 DEF vars
  <2> QED BY <2>1, StutterKept
<1> QED BY <1>1, <1>2, <1>3, <1>4, <1>5, <1>6, <1>7, <1>8, <1>9, <1>10, <1>11
           DEF Next

(* The event implements EventSpec: whatever handlers add, remove, dispose   *)
(* and invoke, an invocation calls those that were there when it began and  *)
(* were not removed, in order and once, and none that was removed.          *)
THEOREM PromiseIsKept == Spec => KeepsPromise
<1>1. Init => Promise!Init
  BY InitKept
<1>2. EventInv /\ [Next]_vars => [Promise!Next]_(Promise!vars)
  BY StepKept
<1> QED BY <1>1, <1>2, ListAndEnumerators, PTL
       DEF Spec, KeepsPromise, Promise!Spec
==============================================================================
