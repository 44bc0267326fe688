------------------------- MODULE SubsequencesProofs -------------------------
(***************************************************************************)
(* Facts about Only, and the induction they rest on.  Only is a recursive  *)
(* function; a fact about all its values is proved by taking the least     *)
(* counterexample.                                                         *)
(***************************************************************************)
EXTENDS Subsequences, FiniteSetsExt, SequenceTheorems, WellFoundedInduction,
        TLAPS

-----------------------------------------------------------------------------
(* Induction, and the elements of a sequence that are in a set *)

\* A set of numbers that is not empty has a least element: what every induction
\* below rests on.
LEMMA Least ==
  ASSUME NEW T \in SUBSET Nat, T # {}
  PROVE  \E m \in T : \A n \in T : m <= n
<1>1. IsWellFoundedOn(OpToRel(<, Nat), Nat)
  BY NatLessThanWellFounded
<1>2. PICK m \in T : \A n \in T : ~(<< n, m >> \in OpToRel(<, Nat))
  BY <1>1, WFMin
<1>3. \A n \in T : ~(n < m)
  BY <1>2 DEF OpToRel
<1> QED
  BY <1>3

\* One step of Only.
OneMore(o, e, S) == IF e \in S THEN Append(o, e) ELSE o

\* A function with the recursion of Only.
IsOnly(f, s, S, k) ==
    f[0] = << >> /\ \A n \in 1..k : f[n] = OneMore(f[n - 1], s[n], S)

\* A function with that recursion exists, ...
LEMMA OnlyExists ==
  ASSUME NEW s, NEW S, NEW k \in Nat
  PROVE  \E f : IsOnly(f, s, S, k)
<1> DEFINE T == { n \in Nat : ~(\E f : IsOnly(f, s, S, n)) }
<1> SUFFICES ASSUME T # {} PROVE FALSE
  OBVIOUS
<1>0. T \in SUBSET Nat
  OBVIOUS
<1>1. PICK m \in T : \A n \in T : m <= n
  <2> HIDE DEF T
  <2> QED
    BY <1>0, Least
<1>2. CASE m = 0
  <2> DEFINE g == [n \in {0} |-> << >>]
  <2>1. g[0] = << >>
    OBVIOUS
  <2>2. IsOnly(g, s, S, 0)
    BY <2>1 DEF IsOnly
  <2> QED
    BY <1>1, <1>2, <2>2
<1>3. CASE m # 0
  <2>1. m - 1 \in Nat /\ m - 1 \notin T
    BY <1>1, <1>3
  <2>2. PICK f : IsOnly(f, s, S, m - 1)
    BY <2>1
  <2> DEFINE g == [n \in 0..m |->
                     IF n = m THEN OneMore(f[m - 1], s[m], S) ELSE f[n]]
  <2>3. g[m] = OneMore(f[m - 1], s[m], S) /\ \A n \in 0..(m - 1) : g[n] = f[n]
    BY <1>1
  <2> HIDE DEF g
  <2>4. g[0] = << >>
    BY <2>2, <2>3, <1>1, <1>3 DEF IsOnly
  <2>5. ASSUME NEW n \in 1..m PROVE g[n] = OneMore(g[n - 1], s[n], S)
    <3>1. g[n - 1] = f[n - 1]
      BY <2>3, <1>1
    <3>2. n # m => g[n] = f[n] /\ f[n] = OneMore(f[n - 1], s[n], S)
      BY <2>2, <2>3, <1>1 DEF IsOnly
    <3> QED
      BY <2>3, <3>1, <3>2
  <2>6. IsOnly(g, s, S, m)
    BY <2>4, <2>5 DEF IsOnly
  <2> QED
    BY <2>6, <1>1
<1> QED
  BY <1>2, <1>3

\* ... its values depend on the beginning of the sequence alone, ...
LEMMA OnlyAgrees ==
  ASSUME NEW s, NEW t, NEW S, NEW f, NEW g, NEW j \in Nat, NEW k \in Nat,
         IsOnly(f, s, S, j), IsOnly(g, t, S, k),
         NEW m \in Nat, m <= j, m <= k, \A i \in 1..m : s[i] = t[i]
  PROVE  f[m] = g[m]
<1> DEFINE T == { n \in 0..m : f[n] # g[n] }
<1> SUFFICES ASSUME T # {} PROVE FALSE
  OBVIOUS
<1>0. T \in SUBSET Nat
  OBVIOUS
<1>1. PICK n \in T : \A i \in T : n <= i
  <2> HIDE DEF T
  <2> QED
    BY <1>0, Least
<1>2. n # 0
  BY <1>1 DEF IsOnly
<1>3. n - 1 \in 0..m /\ n \in 1..m /\ n \in 1..j /\ n \in 1..k
  BY <1>1, <1>2
<1>4. f[n - 1] = g[n - 1]
  BY <1>1, <1>3
<1>5. /\ f[n] = OneMore(f[n - 1], s[n], S)
      /\ g[n] = OneMore(g[n - 1], t[n], S)
  BY <1>3 DEF IsOnly
<1>6. f[n] = g[n]
  BY <1>3, <1>4, <1>5
<1> QED
  BY <1>1, <1>6

\* ... and it is the one Only is defined with.
LEMMA OnlyIs ==
  ASSUME NEW T, NEW s \in Seq(T), NEW S
  PROVE  \E f : IsOnly(f, s, S, Len(s)) /\ Only(s, S) = f[Len(s)]
<1> DEFINE P(f) == f = [n \in 0..Len(s) |->
           IF n = 0 THEN << >>
           ELSE IF s[n] \in S THEN Append(f[n - 1], s[n]) ELSE f[n - 1]]
<1> DEFINE c == CHOOSE f : P(f)
<1>l. Len(s) \in Nat
  OBVIOUS
<1>1. \E f : P(f)
  <2>1. PICK h : IsOnly(h, s, S, Len(s))
    BY <1>l, OnlyExists
  <2> DEFINE g == [n \in 0..Len(s) |-> h[n]]
  <2>2. \A n \in 0..Len(s) : g[n] =
           IF n = 0 THEN << >>
           ELSE IF s[n] \in S THEN Append(g[n - 1], s[n]) ELSE g[n - 1]
    <3> TAKE n \in 0..Len(s)
    <3>1. g[n] = h[n] /\ (n # 0 => g[n - 1] = h[n - 1] /\ n \in 1..Len(s))
      BY <1>l
    <3> HIDE DEF g
    <3> QED
      BY <3>1, <2>1 DEF IsOnly, OneMore
  <2>3. g = [n \in 0..Len(s) |->
           IF n = 0 THEN << >>
           ELSE IF s[n] \in S THEN Append(g[n - 1], s[n]) ELSE g[n - 1]]
    <3> DEFINE w == [n \in 0..Len(s) |->
           IF n = 0 THEN << >>
           ELSE IF s[n] \in S THEN Append(g[n - 1], s[n]) ELSE g[n - 1]]
    <3>1. \A n \in 0..Len(s) : g[n] = w[n]
      <4> HIDE DEF g
      <4> QED
        BY <2>2
    <3>2. g = [n \in 0..Len(s) |-> g[n]] /\ w = [n \in 0..Len(s) |-> w[n]]
      OBVIOUS
    <3>3. g = w
      <4> HIDE DEF g, w
      <4> QED
        BY <3>1, <3>2
    <3> QED
      BY <3>3
  <2>4. P(g)
    BY <2>3
  <2> HIDE DEF P, g
  <2> QED
    BY <2>4
<1>2. P(c)
  <2> HIDE DEF P
  <2> QED
    BY <1>1
<1>3. Only(s, S) = c[Len(s)]
  BY DEF Only
<1>4. IsOnly(c, s, S, Len(s))
  <2> HIDE DEF c
  <2>1. \A n \in 0..Len(s) : c[n] =
           IF n = 0 THEN << >>
           ELSE IF s[n] \in S THEN Append(c[n - 1], s[n]) ELSE c[n - 1]
    <3> DEFINE w == [n \in 0..Len(s) |->
           IF n = 0 THEN << >>
           ELSE IF s[n] \in S THEN Append(c[n - 1], s[n]) ELSE c[n - 1]]
    <3>1. c = w
      BY <1>2
    <3>2. \A n \in 0..Len(s) : w[n] =
           IF n = 0 THEN << >>
           ELSE IF s[n] \in S THEN Append(c[n - 1], s[n]) ELSE c[n - 1]
      OBVIOUS
    <3> QED
      BY <3>1, <3>2
  <2>2. c[0] = << >>
    BY <2>1, <1>l
  <2>3. \A n \in 1..Len(s) : c[n] = OneMore(c[n - 1], s[n], S)
    <3> TAKE n \in 1..Len(s)
    <3>1. n \in 0..Len(s) /\ n # 0
      BY <1>l
    <3> QED
      BY <2>1, <3>1 DEF OneMore
  <2> QED
    BY <2>2, <2>3 DEF IsOnly
<1> QED
  BY <1>3, <1>4

\* Induction over sequences: a set with the empty sequence that is closed under
\* Append has all of them.
LEMMA SeqInduct ==
  ASSUME NEW T, NEW U, << >> \in U,
         \A s \in Seq(T), e \in T : s \in U => Append(s, e) \in U
  PROVE  Seq(T) \subseteq U
<1> DEFINE B == { n \in Nat : \E s \in Seq(T) : s \notin U /\ Len(s) = n }
<1> SUFFICES ASSUME NEW s0 \in Seq(T), s0 \notin U PROVE FALSE
  OBVIOUS
<1>0. B \in SUBSET Nat /\ Len(s0) \in B
  OBVIOUS
<1>1. PICK m \in B : \A n \in B : m <= n
  <2> HIDE DEF B
  <2> QED
    BY <1>0, Least
<1>2. PICK s \in Seq(T) : s \notin U /\ Len(s) = m
  BY <1>1
<1>3. s # << >>
  BY <1>2
<1>4. PICK r \in Seq(T), e \in T : s = Append(r, e)
  BY <1>3, SequenceEmptyOrAppend
<1>5. Len(r) < m /\ Len(r) \in Nat
  BY <1>2, <1>4, AppendProperties
<1>6. r \notin U
  BY <1>2, <1>4
<1> QED
  BY <1>1, <1>5, <1>6

\* What Only does at the end of a sequence, ...
LEMMA OnlyNil == ASSUME NEW S PROVE Only(<< >>, S) = << >>
<1>1. << >> \in Seq({}) /\ Len(<< >>) = 0
  OBVIOUS
<1>2. PICK f : IsOnly(f, << >>, S, Len(<< >>))
      /\ Only(<< >>, S) = f[Len(<< >>)]
  BY <1>1, OnlyIs
<1> QED
  BY <1>1, <1>2 DEF IsOnly

\* ... and one element later.
LEMMA OnlyAppend ==
  ASSUME NEW T, NEW s \in Seq(T), NEW e \in T, NEW S
  PROVE  Only(Append(s, e), S) = OneMore(Only(s, S), e, S)
<1> DEFINE t == Append(s, e)
<1>1. /\ t \in Seq(T) /\ Len(t) = Len(s) + 1 /\ Len(s) \in Nat
      /\ t[Len(s) + 1] = e /\ \A i \in 1..Len(s) : t[i] = s[i]
  BY AppendProperties
<1> HIDE DEF t
<1>2. PICK f : IsOnly(f, s, S, Len(s)) /\ Only(s, S) = f[Len(s)]
  BY OnlyIs
<1>3. PICK g : IsOnly(g, t, S, Len(t)) /\ Only(t, S) = g[Len(t)]
  BY <1>1, OnlyIs
<1>4. f[Len(s)] = g[Len(s)]
  <2>1. Len(s) \in Nat /\ Len(t) \in Nat /\ Len(s) <= Len(s)
        /\ Len(s) <= Len(t)
        /\ \A i \in 1..Len(s) : s[i] = t[i]
    BY <1>1
  <2> QED
    BY <2>1, <1>2, <1>3, OnlyAgrees
<1>5. Len(t) \in 1..Len(t) /\ Len(t) - 1 = Len(s)
  BY <1>1
<1>6. g[Len(t)] = OneMore(g[Len(s)], e, S)
  BY <1>1, <1>3, <1>5 DEF IsOnly
<1> QED
  BY <1>2, <1>3, <1>4, <1>6 DEF t

\* What is left is in the set.
LEMMA OnlyType ==
  ASSUME NEW T, NEW s \in Seq(T), NEW S
  PROVE  Only(s, S) \in Seq(S)
<1> DEFINE U == { r \in Seq(T) : Only(r, S) \in Seq(S) }
<1>1. << >> \in U
  <2>1. << >> \in Seq(T) /\ << >> \in Seq(S) /\ Only(<< >>, S) = << >>
    BY OnlyNil
  <2> QED
    BY <2>1
<1>2. ASSUME NEW r \in Seq(T), NEW e \in T, r \in U PROVE Append(r, e) \in U
  <2>1. Append(r, e) \in Seq(T)
        /\ Only(Append(r, e), S) = OneMore(Only(r, S), e, S)
    BY OnlyAppend, AppendProperties
  <2>2. OneMore(Only(r, S), e, S) \in Seq(S)
    <3>1. Only(r, S) \in Seq(S)
      BY <1>2
    <3> QED
      BY <3>1, AppendProperties DEF OneMore
  <2> QED
    BY <2>1, <2>2
<1> HIDE DEF U
<1>3. Seq(T) \subseteq U
  BY <1>1, <1>2, SeqInduct
<1> QED
  BY <1>3 DEF U

\* If everything is in the set, everything is left.
LEMMA OnlyAll ==
  ASSUME NEW S, NEW s \in Seq(S)
  PROVE  Only(s, S) = s
<1> DEFINE U == { r \in Seq(S) : Only(r, S) = r }
<1>1. << >> \in U
  BY OnlyNil
<1>2. ASSUME NEW r \in Seq(S), NEW e \in S, r \in U PROVE Append(r, e) \in U
  <2>1. Append(r, e) \in Seq(S)
        /\ Only(Append(r, e), S) = OneMore(Only(r, S), e, S)
    BY OnlyAppend, AppendProperties
  <2> QED
    BY <1>2, <2>1 DEF OneMore
<1> HIDE DEF U
<1>3. Seq(S) \subseteq U
  BY <1>1, <1>2, SeqInduct
<1> QED
  BY <1>3 DEF U

\* Parts can be filtered one by one.
LEMMA OnlyConcat ==
  ASSUME NEW T, NEW s \in Seq(T), NEW t \in Seq(T), NEW S
  PROVE  Only(s \o t, S) = Only(s, S) \o Only(t, S)
<1> DEFINE U == { r \in Seq(T) : Only(s \o r, S) = Only(s, S) \o Only(r, S) }
<1>0. Only(s, S) \in Seq(S)
  BY OnlyType
<1>1. << >> \in U
  <2>1. s \o << >> = s /\ Only(s, S) \o << >> = Only(s, S)
    BY <1>0, ConcatEmptySeq
  <2>2. Only(<< >>, S) = << >> /\ << >> \in Seq(T)
    BY OnlyNil
  <2> QED
    BY <2>1, <2>2
<1>2. ASSUME NEW r \in Seq(T), NEW e \in T, r \in U PROVE Append(r, e) \in U
  <2>1. Append(r, e) \in Seq(T) /\ s \o r \in Seq(T) /\ Only(r, S) \in Seq(S)
    BY OnlyType, AppendProperties, ConcatProperties
  <2>2. s \o Append(r, e) = Append(s \o r, e)
    OBVIOUS
  <2>3. /\ Only(Append(r, e), S) = OneMore(Only(r, S), e, S)
        /\ Only(Append(s \o r, e), S) = OneMore(Only(s \o r, S), e, S)
    BY <2>1, OnlyAppend
  <2>4. Only(s \o r, S) = Only(s, S) \o Only(r, S)
    BY <1>2
  <2>5. OneMore(Only(s, S) \o Only(r, S), e, S)
          = Only(s, S) \o OneMore(Only(r, S), e, S)
    <3> DEFINE o == Only(s, S)
               p == Only(r, S)
    <3> HIDE DEF o, p
    <3>1. o \in Seq(S) /\ p \in Seq(S)
      BY <1>0, <2>1 DEF o, p
    <3>2. ASSUME e \in S PROVE Append(o \o p, e) = o \o Append(p, e)
      <4>1. o \o p \in Seq(S) /\ << e >> \in Seq(S)
        BY <3>1, <3>2, ConcatProperties
      <4>2. /\ Append(o \o p, e) = (o \o p) \o << e >>
            /\ Append(p, e) = p \o << e >>
        BY <3>1, <3>2, <4>1, AppendIsConcat
      <4> QED
        BY <3>1, <4>1, <4>2, ConcatAssociative, SMTT(30)
    <3> QED
      BY <3>2 DEF OneMore, o, p
  <2> QED
    BY <2>1, <2>2, <2>3, <2>4, <2>5
<1> HIDE DEF U
<1>3. Seq(T) \subseteq U
  BY <1>1, <1>2, SeqInduct
<1> QED
  BY <1>3 DEF U

\* Only the difference of the sets on the elements at hand matters, ...
LEMMA OnlySame ==
  ASSUME NEW T, NEW s \in Seq(T), NEW S, NEW R, \A e \in T : e \in S <=> e \in R
  PROVE  Only(s, S) = Only(s, R)
<1> DEFINE U == { r \in Seq(T) : Only(r, S) = Only(r, R) }
<1>1. << >> \in U
  BY OnlyNil
<1>2. ASSUME NEW r \in Seq(T), NEW e \in T, r \in U PROVE Append(r, e) \in U
  <2>1. /\ Append(r, e) \in Seq(T)
        /\ Only(Append(r, e), S) = OneMore(Only(r, S), e, S)
        /\ Only(Append(r, e), R) = OneMore(Only(r, R), e, R)
    BY OnlyAppend, AppendProperties
  <2>2. OneMore(Only(r, S), e, S) = OneMore(Only(r, R), e, R)
    <3>1. (e \in S <=> e \in R) /\ Only(r, S) = Only(r, R)
      BY <1>2
    <3> QED
      BY <3>1 DEF OneMore
  <2> QED
    BY <2>1, <2>2
<1> HIDE DEF U
<1>3. Seq(T) \subseteq U
  BY <1>1, <1>2, SeqInduct
<1> QED
  BY <1>3 DEF U

\* ... so that nothing is left where nothing is in the set, ...
LEMMA OnlyNone ==
  ASSUME NEW T, NEW s \in Seq(T), NEW S, \A e \in T : e \notin S
  PROVE  Only(s, S) = << >>
<1>1. Only(s, S) = Only(s, {})
  BY OnlySame
<1>2. Only(s, {}) \in Seq({})
  BY OnlyType
<1>3. \A r \in Seq({}) : r = << >>
  <2> SUFFICES ASSUME NEW r \in Seq({}), r # << >> PROVE FALSE
    OBVIOUS
  <2>1. Len(r) \in 1..Len(r)
    BY EmptySeq
  <2> QED
    BY <2>1, ElementOfSeq
<1> QED
  BY <1>1, <1>2, <1>3

\* ... and filtering twice is filtering by both sets.
LEMMA OnlyTwice ==
  ASSUME NEW T, NEW s \in Seq(T), NEW S, NEW R
  PROVE  Only(Only(s, S), R) = Only(s, S \intersect R)
<1> DEFINE U == { r \in Seq(T) : Only(Only(r, S), R) = Only(r, S \intersect R) }
<1>1. << >> \in U
  BY OnlyNil
<1>2. ASSUME NEW r \in Seq(T), NEW e \in T, r \in U PROVE Append(r, e) \in U
  <2>1. /\ Append(r, e) \in Seq(T)
        /\ Only(Append(r, e), S) = OneMore(Only(r, S), e, S)
        /\ Only(Append(r, e), S \intersect R)
             = OneMore(Only(r, S \intersect R), e, S \intersect R)
    BY OnlyAppend, AppendProperties
  <2>2. Only(r, S) \in Seq(S)
    BY OnlyType
  <2>3. e \in S => Only(Append(Only(r, S), e), R)
                     = OneMore(Only(Only(r, S), R), e, R)
    BY <2>2, OnlyAppend
  <2>4. Only(Only(r, S), R) = Only(r, S \intersect R)
    BY <1>2
  <2>5. Only(OneMore(Only(r, S), e, S), R)
          = OneMore(Only(r, S \intersect R), e, S \intersect R)
    <3>1. CASE e \in S
      BY <3>1, <2>3, <2>4 DEF OneMore
    <3>2. CASE e \notin S
      BY <3>2, <2>4 DEF OneMore
    <3> QED
      BY <3>1, <3>2
  <2> QED
    BY <2>1, <2>5
<1> HIDE DEF U
<1>3. Seq(T) \subseteq U
  BY <1>1, <1>2, SeqInduct
<1> QED
  BY <1>3 DEF U

\* What is left is also what it was.
LEMMA OnlyKeeps ==
  ASSUME NEW T, NEW s \in Seq(T), NEW S
  PROVE  Only(s, S) \in Seq(T \intersect S) /\ Only(s, S) \in Seq(T)
<1>1. Only(s, S) = Only(s, T \intersect S)
  BY OnlySame
<1>2. Only(s, T \intersect S) \in Seq(T \intersect S)
  BY OnlyType
<1>3. Seq(T \intersect S) \subseteq Seq(T)
  BY SeqMonotonic
<1> QED
  BY <1>1, <1>2, <1>3

\* Nothing of the set is lost.
LEMMA OnlyHas ==
  ASSUME NEW T, NEW s \in Seq(T), NEW S, NEW i \in 1..Len(s), s[i] \in S
  PROVE  \E j \in 1..Len(Only(s, S)) : Only(s, S)[j] = s[i]
<1> DEFINE Has(r) == \A n \in 1..Len(r) : r[n] \in S =>
                       \E j \in 1..Len(Only(r, S)) : Only(r, S)[j] = r[n]
           U == { r \in Seq(T) : Has(r) }
<1>1. << >> \in U
  <2>1. Len(<< >>) = 0 /\ << >> \in Seq(T)
    BY EmptySeq
  <2> QED
    BY <2>1
<1>2. ASSUME NEW r \in Seq(T), NEW e \in T, r \in U PROVE Append(r, e) \in U
  <2>1. /\ Append(r, e) \in Seq(T) /\ Len(Append(r, e)) = Len(r) + 1
        /\ Len(r) \in Nat /\ Append(r, e)[Len(r) + 1] = e
        /\ \A n \in 1..Len(r) : Append(r, e)[n] = r[n]
        /\ Only(Append(r, e), S) = OneMore(Only(r, S), e, S)
        /\ Only(r, S) \in Seq(S)
    BY OnlyAppend, OnlyType, AppendProperties, LenProperties
  <2> SUFFICES ASSUME NEW n \in 1..(Len(r) + 1), Append(r, e)[n] \in S
               PROVE  \E j \in 1..Len(Only(Append(r, e), S)) :
                        Only(Append(r, e), S)[j] = Append(r, e)[n]
    BY <2>1
  <2>2. e \in S =>
          /\ Only(Append(r, e), S) = Append(Only(r, S), e)
          /\ Len(Append(Only(r, S), e)) = Len(Only(r, S)) + 1
          /\ Len(Only(r, S)) \in Nat
          /\ Append(Only(r, S), e)[Len(Only(r, S)) + 1] = e
          /\ \A j \in 1..Len(Only(r, S)) :
               Append(Only(r, S), e)[j] = Only(r, S)[j]
    BY <2>1, AppendProperties, LenProperties DEF OneMore
  <2>3. e \notin S => Only(Append(r, e), S) = Only(r, S)
    BY <2>1 DEF OneMore
  <2>4. CASE n = Len(r) + 1
    <3>1. e \in S
      BY <2>1, <2>4
    <3>2. Len(Only(r, S)) + 1 \in 1..Len(Only(Append(r, e), S))
      BY <2>2, <3>1
    <3> QED
      BY <2>1, <2>2, <2>4, <3>1, <3>2
  <2>5. CASE n \in 1..Len(r)
    <3>1. PICK j \in 1..Len(Only(r, S)) : Only(r, S)[j] = r[n]
      BY <1>2, <2>1, <2>5
    <3>2. /\ j \in 1..Len(Only(Append(r, e), S))
          /\ Only(Append(r, e), S)[j] = Only(r, S)[j]
      <4>1. CASE e \in S
        <5>1. j \in 1..(Len(Only(r, S)) + 1)
          BY <2>2, <4>1
        <5> QED
          BY <2>2, <4>1, <5>1
      <4>2. CASE e \notin S
        BY <2>3, <4>2
      <4> QED
        BY <4>1, <4>2
    <3> QED
      BY <2>1, <2>5, <3>1, <3>2
  <2> QED
    BY <2>1, <2>4, <2>5
<1> HIDE DEF U
<1>3. Seq(T) \subseteq U
  BY <1>1, <1>2, SeqInduct
<1> QED
  BY <1>3 DEF U

\* One element.
LEMMA OnlyOne ==
  ASSUME NEW e, NEW S
  PROVE  Only(<< e >>, S) = IF e \in S THEN << e >> ELSE << >>
<1>1. << >> \in Seq({e}) /\ << e >> = Append(<< >>, e)
  OBVIOUS
<1>2. Only(Append(<< >>, e), S) = OneMore(Only(<< >>, S), e, S)
  BY <1>1, OnlyAppend
<1> QED
  BY <1>1, <1>2, OnlyNil DEF OneMore

\* The first element, and the rest.
LEMMA OnlyHead ==
  ASSUME NEW T, NEW s \in Seq(T), s # << >>, NEW S
  PROVE  Only(s, S) = (IF Head(s) \in S THEN << Head(s) >> ELSE << >>)
                        \o Only(Tail(s), S)
<1>1. /\ Head(s) \in T /\ Tail(s) \in Seq(T) /\ << Head(s) >> \in Seq(T)
      /\ s = << Head(s) >> \o Tail(s)
  OBVIOUS
<1> DEFINE h == << Head(s) >>
           t == Tail(s)
<1> HIDE DEF h, t
<1>a. h \in Seq(T) /\ t \in Seq(T)
  BY <1>1 DEF h, t
<1>2. Only(h \o t, S) = Only(h, S) \o Only(t, S)
  BY <1>a, OnlyConcat
<1>3. Only(h, S) = IF Head(s) \in S THEN << Head(s) >> ELSE << >>
  BY OnlyOne DEF h
<1> QED
  <2>1. s = h \o t
    BY <1>1 DEF h, t
  <2> QED
    BY <2>1, <1>2, <1>3 DEF t

\* What is left stands in the order it stood in.
LEMMA OnlyPlaces ==
  ASSUME NEW T, NEW s \in Seq(T), NEW S
  PROVE  \E h \in [1..Len(Only(s, S)) -> 1..Len(s)] :
           /\ \A i \in 1..Len(Only(s, S)) : Only(s, S)[i] = s[h[i]]
           /\ \A i, j \in 1..Len(Only(s, S)) : i < j => h[i] < h[j]
<1> DEFINE Places(r) ==
             \E h \in [1..Len(Only(r, S)) -> 1..Len(r)] :
               /\ \A i \in 1..Len(Only(r, S)) : Only(r, S)[i] = r[h[i]]
               /\ \A i, j \in 1..Len(Only(r, S)) : i < j => h[i] < h[j]
           U == { r \in Seq(T) : Places(r) }
<1>1. << >> \in U
  <2>1. Only(<< >>, S) = << >> /\ Len(<< >>) = 0
    BY OnlyNil
  <2>2. [i \in 1..0 |-> 0] \in [1..0 -> 1..0] /\ \A i \in 1..0 : FALSE
    OBVIOUS
  <2>3. Places(<< >>)
    BY <2>1, <2>2
  <2> QED
    BY <2>3
<1>2. ASSUME NEW r \in Seq(T), NEW e \in T, r \in U PROVE Append(r, e) \in U
  <2> DEFINE t == Append(r, e)
             o == Only(r, S)
  <2>1. /\ t \in Seq(T) /\ Len(t) = Len(r) + 1 /\ Len(r) \in Nat
        /\ t[Len(r) + 1] = e /\ \A i \in 1..Len(r) : t[i] = r[i]
    BY AppendProperties
  <2>2. Only(t, S) = OneMore(o, e, S) /\ o \in Seq(S)
    BY OnlyAppend, OnlyType
  <2>3. PICK h \in [1..Len(o) -> 1..Len(r)] :
          /\ \A i \in 1..Len(o) : o[i] = r[h[i]]
          /\ \A i, j \in 1..Len(o) : i < j => h[i] < h[j]
    BY <1>2
  <2> HIDE DEF t, o
  <2>4. CASE e \in S
    <3> DEFINE n == Len(o) + 1
               g == [i \in 1..n |-> IF i = n THEN Len(r) + 1 ELSE h[i]]
    <3>1. /\ Only(t, S) = Append(o, e) /\ Len(Append(o, e)) = n
             /\ Len(o) \in Nat
          /\ Append(o, e)[n] = e
          /\ \A i \in 1..Len(o) : Append(o, e)[i] = o[i]
      BY <2>2, <2>4, AppendProperties DEF OneMore
    <3>2. g \in [1..n -> 1..Len(t)]
      BY <3>1, <2>1
    <3>3. \A i \in 1..n : i = n \/ i \in 1..Len(o)
      BY <3>1
    <3>4. g[n] = Len(r) + 1 /\ \A i \in 1..Len(o) : g[i] = h[i]
          /\ h[i] \in 1..Len(r)
      BY <3>1, <2>3
    <3> HIDE DEF g
    <3>5. \A i \in 1..n : Append(o, e)[i] = t[g[i]]
      BY <3>1, <3>3, <3>4, <2>1, <2>3, ZenonT(40)
    <3>6. \A i, j \in 1..n : i < j => g[i] < g[j]
      <4> SUFFICES ASSUME NEW i \in 1..n, NEW j \in 1..n, i < j
            PROVE g[i] < g[j]
        OBVIOUS
      <4>1. i \in 1..Len(o)
        BY <3>1
      <4>2. CASE j = n
        <5>1. g[i] \in 1..Len(r) /\ g[j] = Len(r) + 1
          BY <4>1, <4>2, <3>4
        <5> QED
          BY <5>1, <2>1
      <4>3. CASE j \in 1..Len(o)
        <5>1. g[i] = h[i] /\ g[j] = h[j]
          BY <4>1, <4>3, <3>4
        <5> QED
          BY <5>1, <4>1, <4>3, <2>3
      <4> QED
        BY <4>2, <4>3, <3>3
    <3>7. Places(t)
      BY <3>1, <3>2, <3>5, <3>6
    <3> QED
      BY <3>7, <2>1 DEF t
  <2>5. CASE e \notin S
    <3>1. Only(t, S) = o
      BY <2>2, <2>5 DEF OneMore
    <3>2. h \in [1..Len(o) -> 1..Len(t)]
      BY <2>1, <2>3
    <3>3. \A i \in 1..Len(o) : o[i] = t[h[i]]
      BY <2>1, <2>3
    <3>4. Places(t)
      BY <3>1, <3>2, <3>3, <2>3
    <3> QED
      BY <3>4, <2>1 DEF t
  <2> QED
    BY <2>4, <2>5
<1> HIDE DEF U
<1>3. Seq(T) \subseteq U
  BY <1>1, <1>2, SeqInduct
<1> QED
  BY <1>3 DEF U

-----------------------------------------------------------------------------
(* The greatest and the least of some numbers *)

\* Max is the greatest element.
LEMMA GreatestIs ==
  ASSUME NEW S \in SUBSET Nat, NEW m \in S, \A s \in S : s <= m
  PROVE  Max(S) = m
<1> DEFINE P(x) == \A y \in S : x >= y
<1>1. m \in S /\ P(m)
  OBVIOUS
<1>2. Max(S) = CHOOSE x \in S : P(x)
  BY DEF Max
<1>3. Max(S) \in S /\ P(Max(S))
  <2> HIDE DEF P
  <2> QED
    BY <1>1, <1>2
<1>4. Max(S) >= m /\ Max(S) <= m /\ Max(S) \in Nat /\ m \in Nat
  BY <1>3
<1> HIDE DEF P
<1> QED
  BY <1>4

\* The greatest of some positions is one of them and bounds the others, ...
LEMMA MaxIsOne ==
  ASSUME NEW n \in Nat, NEW S \in SUBSET (1..n), S # {}
  PROVE  Max(S) \in S /\ \A s \in S : s <= Max(S)
<1> DEFINE T == { k \in 0..n : n - k \in S }
<1>1. T \in SUBSET Nat /\ T # {}
  <2>1. PICK s \in S : TRUE
    OBVIOUS
  <2>2. n - s \in 0..n /\ n - (n - s) = s
    BY <2>1
  <2>3. n - s \in T
    BY <2>1, <2>2
  <2>4. T \subseteq 0..n
    OBVIOUS
  <2> HIDE DEF T
  <2> QED
    BY <2>3, <2>4
<1>2. PICK m \in T : \A k \in T : m <= k
  <2> HIDE DEF T
  <2> QED
    BY <1>1, Least
<1>3. n - m \in S /\ S \in SUBSET Nat
  BY <1>2
<1>4. \A s \in S : s <= n - m
  <2> SUFFICES ASSUME NEW s \in S PROVE s <= n - m
    OBVIOUS
  <2>1. n - s \in 0..n /\ n - (n - s) = s
    OBVIOUS
  <2>2. m <= n - s
    BY <1>2, <2>1
  <2> QED
    BY <2>1, <2>2, <1>2
<1> HIDE DEF T
<1>5. Max(S) = n - m
  BY <1>3, <1>4, GreatestIs
<1> QED
  BY <1>3, <1>4, <1>5

\* ... and so is the smallest.
LEMMA MinIsOne ==
  ASSUME NEW S \in SUBSET Nat, S # {}
  PROVE  Min(S) \in S
<1> DEFINE P(x) == \A y \in S : x <= y
<1>1. \E x \in S : P(x)
  BY Least
<1>2. Min(S) = CHOOSE x \in S : P(x)
  BY DEF Min
<1> HIDE DEF P
<1> QED
  BY <1>1, <1>2

=============================================================================
