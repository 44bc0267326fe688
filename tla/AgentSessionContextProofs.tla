---------------------- MODULE AgentSessionContextProofs ----------------------
(***************************************************************************)
(* Theorems about what the model reads in AgentSession: a call of a tool   *)
(* keeps its result, whatever is recorded meanwhile; a session reloaded    *)
(* from its entries shows the transcript in memory, whatever was           *)
(* compacted, retried or reduced before; and recovery is bounded.  They    *)
(* rest on the types and the control invariant of AgentSessionProofs.      *)
(***************************************************************************)
EXTENDS AgentSessionProofs

-----------------------------------------------------------------------------
(* Calls of tools and their results *)

\* Replies with calls, and the numbers of the results that are missing in ms,
\* but among the messages of S.
Calls(m) == IsReply(m) /\ m.stop = "tools"
MissedIn(ms, S) == { n \in Nat : Result(n) \in S \ ToSet(ms) }
Missed(ms) == MissedIn(ms, unheard)

\* Every call but one at the end is followed by its result, or that is missing.
Closed(ms, N) ==
    \A i \in 1..(Len(ms) - 1) :
      Calls(ms[i]) => ms[i + 1] = Result(ms[i].n) \/ ms[i].n \in N
Ended(ms, N) == ms # << >> /\ Calls(Last(ms)) => Last(ms).n \in N
Follows(s, m, N) ==
    s # << >> /\ Calls(Last(s)) => m = Result(Last(s).n) \/ Last(s).n \in N

\* The elements of two sequences, ...
LEMMA ToSetBoth ==
  ASSUME NEW T, NEW s \in Seq(T), NEW t \in Seq(T)
  PROVE  ToSet(s \o t) = ToSet(s) \union ToSet(t)
<1>1. ToSet(s) \subseteq ToSet(s \o t) /\ ToSet(t) \subseteq ToSet(s \o t)
  BY ToSetConcat
<1>2. /\ Len(s) \in Nat /\ Len(t) \in Nat
      /\ DOMAIN s = 1..Len(s) /\ DOMAIN t = 1..Len(t)
      /\ DOMAIN (s \o t) = 1..(Len(s) + Len(t))
      /\ \A i \in 1..(Len(s) + Len(t)) :
           (s \o t)[i] = IF i <= Len(s) THEN s[i] ELSE t[i - Len(s)]
  BY LenProperties, ConcatProperties
<1>3. ASSUME NEW i \in 1..(Len(s) + Len(t))
      PROVE  (s \o t)[i] \in ToSet(s) \union ToSet(t)
  <2>1. CASE i <= Len(s)
    <3>1. i \in 1..Len(s)
      BY <1>2, <2>1
    <3> QED
      BY <1>2, <2>1, <3>1 DEF ToSet
  <2>2. CASE ~(i <= Len(s))
    <3>1. i - Len(s) \in 1..Len(t)
      BY <1>2, <2>2
    <3> QED
      BY <1>2, <2>2, <3>1 DEF ToSet
  <2> QED
    BY <2>1, <2>2
<1> QED
  BY <1>1, <1>2, <1>3 DEF ToSet

\* ... and of a sequence with one element more.
LEMMA ToSetAppend ==
  ASSUME NEW T, NEW s \in Seq(T), NEW m \in T
  PROVE  ToSet(Append(s, m)) = ToSet(s) \union {m}
<1>1. DOMAIN s = 1..Len(s) /\ Len(s) \in Nat
  BY LenProperties
<1>2. /\ DOMAIN Append(s, m) = 1..(Len(s) + 1)
      /\ Append(s, m)[Len(s) + 1] = m
      /\ \A i \in 1..Len(s) : Append(s, m)[i] = s[i]
  BY AppendProperties, LenProperties
<1>3. /\ 1..(Len(s) + 1) = 1..Len(s) \union {Len(s) + 1}
  BY <1>1
<1> QED
  BY <1>1, <1>2, <1>3 DEF ToSet

\* A sequence is its front and its last element.
LEMMA FrontLast ==
  ASSUME NEW T, NEW s \in Seq(T), s # << >>
  PROVE  /\ Front(s) \in Seq(T) /\ Last(s) \in T
         /\ s = Append(Front(s), Last(s)) /\ Last(s) \in ToSet(s)
         /\ ToSet(Front(s)) \subseteq ToSet(s)
<1>1. /\ Front(s) \in Seq(T) /\ Last(s) \in T /\ Len(Front(s)) = Len(s) - 1
      /\ \A i \in 1..(Len(s) - 1) : Front(s)[i] = s[i]
  BY FrontIs
<1>2. Len(s) \in Nat \ {0} /\ DOMAIN s = 1..Len(s)
  BY EmptySeq, LenProperties
<1> DEFINE f == Front(s)
           e == Last(s)
<1>3. f \in Seq(T) /\ e \in T /\ Len(f) = Len(s) - 1 /\ e = s[Len(s)]
      /\ \A i \in 1..(Len(s) - 1) : f[i] = s[i]
  BY <1>1 DEF Last
<1> HIDE DEF f, e
<1>4. /\ Append(f, e) \in Seq(T) /\ Len(Append(f, e)) = Len(s)
      /\ \A i \in 1..Len(s) : Append(f, e)[i] = s[i]
  <2>1. /\ Append(f, e) \in Seq(T) /\ Len(Append(f, e)) = Len(f) + 1
        /\ \A i \in 1..Len(f) : Append(f, e)[i] = f[i]
        /\ Append(f, e)[Len(f) + 1] = e
    BY <1>3, AppendProperties
  <2> QED
    BY <1>2, <1>3, <2>1
<1>5. s = Append(f, e)
  BY <1>4, SeqEqual
<1>6. e \in ToSet(s)
  <2>1. Len(s) \in 1..Len(s)
    BY <1>2
  <2> QED
    BY <1>2, <1>3, <2>1 DEF ToSet
<1>7. ToSet(f) \subseteq ToSet(s)
  <2>1. ToSet(Append(f, e)) = ToSet(f) \union {e}
    BY <1>3, ToSetAppend
  <2> QED
    BY <1>5, <2>1
<1> QED
  BY <1>3, <1>5, <1>6, <1>7 DEF f, e

\* What is appended is last.
LEMMA LastAppend ==
  ASSUME NEW T, NEW s \in Seq(T), NEW m \in T
  PROVE  Append(s, m) # << >> /\ Last(Append(s, m)) = m
BY AppendProperties DEF Last

\* What is appended does not change the parts before it.
LEMMA SubSeqBefore ==
  ASSUME NEW T, NEW s \in Seq(T), NEW e \in T, NEW a \in Nat \ {0},
         NEW b \in 0..Len(s)
  PROVE  SubSeq(Append(s, e), a, b) = SubSeq(s, a, b)
<1> DEFINE r == Append(s, e)
           x == SubSeq(s, a, b)
           y == SubSeq(r, a, b)
<1>1. /\ Len(s) \in Nat /\ \A i \in 1..Len(s) : s[i] \in T /\ r[i] = s[i]
  BY AppendProperties, LenProperties, ElementOfSeq
<1> HIDE DEF r
<1>2. a \in Int /\ b \in Int /\ \A i \in a..b : i \in 1..Len(s)
  BY <1>1
<1>3. /\ x \in Seq(T) /\ Len(x) = IF a <= b THEN b - a + 1 ELSE 0
      /\ \A i \in 1..(b - a + 1) : x[i] = s[a + i - 1]
  <2>1. \A i \in a..b : s[i] \in T
    BY <1>1, <1>2
  <2> QED
    BY <1>2, <2>1, SubSeqProperties
<1>4. /\ y \in Seq(T) /\ Len(y) = IF a <= b THEN b - a + 1 ELSE 0
      /\ \A i \in 1..(b - a + 1) : y[i] = r[a + i - 1]
  <2>1. \A i \in a..b : r[i] \in T
    BY <1>1, <1>2
  <2> QED
    BY <1>2, <2>1, SubSeqProperties
<1> HIDE DEF x, y
<1>5. ASSUME NEW i \in 1..Len(x) PROVE y[i] = x[i]
  <2>1. i \in 1..(b - a + 1) /\ a + i - 1 \in 1..Len(s)
    BY <1>1, <1>3
  <2> QED
    BY <1>1, <1>3, <1>4, <2>1
<1>6. x = y
  BY <1>3, <1>4, <1>5, SeqEqual
<1> QED
  BY <1>6 DEF x, y, r

\* One element more leaves calls closed if it follows well.
LEMMA ClosedAppend ==
  ASSUME NEW T, NEW s \in Seq(T), NEW m \in T, NEW N
  PROVE  Closed(Append(s, m), N) <=> Closed(s, N) /\ Follows(s, m, N)
<1> DEFINE t == Append(s, m)
<1>1. /\ Len(t) = Len(s) + 1 /\ Len(s) \in Nat /\ t[Len(s) + 1] = m
      /\ \A i \in 1..Len(s) : t[i] = s[i]
      /\ s = << >> <=> Len(s) = 0
  BY AppendProperties, LenProperties, EmptySeq
<1> HIDE DEF t
<1>2. Closed(t, N) <=>
        \A i \in 1..Len(s) :
          Calls(s[i]) => t[i + 1] = Result(s[i].n) \/ s[i].n \in N
  <2>1. 1..(Len(t) - 1) = 1..Len(s)
    BY <1>1
  <2> QED
    BY <1>1, <2>1 DEF Closed
<1>3. \A i \in 1..(Len(s) - 1) : i \in 1..Len(s) /\ t[i + 1] = s[i + 1]
  BY <1>1
<1>4. \A i \in 1..Len(s) : i = Len(s) \/ i \in 1..(Len(s) - 1)
  BY <1>1
<1>5. ASSUME Closed(t, N) PROVE Closed(s, N) /\ Follows(s, m, N)
  <2>1. Closed(s, N)
    BY <1>2, <1>3, <1>5 DEF Closed
  <2>2. Follows(s, m, N)
    <3>1. s # << >> => Len(s) \in 1..Len(s)
      BY <1>1
    <3> QED
      BY <1>1, <1>2, <1>5, <3>1 DEF Follows, Last
  <2> QED
    BY <2>1, <2>2
<1>6. ASSUME Closed(s, N), Follows(s, m, N) PROVE Closed(t, N)
  <2> SUFFICES ASSUME NEW i \in 1..Len(s), Calls(s[i])
               PROVE  t[i + 1] = Result(s[i].n) \/ s[i].n \in N
    BY <1>2
  <2>1. CASE i = Len(s)
    <3>1. s # << >> /\ Last(s) = s[i]
      BY <1>1, <2>1 DEF Last
    <3> QED
      BY <1>1, <1>6, <2>1, <3>1 DEF Follows
  <2>2. CASE i \in 1..(Len(s) - 1)
    BY <1>3, <1>6, <2>2 DEF Closed
  <2> QED
    BY <1>4, <2>1, <2>2
<1> QED
  BY <1>5, <1>6 DEF t

\* More results may be missing.
LEMMA ClosedMore ==
  ASSUME NEW s, NEW N, NEW M, N \subseteq M
  PROVE  /\ Closed(s, N) => Closed(s, M)
         /\ Ended(s, N) => Ended(s, M)
BY DEF Closed, Ended

NoCalls(R) == \A m \in R : ~Calls(m)

\* What is not a call of tools may follow what has ended.
LEMMA ClosedConcat ==
  ASSUME NEW T, NEW s \in Seq(T), NEW R, R \subseteq T, NoCalls(R),
         NEW t \in Seq(R), NEW N, Closed(s, N), Ended(s, N)
  PROVE  Closed(s \o t, N) /\ Ended(s \o t, N)
<1> DEFINE U == { r \in Seq(R) : /\ s \o r \in Seq(T) /\ Closed(s \o r, N)
                                 /\ Ended(s \o r, N) }
<1>1. << >> \in U
  <2>1. s \o << >> = s /\ << >> \in Seq(R)
    BY ConcatEmptySeq
  <2> QED
    BY <2>1
<1>2. ASSUME NEW r \in Seq(R), NEW e \in R, r \in U PROVE Append(r, e) \in U
  <2> DEFINE a == s \o r
  <2>1. a \in Seq(T) /\ Closed(a, N) /\ Ended(a, N)
    BY <1>2
  <2>2. Append(r, e) \in Seq(R) /\ s \o Append(r, e) = Append(a, e)
    <3>1. r \in Seq(T) /\ e \in T
      BY SeqMonotonic
    <3>2. s \o Append(r, e) = Append(s \o r, e)
      BY <3>1
    <3> QED
      BY <3>2, AppendProperties
  <2> HIDE DEF a
  <2>3. Append(a, e) \in Seq(T) /\ Last(Append(a, e)) = e
    BY <2>1, AppendProperties, LastAppend
  <2>4. Closed(Append(a, e), N)
    <3>1. Follows(a, e, N)
      BY <2>1 DEF Follows, Ended
    <3> QED
      BY <2>1, <3>1, ClosedAppend
  <2>5. Ended(Append(a, e), N)
    BY <2>3 DEF Ended, NoCalls
  <2> QED
    BY <2>2, <2>3, <2>4, <2>5
<1> HIDE DEF U
<1>3. Seq(R) \subseteq U
  BY <1>1, <1>2, SeqInduct
<1> QED
  BY <1>3 DEF U

\* What is left without the last element, if that is no result.
LEMMA ClosedFront ==
  ASSUME NEW T, NEW s \in Seq(T), s # << >>, NEW N, Closed(s, N),
         Last(s).kind # "result"
  PROVE  Closed(Front(s), N) /\ Ended(Front(s), N)
<1> DEFINE f == Front(s)
           e == Last(s)
<1>1. f \in Seq(T) /\ e \in T /\ s = Append(f, e)
  BY FrontLast
<1>2. e.kind # "result"
  OBVIOUS
<1> HIDE DEF f, e
<1>3. Closed(f, N) /\ Follows(f, e, N)
  BY <1>1, ClosedAppend
<1>4. Ended(f, N)
  BY <1>2, <1>3 DEF Follows, Ended, Result
<1> QED
  BY <1>3, <1>4 DEF f

\* A part of a sequence.
LEMMA ClosedPart ==
  ASSUME NEW T, NEW s \in Seq(T), NEW a \in Nat \ {0}, NEW b \in 0..Len(s),
         NEW N,
         Closed(s, N)
  PROVE  /\ SubSeq(s, a, b) \in Seq(T) /\ Closed(SubSeq(s, a, b), N)
         /\ ToSet(SubSeq(s, a, b)) \subseteq ToSet(s)
         /\ SubSeq(s, a, b) # << >>
             => b \in 1..Len(s) /\ Last(SubSeq(s, a, b)) = s[b]
<1> DEFINE t == SubSeq(s, a, b)
<1>0. Len(s) \in Nat /\ DOMAIN s = 1..Len(s) /\ \A i \in 1..Len(s) : s[i] \in T
  BY LenProperties, ElementOfSeq
<1>1. /\ t \in Seq(T) /\ Len(t) = IF a <= b THEN b - a + 1 ELSE 0
      /\ \A i \in 1..(b - a + 1) : t[i] = s[a + i - 1]
  <2>1. \A i \in a..b : s[i] \in T
    BY <1>0
  <2>2. a \in Int /\ b \in Int
    BY <1>0
  <2> QED
    BY <2>1, <2>2, SubSeqProperties
<1> HIDE DEF t
<1>2. ASSUME NEW i \in 1..Len(t)
      PROVE  /\ a + i - 1 \in 1..Len(s) /\ t[i] = s[a + i - 1] /\ a <= b
             /\ Len(t) = b - a + 1
  BY <1>0, <1>1
<1>3. ASSUME NEW i \in 1..(Len(t) - 1)
      PROVE  /\ a + i - 1 \in 1..(Len(s) - 1)
             /\ t[i] = s[a + i - 1] /\ t[i + 1] = s[(a + i - 1) + 1]
  <2>1. i \in 1..Len(t) /\ i + 1 \in 1..Len(t)
    BY <1>0, <1>1
  <2>2. a + (i + 1) - 1 = (a + i - 1) + 1
    BY <2>1
  <2> QED
    BY <1>0, <1>2, <2>1, <2>2
<1>4. Closed(t, N)
  BY <1>3 DEF Closed
<1>5. ToSet(t) \subseteq ToSet(s)
  <2>1. DOMAIN t = 1..Len(t)
    BY <1>1, LenProperties
  <2> QED
    BY <1>0, <1>2, <2>1 DEF ToSet
<1>6. t # << >> => b \in 1..Len(s) /\ Last(t) = s[b]
  <2>1. t # << >> => Len(t) \in 1..Len(t)
    BY <1>1, EmptySeq, LenProperties
  <2>2. ASSUME t # << >> PROVE b \in 1..Len(s) /\ t[Len(t)] = s[b]
    <3>1. Len(t) \in 1..Len(t)
      BY <2>1, <2>2
    <3>2. a + Len(t) - 1 \in 1..Len(s) /\ t[Len(t)] = s[a + Len(t) - 1]
          /\ Len(t) = b - a + 1
      BY <1>2, <3>1
    <3>3. a + Len(t) - 1 = b
      BY <1>0, <3>2
    <3> QED
      BY <3>2, <3>3
  <2> QED
    BY <2>2 DEF Last
<1> QED
  BY <1>1, <1>4, <1>5, <1>6 DEF t

\* The messages of a part of a session.
LEMMA ClosedMessages ==
  ASSUME NEW s \in Seq(Entry), NEW N, Closed(s, N), Ended(s, N)
  PROVE  Closed(Messages(s), N) /\ Ended(Messages(s), N)
<1> DEFINE same(r) == Messages(r) # << >> /\ Calls(Last(Messages(r))) =>
                        \/ Last(Messages(r)).n \in N
                        \/ r # << >> /\ Last(r) = Last(Messages(r))
           good(r) == Closed(r, N) => Closed(Messages(r), N) /\ same(r)
           U == { r \in Seq(Entry) : good(r) }
<1>1. << >> \in U
  <2>1. Messages(<< >>) = << >> /\ << >> \in Seq(Entry)
    BY OnlyNil DEF Messages
  <2> QED
    BY <2>1
<1>2. ASSUME NEW r \in Seq(Entry), NEW e \in Entry, r \in U
      PROVE  Append(r, e) \in U
  <2>1. /\ Append(r, e) \in Seq(Entry)
        /\ Append(r, e) # << >> /\ Last(Append(r, e)) = e
        /\ Messages(Append(r, e)) = OneMore(Messages(r), e, Message)
        /\ Messages(r) \in Seq(Message)
    BY AppendProperties, LastAppend, OnlyAppend, OnlyType DEF Messages
  <2> SUFFICES ASSUME Closed(Append(r, e), N)
               PROVE  Closed(Messages(Append(r, e)), N) /\ same(Append(r, e))
    BY <2>1
  <2>2. Closed(r, N) /\ Follows(r, e, N)
    BY ClosedAppend
  <2>3. Closed(Messages(r), N) /\ same(r)
    BY <1>2, <2>2
  <2> HIDE DEF Messages
  <2>4. Follows(Messages(r), e, N)
    <3> SUFFICES ASSUME Messages(r) # << >>, Calls(Last(Messages(r))),
                        Last(Messages(r)).n \notin N
                 PROVE  e = Result(Last(Messages(r)).n)
      BY DEF Follows
    <3>1. r # << >> /\ Last(r) = Last(Messages(r))
      BY <2>3
    <3> QED
      BY <2>2, <3>1 DEF Follows
  <2>5. CASE e \in Message
    <3>1. Messages(Append(r, e)) = Append(Messages(r), e)
      BY <2>1, <2>5 DEF OneMore
    <3>2. Closed(Append(Messages(r), e), N)
      BY <2>1, <2>3, <2>4, <2>5, ClosedAppend
    <3>3. Last(Append(Messages(r), e)) = e
      BY <2>1, <2>5, LastAppend
    <3> QED
      BY <2>1, <3>1, <3>2, <3>3
  <2>6. CASE e \notin Message
    <3>1. Messages(Append(r, e)) = Messages(r)
      BY <2>1, <2>6 DEF OneMore
    <3>2. same(Append(r, e))
      <4> SUFFICES ASSUME Messages(r) # << >>, Calls(Last(Messages(r)))
                   PROVE  Last(Messages(r)).n \in N
        BY <3>1
      <4>1. Last(Messages(r)) \in AssistantMessage
        <5>1. Last(Messages(r)) \in Message
          BY <2>1, FrontLast
        <5> QED
          BY <5>1, Kinds DEF Calls
      <4>2. Result(Last(Messages(r)).n) \in Message
        BY <4>1, BuiltMessages, Subtypes DEF AssistantMessage
      <4> QED
        BY <2>4, <2>6, <4>2 DEF Follows
    <3> QED
      BY <2>3, <3>1, <3>2
  <2> QED
    BY <2>5, <2>6
<1> HIDE DEF U
<1>3. Seq(Entry) \subseteq U
  BY <1>1, <1>2, SeqInduct
<1>4. Closed(Messages(s), N) /\ same(s)
  BY <1>3 DEF U
<1>5. Ended(Messages(s), N)
  BY <1>4 DEF Ended
<1> QED
  BY <1>4, <1>5

\* The context after a compaction of a session that has ended.
LEMMA ClosedContext ==
  ASSUME NEW s \in Seq(Entry), NEW c \in CompactionEntry, NEW N,
         Closed(s, N), Ended(s, N)
  PROVE  LET context == BuildSessionContext(Append(s, c))
         IN  /\ context \in Seq(Shown) /\ context # << >>
             /\ Closed(context, N) /\ Ended(context, N)
             /\ ToSet(context) \subseteq ToSet(s) \union {Summary}
<1> DEFINE t == Append(s, c)
           kept == SubSeq(s, c.keep, Len(s))
<1>1. /\ t \in Seq(Entry) /\ Len(t) = Len(s) + 1 /\ t[Len(s) + 1] = c
      /\ Len(s) \in Nat /\ \A i \in 1..Len(s) : t[i] = s[i]
  <2>1. c \in Entry
    BY DEF CompactionEntry, Entry
  <2> QED
    BY <2>1, AppendProperties, LenProperties
<1>2. c.keep \in Nat \ {0} /\ c.kind = "compaction"
  BY DEF CompactionEntry
<1> HIDE DEF t
<1>3. Positions(t, {"compaction"}) # {} /\ LastCompaction(t) = Len(s) + 1
  <2> DEFINE S == Positions(t, {"compaction"})
  <2>1. DOMAIN t = 1..(Len(s) + 1)
    BY <1>1, LenProperties
  <2>2. S \in SUBSET (1..(Len(s) + 1)) /\ Len(s) + 1 \in S /\ S # {}
    BY <1>1, <1>2, <2>1 DEF Positions
  <2> HIDE DEF S
  <2> DEFINE n == Len(s) + 1
  <2>3. Max(S) \in S /\ \A i \in S : i <= Max(S)
    <3>1. S \in SUBSET (1..n) /\ n \in Nat /\ S # {}
      BY <1>1, <2>2
    <3> HIDE DEF n
    <3> QED
      BY <3>1, MaxIsOne
  <2>4. Max(S) = Len(s) + 1
    <3> DEFINE m == Max(S)
    <3>0. S \subseteq 1..n /\ n \in S /\ n \in Nat
      BY <1>1, <2>2
    <3>1. m \in S /\ \A i \in S : i <= m
      BY <2>3
    <3> HIDE DEF m, n
    <3>3. m \in 1..n /\ n <= m
      BY <3>0, <3>1
    <3>2. m = n
      BY <3>0, <3>3
    <3> QED
      BY <3>2 DEF m, n
  <2> QED
    BY <2>2, <2>4 DEF S, LastCompaction
<1>4. Kept(t) = kept /\ Later(t) = << >>
  <2>1. Kept(t) = SubSeq(t, c.keep, Len(s))
    <3>1. (Len(s) + 1) - 1 = Len(s)
      BY <1>1
    <3> QED
      BY <1>1, <1>3, <3>1 DEF Kept
  <2>2. SubSeq(t, c.keep, Len(s)) = SubSeq(s, c.keep, Len(s))
    <3>1. Len(s) \in 0..Len(s) /\ c \in Entry
      BY <1>1 DEF CompactionEntry, Entry
    <3> QED
      BY <1>2, <3>1, SubSeqBefore DEF t
  <2>3. Later(t) = << >>
    <3>1. Later(t) = SubSeq(t, Len(s) + 2, Len(s) + 1)
      <4>1. (Len(s) + 1) + 1 = Len(s) + 2
        BY <1>1
      <4> QED
        BY <1>1, <1>3, <4>1 DEF Later
    <3>2. Len(s) + 1 < Len(s) + 2 /\ Len(s) + 1 \in Int /\ Len(s) + 2 \in Int
      BY <1>1
    <3> QED
      BY <3>1, <3>2, SubSeqEmpty
  <2> QED
    BY <2>1, <2>2, <2>3
<1>5. /\ kept \in Seq(Entry) /\ Closed(kept, N)
      /\ ToSet(kept) \subseteq ToSet(s) /\ Ended(kept, N)
  <2>1. Len(s) \in 0..Len(s)
    BY <1>1
  <2>2. /\ kept \in Seq(Entry) /\ Closed(kept, N)
        /\ ToSet(kept) \subseteq ToSet(s)
        /\ kept # << >> => Len(s) \in 1..Len(s) /\ Last(kept) = s[Len(s)]
    BY <1>2, <2>1, ClosedPart
  <2> HIDE DEF kept
  <2>3. kept # << >> => s # << >> /\ Last(kept) = Last(s)
    BY <1>1, <2>2, EmptySeq DEF Last
  <2> QED
    BY <2>2, <2>3 DEF Ended
<1> HIDE DEF kept
<1> DEFINE ms == Messages(kept)
           one == << Summary >>
<1>6. /\ ms \in Seq(Message) /\ Closed(ms, N) /\ Ended(ms, N)
      /\ ToSet(ms) \subseteq ToSet(s)
  <2>1. ms \in Seq(Message) /\ ToSet(ms) \subseteq ToSet(kept)
    BY <1>5, OnlyType, ToSetOnly DEF Messages
  <2> QED
    BY <1>5, <2>1, ClosedMessages
<1>7. one \in Seq(Shown) /\ ms \in Seq(Shown) /\ one[1] = Summary
        /\ Len(one) = 1
  BY <1>6, Subtypes
<1>8. BuildSessionContext(t) = one \o ms
  <2>1. BuildSessionContext(t) = one \o ms \o << >>
    BY <1>1, <1>3, <1>4, ContextIs
  <2> HIDE DEF one, ms
  <2>2. one \o ms \in Seq(Shown)
    BY <1>7, ConcatProperties
  <2> QED
    BY <2>1, <2>2, ConcatEmptySeq
<1> HIDE DEF ms, one
<1> DEFINE r == one \o ms
<1>9. /\ r \in Seq(Shown) /\ Len(r) = Len(ms) + 1 /\ Len(ms) \in Nat
      /\ r[1] = Summary /\ \A i \in 1..Len(ms) : r[i + 1] = ms[i]
  <2>1. /\ r \in Seq(Shown) /\ Len(r) = 1 + Len(ms) /\ Len(ms) \in Nat
        /\ \A i \in 1..(1 + Len(ms)) :
            r[i] = IF i <= 1 THEN one[i] ELSE ms[i - 1]
    <3>1. /\ r \in Seq(Shown) /\ Len(r) = Len(one) + Len(ms)
          /\ \A i \in 1..(Len(one) + Len(ms)) :
               r[i] = IF i <= Len(one) THEN one[i] ELSE ms[i - Len(one)]
      BY <1>7, ConcatProperties
    <3>2. Len(ms) \in Nat /\ Len(one) = 1
      BY <1>7, LenProperties
    <3> HIDE DEF r
    <3> QED
      BY <3>1, <3>2
  <2> HIDE DEF r
  <2>2. 1 \in 1..(1 + Len(ms)) /\ 1 <= 1
    BY <2>1
  <2>3. r[1] = Summary
    BY <1>7, <2>1, <2>2
  <2>4. ASSUME NEW i \in 1..Len(ms) PROVE r[i + 1] = ms[i]
    <3>1. i + 1 \in 1..(1 + Len(ms)) /\ ~(i + 1 <= 1) /\ (i + 1) - 1 = i
      BY <2>1
    <3> QED
      BY <2>1, <3>1
  <2> QED
    BY <2>1, <2>3, <2>4
<1>10. ToSet(r) \subseteq ToSet(s) \union {Summary}
  <2>1. ToSet(r) = ToSet(one) \union ToSet(ms)
    BY <1>7, ToSetBoth
  <2>2. ToSet(one) = {Summary}
    <3>1. DOMAIN one = {1}
      BY DEF one
    <3> QED
      BY <1>7, <3>1 DEF ToSet
  <2> QED
    BY <1>6, <2>1, <2>2
<1> HIDE DEF r
<1>11. ~Calls(Summary)
  BY DEF Calls, IsReply, Summary
<1>12. Closed(r, N)
  <2> SUFFICES ASSUME NEW i \in 1..(Len(r) - 1), Calls(r[i])
               PROVE  r[i + 1] = Result(r[i].n) \/ r[i].n \in N
    BY DEF Closed
  <2>1. i # 1
    BY <1>9, <1>11
  <2>2. /\ i - 1 \in 1..(Len(ms) - 1) /\ i - 1 \in 1..Len(ms)
        /\ i \in 1..Len(ms)
        /\ (i - 1) + 1 = i
    BY <1>9, <2>1
  <2>3. r[i] = ms[i - 1] /\ r[i + 1] = ms[(i - 1) + 1]
    <3>1. r[(i - 1) + 1] = ms[i - 1] /\ r[i + 1] = ms[i]
      BY <1>9, <2>2
    <3> QED
      BY <2>2, <3>1
  <2> QED
    BY <1>6, <2>2, <2>3 DEF Closed
<1>13. Ended(r, N)
  <2>1. CASE ms = << >>
    <3>1. Len(ms) = 0 /\ Last(r) = Summary
      BY <1>9, <2>1, EmptySeq DEF Last
    <3> QED
      BY <1>11, <3>1 DEF Ended
  <2>2. CASE ms # << >>
    <3>1. Len(ms) \in 1..Len(ms)
      BY <1>6, <1>9, <2>2, EmptySeq
    <3>2. Last(r) = Last(ms)
      BY <1>9, <3>1 DEF Last
    <3> QED
      BY <1>6, <2>2, <3>2 DEF Ended
  <2> QED
    BY <2>1, <2>2
<1>14. r # << >>
  BY <1>9, EmptySeq
<1> QED
  BY <1>8, <1>9, <1>10, <1>12, <1>13, <1>14 DEF t, r

\* A sequence that has no call open, and no result that the other has not, when
\* the messages of S are unheard.
Fine(t, s, S) ==
    /\ Closed(t, MissedIn(s, S)) /\ Ended(t, MissedIn(s, S))
    /\ \A n \in Nat : Result(n) \in ToSet(t) => Result(n) \in ToSet(s)

\* A fine sequence is closed, and ended, by its own missing results.
LEMMA FineIs ==
  ASSUME NEW s, NEW t, NEW S, NEW V, Fine(t, s, S), S \subseteq V
  PROVE  Closed(t, MissedIn(t, V)) /\ Ended(t, MissedIn(t, V))
<1>1. MissedIn(s, S) \subseteq MissedIn(t, V)
  BY DEF Fine, MissedIn
<1>2. Closed(t, MissedIn(s, S)) /\ Ended(t, MissedIn(s, S))
  BY DEF Fine
<1> QED
  BY <1>1, <1>2, ClosedMore

\* Recorded output, ...
LEMMA FineConcat ==
  ASSUME NEW T, NEW s \in Seq(T), BashMessage \subseteq T,
         NEW t \in Seq(BashMessage), NEW S, Fine(s, s, S)
  PROVE  Fine(s \o t, s, S)
<1>1. Closed(s, MissedIn(s, S)) /\ Ended(s, MissedIn(s, S))
  BY DEF Fine
<1>2. NoCalls(BashMessage)
  BY DEF NoCalls, Calls, IsReply, BashMessage
<1>3. /\ Closed(s \o t, MissedIn(s, S))
      /\ Ended(s \o t, MissedIn(s, S))
  BY <1>1, <1>2, ClosedConcat
<1>4. ToSet(s \o t) = ToSet(s) \union ToSet(t)
  <2>1. t \in Seq(T)
    BY SeqMonotonic
  <2> QED
    BY <2>1, ToSetBoth
<1>5. \A n \in Nat : Result(n) \notin ToSet(t)
  <2>1. \A m \in ToSet(t) : m \in BashMessage
    BY LenProperties, ElementOfSeq DEF ToSet
  <2>2. \A n \in Nat : Result(n) \notin BashMessage
    BY DEF Result, BashMessage
  <2> QED
    BY <2>1, <2>2
<1> QED
  BY <1>3, <1>4, <1>5 DEF Fine

\* ... another message that is neither a call nor a result, ...
LEMMA FineAppend ==
  ASSUME NEW T, NEW s \in Seq(T), NEW m \in T, NEW S, Fine(s, s, S),
         ~Calls(m), m.kind # "result"
  PROVE  Fine(Append(s, m), s, S)
<1> DEFINE N == MissedIn(s, S)
<1>1. Closed(s, N) /\ Ended(s, N)
  BY DEF Fine
<1> HIDE DEF N
<1>2. Closed(Append(s, m), N)
  BY <1>1, ClosedAppend DEF Follows, Ended
<1>3. Ended(Append(s, m), N)
  BY LastAppend DEF Ended
<1>4. ToSet(Append(s, m)) = ToSet(s) \union {m}
  BY ToSetAppend
<1>5. \A n \in Nat : Result(n) # m
  BY DEF Result
<1> QED
  BY <1>2, <1>3, <1>4, <1>5 DEF Fine, N

\* ... the removal of a reply ...
LEMMA FineFront ==
  ASSUME NEW T, NEW s \in Seq(T), s # << >>, NEW r, NEW S, Fine(s, r, S),
         Last(s).kind # "result"
  PROVE  Fine(Front(s), r, S)
<1>1. Closed(s, MissedIn(r, S))
  BY DEF Fine
<1>2. Closed(Front(s), MissedIn(r, S)) /\ Ended(Front(s), MissedIn(r, S))
  BY <1>1, ClosedFront
<1>3. ToSet(Front(s)) \subseteq ToSet(s)
  BY FrontLast
<1> QED
  BY <1>2, <1>3 DEF Fine

\* ... and a compaction leave a fine sequence fine.
LEMMA FineContext ==
  ASSUME NEW s \in Seq(Entry), NEW c \in CompactionEntry, NEW S, Fine(s, s, S)
  PROVE  LET context == BuildSessionContext(Append(s, c))
         IN  /\ Fine(Append(s, c), s, S) /\ Fine(context, s, S)
             /\ IsFailed(Last(context)) => Fine(Front(context), s, S)
<1> DEFINE context == BuildSessionContext(Append(s, c))
           N == MissedIn(s, S)
<1>1. Closed(s, N) /\ Ended(s, N)
  BY DEF Fine
<1>2. c \in Entry /\ ~Calls(c) /\ c.kind # "result"
  BY DEF CompactionEntry, Entry, Calls, IsReply
<1> HIDE DEF N
<1>3. /\ context \in Seq(Shown) /\ context # << >>
      /\ Closed(context, N) /\ Ended(context, N)
      /\ ToSet(context) \subseteq ToSet(s) \union {Summary}
  BY <1>1, ClosedContext
<1> HIDE DEF context
<1>4. Fine(Append(s, c), s, S)
  BY <1>2, FineAppend
<1>5. Fine(context, s, S)
  <2>1. \A n \in Nat : Result(n) # Summary
    BY DEF Result, Summary
  <2> QED
    BY <1>3, <2>1 DEF Fine, N
<1>6. IsFailed(Last(context)) => Fine(Front(context), s, S)
  <2>1. IsFailed(Last(context)) => Last(context).kind # "result"
    BY DEF IsFailed, IsReply
  <2> QED
    BY <1>3, <1>5, <2>1, FineFront
<1> QED
  BY <1>4, <1>5, <1>6 DEF context

\* Whether compact() has not yet disconnected the handler or waits for the run,
\* whether a result is next in the transcript, and whether in the session.
Listens  == byHand.at \in {"no", "abort"}
Expected == runPc = "tool" \/ (runPc = "save" /\ afterSave = "tool")
Awaited  == runPc = "tool" \/ (runPc = "save" /\ unsaved = Result(replies))

\* The message that the handler saves.
SaveOK == runPc = "save" =>
    /\ Listens /\ transcript # << >> /\ Last(transcript) = unsaved
    /\ Calls(unsaved) => unsaved.n = replies /\ afterSave = "tool"
    /\ unsaved.kind = "result"
        => unsaved = Result(replies) /\ unsaved \notin unheard

ResultsOK == \A n \in Nat :
    Result(n) \in unheard \union ToSet(log) \union ToSet(transcript) =>
      n <= replies /\ (Expected => n < replies)

\* A call is open only at the end and while its result is to come.
OpenOK ==
    /\ Closed(log, Missed(log)) /\ Closed(transcript, Missed(transcript))
    /\ \/ Ended(transcript, Missed(transcript))
       \/ Last(transcript).n = replies /\ Expected
    /\ \/ Ended(log, Missed(log))
       \/ Last(log).n = replies /\ Awaited /\ Listens

\* With one caller, no run is active while the caller is elsewhere.
LEMMA Alone ==
  ASSUME OnePrompter, TypeOK, Control, NEW p \in Prompters, pc[p] # "run"
  PROVE  owner = NoOne /\ runPc = "none" /\ ~isStreaming
<1>1. owner \in Prompters \union {NoOne}
  BY DEF TypeOK, RunTypes
<1>2. owner # p
  BY DEF Control, CallOK
<1> QED
  BY <1>1, <1>2 DEF OnePrompter, Control, RunOK, isStreaming

\* Between a reply with calls and its results there is a tool or a save.
LEMMA FineNow ==
  ASSUME OpenOK, runPc \notin {"tool", "save"}
  PROVE  Fine(log, log, unheard) /\ Fine(transcript, transcript, unheard)
<1>1. Ended(log, Missed(log)) /\ Ended(transcript, Missed(transcript))
  BY DEF OpenOK, Expected, Awaited
<1> QED
  BY <1>1 DEF OpenOK, Fine, Missed

\* The message that is saved.
LEMMA SavePreserved ==
  ASSUME OnePrompter, TypeOK, Control, SaveOK, ResultsOK, [Next]_vars
  PROVE  SaveOK'
<1> USE DEF vars, fileVars, agentQueues, shownQueues, runVars, retryVars,
      replyVars, callVars, manualVars, historyVars
<1>0. TypeOK /\ Control
  OBVIOUS
<1>q. runPc' # "save" => SaveOK'
  BY DEF SaveOK
<1>s. ASSUME UNCHANGED << byHand, transcript, unsaved, replies, afterSave,
                          unheard,
                          runPc >>
      PROVE  SaveOK'
  BY <1>s DEF SaveOK, Listens
<1>p. ASSUME NEW p \in Prompters, pc[p] # "run", UNCHANGED runPc PROVE SaveOK'
  BY <1>p, <1>q, Alone
<1>t. transcript \in Seq(Shown) /\ Message \subseteq Shown
  BY Subtypes DEF TypeOK, FileTypes
<1>1. CASE Announce
  <2> SUFFICES ASSUME runPc' = "save" PROVE SaveOK'
    BY <1>q
  <2> DEFINE m == Head(held)
  <2>1. m \in Message
    BY <1>0, <1>1, ValuesAre DEF Announce
  <2>2. /\ transcript' = Append(transcript, m) /\ unsaved' = m
        /\ byHand.at = "no" /\ UNCHANGED << byHand, unheard >>
    BY <1>1 DEF Announce, Push, connected, RunPC
  <2> HIDE DEF m
  <2>4. m.kind = "user"
    BY <1>0, <1>1, ValuesAre DEF m, Announce, UserMessage
  <2>3. transcript' # << >> /\ Last(transcript') = m
    BY <1>t, <2>1, <2>2, LastAppend
  <2> QED
    BY <2>2, <2>3, <2>4 DEF SaveOK, Listens, Calls, IsReply
<1>2. ASSUME NEW stop \in Replies, ModelReplies(stop) PROVE SaveOK'
  <2> SUFFICES ASSUME runPc' = "save" PROVE SaveOK'
    BY <1>q
  <2> DEFINE m == Reply(replies + 1, stop)
  <2>1. m \in Message
    BY <1>0, <1>2, ValuesAre
  <2>2. /\ transcript' = Append(transcript, m) /\ unsaved' = m
        /\ byHand.at = "no" /\ UNCHANGED << byHand, unheard >>
    BY <1>2 DEF ModelReplies, Push, connected, RunPC
  <2>4. /\ replies' = replies + 1 /\ m.kind = "assistant" /\ m.n = replies + 1
        /\ m.stop = "tools" => afterSave' = "tool"
    BY <1>2 DEF ModelReplies, Push, Reply
  <2> HIDE DEF m
  <2>3. transcript' # << >> /\ Last(transcript') = m
    BY <1>t, <2>1, <2>2, LastAppend
  <2> QED
    BY <2>2, <2>3, <2>4 DEF SaveOK, Listens, Calls, IsReply
<1>3. CASE ToolEnds
  <2> SUFFICES ASSUME runPc' = "save" PROVE SaveOK'
    BY <1>q
  <2> DEFINE m == Result(replies)
  <2>1. m \in Message
    BY <1>0, ValuesAre
  <2>2. /\ transcript' = Append(transcript, m) /\ unsaved' = m
        /\ byHand.at = "no" /\ UNCHANGED << byHand, unheard >>
    BY <1>3 DEF ToolEnds, Push, connected, RunPC
  <2>4. m.kind = "result" /\ m = Result(replies) /\ UNCHANGED replies
    BY <1>3 DEF ToolEnds, Result
  <2>5. m \notin unheard
    <3>1. Expected /\ replies \in Nat
      BY <1>3 DEF ToolEnds, Expected, TypeOK, HistoryTypes
    <3> QED
      BY <3>1 DEF ResultsOK
  <2> HIDE DEF m
  <2>3. transcript' # << >> /\ Last(transcript') = m
    BY <1>t, <2>1, <2>2, LastAppend
  <2> QED
    BY <2>2, <2>3, <2>4, <2>5 DEF SaveOK, Listens, Calls, IsReply
<1>4. CASE Save
  <2>1. afterSave # "save"
    BY <1>4 DEF Save, TypeOK, RunTypes, RunPC
  <2> QED
    BY <1>q, <1>4, <2>1 DEF Save
<1>5. CASE PollSteering
  BY <1>q, <1>5 DEF PollSteering
<1>6. CASE PollFollowUps
  BY <1>q, <1>6 DEF PollFollowUps
<1>7. CASE RunEnds
  BY <1>q, <1>7 DEF RunEnds
<1>8. ASSUME NEW p \in Prompters, PrepareRetry(p) PROVE SaveOK'
  BY <1>p, <1>8 DEF PrepareRetry
<1>9. ASSUME NEW p \in Prompters, NoRetry(p) PROVE SaveOK'
  BY <1>p, <1>9 DEF NoRetry
<1>10. ASSUME NEW p \in Prompters, NothingHeard(p) PROVE SaveOK'
  BY <1>p, <1>10 DEF NothingHeard
<1>11. ASSUME NEW p \in Prompters, SleepEnds(p) PROVE SaveOK'
  BY <1>p, <1>11 DEF SleepEnds
<1>12. ASSUME NEW p \in Prompters, NoCompactionNeeded(p) PROVE SaveOK'
  BY <1>p, <1>12 DEF NoCompactionNeeded
<1>13. ASSUME NEW p \in Prompters, RecoverFromOverflow(p) PROVE SaveOK'
  BY <1>p, <1>13 DEF RecoverFromOverflow, StartCompaction
<1>14. ASSUME NEW p \in Prompters, CompactAtThreshold(p) PROVE SaveOK'
  BY <1>p, <1>14 DEF CompactAtThreshold, StartCompaction
<1>15. ASSUME NEW p \in Prompters, CompactionSucceeds(p) PROVE SaveOK'
  BY <1>p, <1>15 DEF CompactionSucceeds, EndCompaction
<1>16. ASSUME NEW p \in Prompters, CompactionFails(p) PROVE SaveOK'
  BY <1>p, <1>16 DEF CompactionFails, EndCompaction
<1>17. ASSUME NEW p \in Prompters, ContinueTranscript(p) PROVE SaveOK'
  BY <1>q, <1>17 DEF ContinueTranscript, ContinueFrom, BeginRun
<1>18. ASSUME NEW p \in Prompters, ContinueWithQueue(p) PROVE SaveOK'
  BY <1>q, <1>18 DEF ContinueWithQueue, ContinueFrom, BeginRun
<1>19. ASSUME NEW p \in Prompters, ContinueThrows(p) PROVE SaveOK'
  BY <1>p, <1>19 DEF ContinueThrows
<1>20. ASSUME NEW p \in Prompters, Return(p) PROVE SaveOK'
  BY <1>p, <1>20 DEF Return
<1>21. ASSUME NEW p \in Prompters, Send(p) PROVE SaveOK'
  <2>1. runPc' = "prompts"
    <3>1. ~isStreaming
      BY <1>21, Alone DEF Send
    <3> QED
      BY <1>21, <3>1 DEF Send, BeginRun
  <2> QED
    BY <1>q, <2>1
<1>22. CASE PrepareCompact
  <2>1. ~Listens /\ UNCHANGED runPc
    BY <1>22 DEF PrepareCompact, CompactStep, Listens
  <2> QED
    BY <1>q, <2>1 DEF SaveOK
<1>23. CASE CompactSucceeds
  <2>1. ~Listens /\ UNCHANGED runPc
    BY <1>23 DEF CompactSucceeds, CompactStep, Listens
  <2> QED
    BY <1>q, <2>1 DEF SaveOK
<1>24. CASE CompactFails
  <2>1. ~Listens /\ UNCHANGED runPc
    BY <1>24 DEF CompactFails, CompactStep, Listens
  <2> QED
    BY <1>q, <2>1 DEF SaveOK
<1>25. ASSUME NEW p \in Prompters, Prompt(p) PROVE SaveOK'
  BY <1>p, <1>25 DEF Prompt
<1>26. CASE Steer
  BY <1>s, <1>26 DEF Steer, Accept
<1>27. CASE FollowUp
  BY <1>s, <1>27 DEF FollowUp, Accept
<1>28. CASE ClearQueue
  BY <1>s, <1>28 DEF ClearQueue
<1>29. CASE AbortRetry
  BY <1>s, <1>29 DEF AbortRetry
<1>30. CASE Abort
  BY <1>s, <1>30 DEF Abort
<1>31. CASE RecordBashResult
  <2>1. CASE isStreaming
    BY <1>s, <1>31, <2>1 DEF RecordBashResult
  <2>2. CASE ~isStreaming
    <3>1. runPc = "none"
      BY <1>0, <2>2 DEF Control, RunOK, isStreaming
    <3> QED
      BY <1>q, <1>31, <3>1 DEF RecordBashResult
  <2> QED
    BY <2>1, <2>2
<1>32. CASE Compact
  <2>1. runPc = "save" => isStreaming
    BY <1>0 DEF Control, RunOK, isStreaming
  <2>2. /\ UNCHANGED << transcript, unsaved, replies, afterSave, unheard,
                        runPc >>
        /\ isStreaming => byHand'.at = "abort"
    BY <1>32 DEF Compact, Disconnected
  <2> QED
    BY <2>1, <2>2 DEF SaveOK, Listens
<1>33. CASE UNCHANGED vars
  BY <1>33, <1>s
<1> QED
  BY <1>1, <1>2, <1>3, <1>4, <1>5, <1>6, <1>7, <1>8, <1>9, <1>10, <1>11, <1>12,
       <1>13, <1>14, <1>15, <1>16, <1>17, <1>18, <1>19, <1>20, <1>21, <1>22,
       <1>23, <1>24, <1>25, <1>26, <1>27, <1>28, <1>29, <1>30, <1>31, <1>32,
       <1>33 DEF Next, Progress, RunStep, CallStep, Operation

\* The results of the calls, and the calls that are open.
LEMMA ResultsPreserved ==
  ASSUME OnePrompter, TypeOK, Control, SaveOK, ResultsOK, OpenOK, [Next]_vars
  PROVE  ResultsOK' /\ OpenOK'
<1> USE DEF vars, fileVars, agentQueues, shownQueues, runVars, retryVars,
      replyVars, callVars, manualVars, historyVars
<1>0. TypeOK /\ Control
  OBVIOUS
<1>t. /\ log \in Seq(Entry) /\ transcript \in Seq(Shown) /\ replies \in Nat
      /\ pendingBash \in Seq(BashMessage)
      /\ BashMessage \subseteq Entry /\ BashMessage \subseteq Shown
      /\ Message \subseteq Entry /\ Message \subseteq Shown
  BY Subtypes DEF TypeOK, FileTypes, HistoryTypes
<1>g. /\ runPc' # "tool"
      /\ runPc' = "save" => afterSave' # "tool"
      => ~Expected'
  BY DEF Expected
<1>f. ASSUME Fine(log', log, unheard),
             Fine(transcript', transcript, unheard)
               \/ Fine(transcript', log, unheard),
             unheard \subseteq unheard',
             \A n \in Nat : Result(n) \in unheard' => Result(n) \in unheard,
             replies' \in Nat, replies <= replies',
             Expected' => Expected \/ replies < replies'
      PROVE  ResultsOK' /\ OpenOK'
  <2>1. Closed(log', Missed(log)') /\ Ended(log', Missed(log)')
    <3>1. Closed(log', MissedIn(log', unheard'))
            /\ Ended(log', MissedIn(log', unheard'))
      BY <1>f, FineIs
    <3> QED
      BY <3>1 DEF Missed
  <2>2. Closed(transcript', Missed(transcript)')
          /\ Ended(transcript', Missed(transcript)')
    <3>1. /\ Closed(transcript', MissedIn(transcript', unheard'))
          /\ Ended(transcript', MissedIn(transcript', unheard'))
      BY <1>f, FineIs
    <3> QED
      BY <3>1 DEF Missed
  <2>3. OpenOK'
    BY <2>1, <2>2 DEF OpenOK
  <2>4. ASSUME NEW n \in Nat,
               Result(n)
                 \in unheard' \union ToSet(log') \union ToSet(transcript')
        PROVE  n <= replies' /\ (Expected' => n < replies')
    <3>1. Result(n) \in unheard \union ToSet(log) \union ToSet(transcript)
      BY <1>f, <2>4 DEF Fine
    <3>2. n <= replies /\ (Expected => n < replies)
      BY <3>1 DEF ResultsOK
    <3>3. n <= replies' /\ (replies < replies' => n < replies')
          /\ (n < replies => n < replies')
      BY <1>f, <1>t, <3>2
    <3> QED
      BY <1>f, <3>2, <3>3
  <2> QED
    BY <2>3, <2>4 DEF ResultsOK
<1>k. ASSUME runPc \notin {"tool", "save"}
      PROVE  Fine(log, log, unheard) /\ Fine(transcript, transcript, unheard)
  BY <1>k, FineNow
<1>u. ASSUME UNCHANGED << log, transcript, unheard, replies, runPc, unsaved,
                          afterSave >>, Listens => Listens'
      PROVE  ResultsOK' /\ OpenOK'
  <2>1. /\ Expected' <=> Expected
        /\ Awaited' <=> Awaited
        /\ Missed(log)' = Missed(log)
        /\ Missed(transcript)' = Missed(transcript)
    BY <1>u DEF Expected, Awaited, Missed
  <2>2. ResultsOK'
    BY <1>u, <2>1 DEF ResultsOK
  <2>3. OpenOK'
    BY <1>u, <2>1 DEF OpenOK
  <2> QED
    BY <2>2, <2>3
<1>s. ASSUME runPc \notin {"tool", "save"},
             UNCHANGED << log, transcript, unheard, replies >>, ~Expected'
      PROVE  ResultsOK' /\ OpenOK'
  BY <1>s, <1>k, <1>f, <1>t
<1>p. ASSUME NEW p \in Prompters, pc[p] # "run"
      PROVE  /\ runPc = "none" /\ runPc \notin {"tool", "save"} /\ ~isStreaming
             /\ Fine(log, log, unheard) /\ Fine(transcript, transcript, unheard)
             /\ UNCHANGED runPc => ~Expected'
  BY <1>p, <1>k, <1>g, Alone
<1>b. ASSUME runPc \notin {"tool", "save"}, FlushPendingBashMessages,
             UNCHANGED << unheard, replies >>, ~Expected'
      PROVE  ResultsOK' /\ OpenOK'
  <2>1. Fine(log', log, unheard)
    <3>1. Fine(log \o pendingBash, log, unheard)
      BY <1>b, <1>k, <1>t, FineConcat
    <3> QED
      BY <1>b, <3>1 DEF FlushPendingBashMessages
  <2>2. Fine(transcript', transcript, unheard)
    <3>1. Fine(transcript \o pendingBash, transcript, unheard)
      BY <1>b, <1>k, <1>t, FineConcat
    <3> QED
      BY <1>b, <3>1 DEF FlushPendingBashMessages
  <2> QED
    BY <1>b, <1>t, <1>f, <2>1, <2>2
<1>w. ASSUME runPc \notin {"tool", "save"}
      PROVE  Fine(WithoutLastReply(transcript), transcript, unheard)
  <2>1. Fine(transcript, transcript, unheard)
    BY <1>w, <1>k
  <2>2. CASE transcript # << >> /\ IsReply(Last(transcript))
    <3>1. Last(transcript).kind # "result"
      BY <2>2 DEF IsReply
    <3>2. Fine(Front(transcript), transcript, unheard)
      BY <1>t, <2>1, <2>2, <3>1, FineFront
    <3> QED
      BY <2>2, <3>2 DEF WithoutLastReply
  <2>3. CASE ~(transcript # << >> /\ IsReply(Last(transcript)))
    BY <2>1, <2>3 DEF WithoutLastReply
  <2> QED
    BY <2>2, <2>3
<1>c. ASSUME NEW seen \in 0..Len(log), AppendCompaction(seen),
             Fine(log, log, unheard)
      PROVE  LET context == BuildSessionContext(log')
             IN  /\ Fine(log', log, unheard) /\ Fine(context, log, unheard)
                 /\ IsFailed(Last(context))
                     => Fine(Front(context), log, unheard)
  <2>1. PICK c \in CompactionEntry : log' = Append(log, c)
    BY <1>c, <1>t, AppendCompactionIs
  <2> QED
    BY <1>c, <1>t, <2>1, FineContext
<1>e. ASSUME NEW m \in Message, ~Calls(m), m.kind # "result",
             runPc \notin {"tool", "save"}
      PROVE  /\ Fine(Append(transcript, m), transcript, unheard)
             /\ Fine(Append(log, m), log, unheard)
             /\ \A n \in Nat :
                 Result(n) \in unheard \union {m} => Result(n) \in unheard
  <2>1. Fine(Append(transcript, m), transcript, unheard)
    BY <1>e, <1>k, <1>t, FineAppend
  <2>2. Fine(Append(log, m), log, unheard)
    BY <1>e, <1>k, <1>t, FineAppend
  <2>3. \A n \in Nat : Result(n) # m
    BY <1>e DEF Result
  <2> QED
    BY <2>1, <2>2, <2>3
<1>1. CASE Announce
  <2> DEFINE m == Head(held)
  <2>1. m \in Message /\ m.kind = "user"
    BY <1>0, <1>1, ValuesAre DEF Announce, UserMessage
  <2>2. /\ runPc \notin {"tool", "save"}
        /\ transcript' = Append(transcript, m) /\ UNCHANGED << log, replies >>
        /\ unheard' \in {unheard, unheard \union {m}}
        /\ ~Expected'
    BY <1>1, <1>g DEF Announce, Push
  <2> HIDE DEF m
  <2>3. ~Calls(m) /\ m.kind # "result"
    BY <2>1 DEF Calls, IsReply
  <2> QED
    BY <1>t, <1>e, <1>f, <1>k, <2>1, <2>2, <2>3
<1>2. ASSUME NEW stop \in Replies, ModelReplies(stop)
      PROVE ResultsOK' /\ OpenOK'
  <2> DEFINE m == Reply(replies + 1, stop)
  <2>1. m \in Message
    BY <1>0, <1>2, ValuesAre
  <2>2. m.kind = "assistant" /\ m.n = replies + 1 /\ m.stop = stop
    BY DEF Reply
  <2>3. /\ runPc = "turn" /\ transcript' = Append(transcript, m)
        /\ replies' = replies + 1 /\ UNCHANGED log
        /\ unheard' \in {unheard, unheard \union {m}}
        /\ stop = "tools" => Expected'
        /\ stop # "tools" => ~Expected'
    BY <1>2 DEF ModelReplies, Push, Expected
  <2> HIDE DEF m
  <2>4. replies' \in Nat /\ replies <= replies' /\ replies < replies'
    BY <1>t, <2>3
  <2>5. CASE stop # "tools"
    <3>1. ~Calls(m) /\ m.kind # "result"
      BY <2>2, <2>5 DEF Calls
    <3> QED
      BY <1>t, <1>e, <1>f, <1>k, <2>1, <2>3, <2>4, <2>5, <3>1
  <2>6. CASE stop = "tools"
    <3>1. Fine(log, log, unheard) /\ Fine(transcript, transcript, unheard)
      BY <1>k, <2>3
    <3>2. \A n \in Nat : Result(n) # m
      BY <2>2 DEF Result
    <3>3. ToSet(transcript') = ToSet(transcript) \union {m}
      BY <1>t, <2>1, <2>3, ToSetAppend
    <3>4. Closed(transcript', Missed(transcript)')
      <4>1. Missed(transcript) \subseteq Missed(transcript)'
        BY <2>3, <3>2, <3>3 DEF Missed, MissedIn
      <4>2. Closed(transcript, Missed(transcript))
              /\ Ended(transcript, Missed(transcript))
        BY <3>1 DEF Fine, Missed
      <4>3. Follows(transcript, m, Missed(transcript))
        BY <4>2 DEF Follows, Ended
      <4>4. Closed(transcript', Missed(transcript))
        BY <1>t, <2>1, <2>3, <4>2, <4>3, ClosedAppend
      <4> QED
        BY <4>1, <4>4, ClosedMore
    <3>5. Last(transcript') = m
      BY <1>t, <2>1, <2>3, LastAppend
    <3>6. Closed(log', Missed(log)') /\ Ended(log', Missed(log)')
      <4>1. Missed(log) \subseteq Missed(log)'
        BY <2>3 DEF Missed, MissedIn
      <4>2. Closed(log, Missed(log)) /\ Ended(log, Missed(log))
        BY <3>1 DEF Fine, Missed
      <4> QED
        BY <2>3, <4>1, <4>2, ClosedMore
    <3>7. OpenOK'
      BY <2>2, <2>3, <2>6, <3>4, <3>5, <3>6 DEF OpenOK
    <3>8. ASSUME NEW n \in Nat,
                 Result(n)
                   \in unheard' \union ToSet(log') \union ToSet(transcript')
          PROVE  n < replies'
      <4>1. Result(n) \in unheard \union ToSet(log) \union ToSet(transcript)
        BY <2>3, <3>2, <3>3, <3>8
      <4>2. n <= replies
        BY <4>1 DEF ResultsOK
      <4> QED
        BY <1>t, <2>3, <4>2
    <3>9. ResultsOK'
      BY <2>4, <3>8 DEF ResultsOK
    <3> QED
      BY <3>7, <3>9
  <2> QED
    BY <2>5, <2>6
<1>3. CASE ToolEnds
  <2> DEFINE m == Result(replies)
  <2>1. m \in Message
    BY <1>0, ValuesAre
  <2>2. /\ runPc = "tool" /\ transcript' = Append(transcript, m)
        /\ UNCHANGED << log, replies >> /\ ~Expected'
        /\ \/ UNCHANGED unheard /\ Awaited' /\ Listens'
           \/ unheard' = unheard \union {m}
    BY <1>3 DEF ToolEnds, Push, connected, Listens, Awaited, Expected
  <2>3. m \notin unheard \union ToSet(log) \union ToSet(transcript)
    <3>1. Expected
      BY <2>2 DEF Expected
    <3> QED
      BY <1>t, <3>1 DEF ResultsOK
  <2>4. \A n \in Nat : Result(n) = m <=> n = replies
    BY <1>t DEF Result
  <2>5. m.kind = "result" /\ ~Calls(m)
    BY DEF Result, Calls, IsReply
  <2>6. Follows(transcript, m, Missed(transcript))
    BY DEF OpenOK, Ended, Follows
  <2> HIDE DEF m
  <2>7. ToSet(transcript') = ToSet(transcript) \union {m}
    BY <1>t, <2>1, <2>2, ToSetAppend
  <2>8. Closed(transcript', Missed(transcript)')
          /\ Ended(transcript', Missed(transcript)')
    <3>1. Missed(transcript) \subseteq Missed(transcript)'
      BY <2>2, <2>3, <2>7 DEF Missed, MissedIn
    <3>2. Closed(transcript', Missed(transcript))
      BY <1>t, <2>1, <2>2, <2>6, ClosedAppend DEF OpenOK
    <3>3. Last(transcript') = m
      BY <1>t, <2>1, <2>2, LastAppend
    <3> QED
      BY <2>5, <3>1, <3>2, <3>3, ClosedMore DEF Ended
  <2>9. /\ Closed(log', Missed(log)')
        /\ \/ Ended(log', Missed(log)')
           \/ Last(log').n = replies' /\ Awaited' /\ Listens'
    <3>1. Missed(log) \subseteq Missed(log)'
      BY <2>2 DEF Missed, MissedIn
    <3>2. Closed(log', Missed(log)')
      BY <2>2, <3>1, ClosedMore DEF OpenOK
    <3>3. CASE Ended(log, Missed(log))
      BY <2>2, <3>1, <3>2, <3>3, ClosedMore
    <3>4. CASE Last(log).n = replies
      <4>1. CASE UNCHANGED unheard /\ Awaited' /\ Listens'
        BY <2>2, <3>2, <3>4, <4>1
      <4>2. CASE unheard' = unheard \union {m}
        <5>1. replies \in Missed(log)'
          BY <1>t, <2>2, <2>3, <2>4, <4>2 DEF Missed, MissedIn
        <5> QED
          BY <2>2, <3>2, <3>4, <5>1 DEF Ended
      <4> QED
        BY <2>2, <4>1, <4>2
    <3> QED
      BY <3>3, <3>4 DEF OpenOK
  <2>10. OpenOK'
    BY <2>8, <2>9 DEF OpenOK
  <2>11. ASSUME NEW n \in Nat,
                Result(n)
                  \in unheard' \union ToSet(log') \union ToSet(transcript')
         PROVE  n <= replies'
    <3>1. Result(n) = m
            \/ Result(n) \in unheard \union ToSet(log) \union ToSet(transcript)
      BY <2>2, <2>7, <2>11
    <3> QED
      BY <1>t, <2>2, <2>4, <3>1 DEF ResultsOK
  <2> QED
    BY <2>2, <2>10, <2>11 DEF ResultsOK
<1>4. CASE Save
  <2> DEFINE m == unsaved
  <2>1. /\ m \in Message /\ runPc = "save" /\ log' = Append(log, m)
        /\ UNCHANGED << transcript, replies, unheard, byHand >>
        /\ runPc' = afterSave /\ afterSave # "save"
    BY <1>0, <1>4, ValuesAre DEF Save, TypeOK, RunTypes, RunPC
  <2>2. /\ Listens /\ transcript # << >> /\ Last(transcript) = m
        /\ Calls(m) => m.n = replies /\ afterSave = "tool"
        /\ m.kind = "result" => m = Result(replies) /\ m \notin unheard
    BY <2>1 DEF SaveOK
  <2>3. /\ Expected' <=> Expected
        /\ Listens'
        /\ Awaited' <=> afterSave = "tool"
        /\ Awaited => m = Result(replies)
    BY <2>1, <2>2 DEF Expected, Listens, Awaited
  <2> HIDE DEF m
  <2>4. m \in ToSet(transcript)
    BY <1>t, <2>2, FrontLast
  <2>5. ToSet(log') = ToSet(log) \union {m}
    BY <1>t, <2>1, ToSetAppend
  <2>6. ResultsOK'
    <3> SUFFICES ASSUME NEW n \in Nat,
                   Result(n)
                     \in unheard' \union ToSet(log') \union ToSet(transcript')
                 PROVE  n <= replies' /\ (Expected' => n < replies')
      BY DEF ResultsOK
    <3>1. Result(n) \in unheard \union ToSet(log) \union ToSet(transcript)
      BY <2>1, <2>4, <2>5
    <3> QED
      BY <2>1, <2>3, <3>1 DEF ResultsOK
  <2>7. Missed(transcript)' = Missed(transcript)
    BY <2>1 DEF Missed
  <2>8. Missed(log) \subseteq Missed(log)'
    <3>1. ASSUME NEW n \in Nat, Result(n) \in unheard PROVE Result(n) # m
      <4>1. Result(n).kind = "result"
        BY DEF Result
      <4> QED
        BY <2>2, <3>1, <4>1
    <3> QED
      BY <2>1, <2>5, <3>1 DEF Missed, MissedIn
  <2>9. Closed(log', Missed(log)')
    <3>1. Follows(log, m, Missed(log))
      BY <2>3 DEF OpenOK, Ended, Follows
    <3>2. Closed(log', Missed(log))
      BY <1>t, <2>1, <3>1, ClosedAppend DEF OpenOK
    <3> QED
      BY <2>8, <3>2, ClosedMore
  <2>10. \/ Ended(log', Missed(log)')
         \/ Last(log').n = replies' /\ Awaited' /\ Listens'
    <3>1. Last(log') = m
      BY <1>t, <2>1, LastAppend
    <3>2. CASE Calls(m)
      BY <2>1, <2>2, <2>3, <3>1, <3>2
    <3>3. CASE ~Calls(m)
      BY <3>1, <3>3 DEF Ended
    <3> QED
      BY <3>2, <3>3
  <2>11. OpenOK'
    BY <2>1, <2>3, <2>7, <2>9, <2>10 DEF OpenOK
  <2> QED
    BY <2>6, <2>11
<1>5. CASE PollSteering
  <2>1. /\ runPc \notin {"tool", "save"} /\ ~Expected'
        /\ UNCHANGED << log, transcript, unheard, replies >>
    BY <1>5 DEF PollSteering, Expected
  <2> QED
    BY <1>s, <2>1
<1>6. CASE PollFollowUps
  <2>1. /\ runPc \notin {"tool", "save"} /\ ~Expected'
        /\ UNCHANGED << log, transcript, unheard, replies >>
    BY <1>6 DEF PollFollowUps, Expected
  <2> QED
    BY <1>s, <2>1
<1>7. CASE RunEnds
  <2>1. /\ runPc \notin {"tool", "save"} /\ ~Expected'
        /\ UNCHANGED << log, transcript, unheard, replies >>
    BY <1>7 DEF RunEnds, Expected
  <2> QED
    BY <1>s, <2>1
<1>8. ASSUME NEW p \in Prompters, PrepareRetry(p) PROVE ResultsOK' /\ OpenOK'
  <2>1. /\ pc[p] # "run" /\ transcript' = WithoutLastReply(transcript)
        /\ UNCHANGED << runPc, log, unheard, replies >>
    BY <1>8 DEF PrepareRetry
  <2> QED
    BY <1>t, <1>p, <1>w, <1>f, <2>1
<1>9. ASSUME NEW p \in Prompters, NoRetry(p) PROVE ResultsOK' /\ OpenOK'
  <2>1. pc[p] # "run"
          /\ UNCHANGED << runPc, log, transcript, unheard, replies >>
    BY <1>9 DEF NoRetry
  <2> QED
    BY <1>p, <1>s, <2>1
<1>10. ASSUME NEW p \in Prompters, NothingHeard(p) PROVE ResultsOK' /\ OpenOK'
  <2>1. pc[p] # "run"
          /\ UNCHANGED << runPc, log, transcript, unheard, replies >>
    BY <1>10 DEF NothingHeard
  <2> QED
    BY <1>p, <1>s, <2>1
<1>11. ASSUME NEW p \in Prompters, SleepEnds(p) PROVE ResultsOK' /\ OpenOK'
  <2>1. pc[p] # "run"
          /\ UNCHANGED << runPc, log, transcript, unheard, replies >>
    BY <1>11 DEF SleepEnds
  <2> QED
    BY <1>p, <1>s, <2>1
<1>12. ASSUME NEW p \in Prompters, NoCompactionNeeded(p)
       PROVE ResultsOK' /\ OpenOK'
  <2>1. pc[p] # "run"
          /\ UNCHANGED << runPc, log, transcript, unheard, replies >>
    BY <1>12 DEF NoCompactionNeeded
  <2> QED
    BY <1>p, <1>s, <2>1
<1>13. ASSUME NEW p \in Prompters, RecoverFromOverflow(p)
       PROVE ResultsOK' /\ OpenOK'
  <2>1. /\ pc[p] # "run" /\ transcript' = WithoutLastReply(transcript)
        /\ UNCHANGED << runPc, log, unheard, replies >>
    BY <1>13 DEF RecoverFromOverflow, StartCompaction
  <2> QED
    BY <1>t, <1>p, <1>w, <1>f, <2>1
<1>14. ASSUME NEW p \in Prompters, CompactAtThreshold(p)
       PROVE ResultsOK' /\ OpenOK'
  <2>1. pc[p] # "run"
          /\ UNCHANGED << runPc, log, transcript, unheard, replies >>
    BY <1>14 DEF CompactAtThreshold, StartCompaction
  <2> QED
    BY <1>p, <1>s, <2>1
<1>15. ASSUME NEW p \in Prompters, CompactionSucceeds(p)
       PROVE ResultsOK' /\ OpenOK'
  <2>0. PICK seen \in 0..Len(log) : AppendCompaction(seen)
    <3>1. /\ compaction[p].seen \in 0..Len(log)
          /\ \E seen \in compaction[p].seen..Len(log) : AppendCompaction(seen)
      BY <1>15 DEF CompactionSucceeds, TypeOK, CallTypes
    <3> QED BY <3>1
  <2>1. /\ pc[p] # "run" /\ AppendCompaction(seen)
        /\ UNCHANGED << runPc, unheard, replies >>
        /\ transcript'
            \in {BuildSessionContext(log'), Front(BuildSessionContext(log'))}
        /\ transcript' # BuildSessionContext(log') =>
             IsFailed(Last(BuildSessionContext(log')))
    BY <1>15, <2>0 DEF CompactionSucceeds, EndCompaction
  <2>3. Fine(log', log, unheard) /\ Fine(transcript', log, unheard)
    BY <1>p, <1>c, <2>1
  <2> QED
    BY <1>t, <1>p, <1>f, <2>1, <2>3
<1>16. ASSUME NEW p \in Prompters, CompactionFails(p)
       PROVE ResultsOK' /\ OpenOK'
  <2>1. pc[p] # "run"
          /\ UNCHANGED << runPc, log, transcript, unheard, replies >>
    BY <1>16 DEF CompactionFails, EndCompaction
  <2> QED
    BY <1>p, <1>s, <2>1
<1>17. ASSUME NEW p \in Prompters, ContinueTranscript(p)
       PROVE ResultsOK' /\ OpenOK'
  <2>1. /\ pc[p] # "run" /\ runPc' = "prompts"
        /\ UNCHANGED << log, transcript, unheard, replies >>
    BY <1>17 DEF ContinueTranscript, ContinueFrom, BeginRun
  <2> QED
    BY <1>p, <1>s, <1>g, <2>1
<1>18. ASSUME NEW p \in Prompters, ContinueWithQueue(p)
       PROVE ResultsOK' /\ OpenOK'
  <2>1. /\ pc[p] # "run" /\ runPc' = "prompts"
        /\ UNCHANGED << log, transcript, unheard, replies >>
    BY <1>18 DEF ContinueWithQueue, ContinueFrom, BeginRun
  <2> QED
    BY <1>p, <1>s, <1>g, <2>1
<1>19. ASSUME NEW p \in Prompters, ContinueThrows(p)
       PROVE ResultsOK' /\ OpenOK'
  <2>1. /\ pc[p] # "run" /\ FlushPendingBashMessages
        /\ UNCHANGED << runPc, unheard, replies >>
    BY <1>19 DEF ContinueThrows
  <2> QED
    BY <1>p, <1>b, <2>1
<1>20. ASSUME NEW p \in Prompters, Return(p) PROVE ResultsOK' /\ OpenOK'
  <2>1. /\ pc[p] # "run" /\ FlushPendingBashMessages
        /\ UNCHANGED << runPc, unheard, replies >>
    BY <1>20 DEF Return
  <2> QED
    BY <1>p, <1>b, <2>1
<1>21. ASSUME NEW p \in Prompters, Send(p) PROVE ResultsOK' /\ OpenOK'
  <2>1. pc[p] # "run"
    BY <1>21 DEF Send
  <2>2. /\ runPc' = "prompts"
        /\ UNCHANGED << log, transcript, unheard, replies >>
    BY <1>21, <1>p, <2>1 DEF Send, BeginRun
  <2> QED
    BY <1>p, <1>s, <1>g, <2>1, <2>2
<1>22. CASE PrepareCompact
  <2>1. /\ ~Listens
        /\ UNCHANGED << log, transcript, unheard, replies, runPc, unsaved,
                        afterSave >>
    BY <1>22 DEF PrepareCompact, CompactStep, Listens
  <2> QED
    BY <1>u, <2>1
<1>23. CASE CompactSucceeds
  <2>1. /\ ~Listens /\ AppendCompaction(byHand.seen)
        /\ transcript' = BuildSessionContext(log')
        /\ UNCHANGED << runPc, afterSave, unheard, replies >>
    BY <1>23 DEF CompactSucceeds, CompactStep, Listens
  <2>2. byHand.seen \in 0..Len(log)
    BY DEF TypeOK, ManualTypes
  <2>3. Fine(log, log, unheard)
    BY <2>1 DEF OpenOK, Fine, Missed
  <2>4. Fine(log', log, unheard) /\ Fine(transcript', log, unheard)
    BY <1>c, <2>1, <2>2, <2>3
  <2>5. Expected' <=> Expected
    BY <2>1 DEF Expected
  <2> QED
    BY <1>t, <1>f, <2>1, <2>4, <2>5
<1>24. CASE CompactFails
  <2>1. /\ ~Listens
        /\ UNCHANGED << log, transcript, unheard, replies, runPc, unsaved,
                        afterSave >>
    BY <1>24 DEF CompactFails, CompactStep, Listens
  <2> QED
    BY <1>u, <2>1
<1>25. ASSUME NEW p \in Prompters, Prompt(p) PROVE ResultsOK' /\ OpenOK'
  <2>1. /\ pc[p] # "run" /\ FlushPendingBashMessages
        /\ UNCHANGED << runPc, unheard, replies >>
    BY <1>25 DEF Prompt
  <2> QED
    BY <1>p, <1>b, <2>1
<1>26. CASE Steer
  <2>1. Listens => Listens'
    BY <1>26 DEF Steer, Accept, Listens
  <2> QED
    BY <1>u, <1>26, <2>1 DEF Steer, Accept
<1>27. CASE FollowUp
  <2>1. Listens => Listens'
    BY <1>27 DEF FollowUp, Accept, Listens
  <2> QED
    BY <1>u, <1>27, <2>1 DEF FollowUp, Accept
<1>28. CASE ClearQueue
  <2>1. Listens => Listens'
    BY <1>28 DEF ClearQueue, Listens
  <2> QED
    BY <1>u, <1>28, <2>1 DEF ClearQueue
<1>29. CASE AbortRetry
  <2>1. Listens => Listens'
    BY <1>29 DEF AbortRetry, Listens
  <2> QED
    BY <1>u, <1>29, <2>1 DEF AbortRetry
<1>30. CASE Abort
  <2>1. Listens => Listens'
    BY <1>30 DEF Abort, Listens
  <2> QED
    BY <1>u, <1>30, <2>1 DEF Abort
<1>31. CASE RecordBashResult
  <2>1. CASE isStreaming
    <3>1. Listens => Listens'
      BY <1>31 DEF RecordBashResult, Listens
    <3> QED
      BY <1>u, <1>31, <2>1, <3>1 DEF RecordBashResult
  <2>2. CASE ~isStreaming
    <3> DEFINE m == Bash(nextBash)
    <3>1. /\ runPc = "none" /\ runPc' = "none" /\ nextBash <= MaxBashMessages
          /\ transcript' = Append(transcript, m) /\ log' = Append(log, m)
          /\ UNCHANGED << unheard, replies >>
      BY <1>0, <1>31, <2>2 DEF RecordBashResult, Control, RunOK, isStreaming
    <3>2. m \in Message
      BY <1>0, <3>1, ValuesAre, Subtypes
    <3>3. ~Calls(m) /\ m.kind # "result"
      BY DEF Bash, Calls, IsReply
    <3> HIDE DEF m
    <3> QED
      BY <1>t, <1>e, <1>f, <1>g, <3>1, <3>2, <3>3
  <2> QED
    BY <2>1, <2>2
<1>32. CASE Compact
  <2>1. /\ UNCHANGED << log, transcript, unheard, replies, runPc, unsaved,
                        afterSave >>
        /\ isStreaming => Listens'
    BY <1>32 DEF Compact, Disconnected, Listens
  <2>2. CASE isStreaming
    BY <1>u, <2>1, <2>2
  <2>3. CASE ~isStreaming
    <3>1. runPc = "none"
      BY <1>0, <2>3 DEF Control, RunOK, isStreaming
    <3> QED
      BY <1>s, <1>g, <2>1, <3>1
  <2> QED
    BY <2>2, <2>3
<1>33. CASE UNCHANGED vars
  <2>1. Listens => Listens'
    BY <1>33 DEF Listens
  <2> QED
    BY <1>33, <1>u, <2>1
<1> QED
  BY <1>1, <1>2, <1>3, <1>4, <1>5, <1>6, <1>7, <1>8, <1>9, <1>10, <1>11, <1>12,
       <1>13, <1>14, <1>15, <1>16, <1>17, <1>18, <1>19, <1>20, <1>21, <1>22,
       <1>23, <1>24, <1>25, <1>26, <1>27, <1>28, <1>29, <1>30, <1>31, <1>32,
       <1>33 DEF Next, Progress, RunStep, CallStep, Operation

\* At the start there is no call and no result.
LEMMA InitCalls == ASSUME Init PROVE SaveOK /\ ResultsOK /\ OpenOK
<1>1. log = << >> /\ transcript = << >> /\ unheard = {} /\ runPc = "none"
  BY DEF Init
<1>2. Len(<< >>) = 0 /\ ToSet(<< >>) = {}
  BY DEF ToSet
<1>3. SaveOK
  BY <1>1 DEF SaveOK
<1>4. ResultsOK
  BY <1>1, <1>2 DEF ResultsOK
<1>5. \A N : Closed(<< >>, N) /\ Ended(<< >>, N)
  BY <1>2 DEF Closed, Ended
<1> QED
  BY <1>1, <1>3, <1>4, <1>5 DEF OpenOK

\* Calls that are closed are not split.
LEMMA CallsClosed == ASSUME OpenOK PROVE BashNeverSplitsACall
<1>1. ASSUME NEW ms, Closed(ms, Missed(ms)), NEW i \in 1..(Len(ms) - 1),
             IsReply(ms[i]), ms[i].stop = "tools"
      PROVE  \/ ms[i + 1] = Result(ms[i].n)
             \/ Result(ms[i].n) \in unheard \ ToSet(ms)
  BY <1>1 DEF Closed, Calls, Missed, MissedIn
<1>2. Closed(log, Missed(log)) /\ Closed(transcript, Missed(transcript))
  BY DEF OpenOK
<1> QED
  BY <1>1, <1>2 DEF BashNeverSplitsACall

\* With one caller at a time, the result of a tool call directly follows the
\* call, in the transcript and in the session, whatever is recorded, queued,
\* aborted and compacted meanwhile (recordBashResult, _flushPendingBashMessages,
\* compact()).
THEOREM CallsKeepTheirResults ==
  ASSUME OnePrompter PROVE Spec => []BashNeverSplitsACall
<1>1. Init => TypeOK /\ Control /\ SaveOK /\ ResultsOK /\ OpenOK
  BY InitTypes, InitCalls
<1>2. TypeOK /\ Control /\ SaveOK /\ ResultsOK /\ OpenOK /\ [Next]_vars
        => (TypeOK /\ Control /\ SaveOK /\ ResultsOK /\ OpenOK)'
  BY TypesPreserved, SavePreserved, ResultsPreserved
<1>3. OpenOK => BashNeverSplitsACall
  BY CallsClosed
<1> QED
  BY <1>1, <1>2, <1>3, PTL DEF Spec
-----------------------------------------------------------------------------
(* What a reload of the session would show *)

\* The last element of two sequences.
LEMMA LastConcat ==
  ASSUME NEW T, NEW s \in Seq(T), NEW t \in Seq(T), t # << >>
  PROVE  s \o t # << >> /\ Last(s \o t) = Last(t)
<1> DEFINE f == Front(t)
           e == Last(t)
<1>1. f \in Seq(T) /\ e \in T /\ t = Append(f, e)
  BY FrontLast
<1> HIDE DEF f, e
<1>2. s \o t = Append(s \o f, e)
  BY <1>1
<1>3. s \o f \in Seq(T)
  BY <1>1, ConcatProperties
<1>4. Append(s \o f, e) # << >> /\ Last(Append(s \o f, e)) = e
  BY <1>1, <1>3, LastAppend
<1> QED
  BY <1>2, <1>4 DEF e

\* The last element is the last that is kept, or its removal changes nothing.
LEMMA OnlyLast ==
  ASSUME NEW T, NEW s \in Seq(T), s # << >>, NEW S
  PROVE  /\ Last(s) \in S => Only(s, S) # << >> /\ Last(Only(s, S)) = Last(s)
         /\ Last(s) \notin S => Only(Front(s), S) = Only(s, S)
<1> DEFINE f == Front(s)
           e == Last(s)
<1>1. f \in Seq(T) /\ e \in T /\ s = Append(f, e)
  BY FrontLast
<1> HIDE DEF f, e
<1>2. Only(s, S) = OneMore(Only(f, S), e, S) /\ Only(f, S) \in Seq(S)
  BY <1>1, OnlyAppend, OnlyType
<1>3. ASSUME e \in S PROVE Only(s, S) # << >> /\ Last(Only(s, S)) = e
  BY <1>2, <1>3, LastAppend DEF OneMore
<1>4. ASSUME e \notin S PROVE Only(f, S) = Only(s, S)
  BY <1>2, <1>4 DEF OneMore
<1> QED
  BY <1>3, <1>4 DEF e, f

\* Something is shown unless the session is empty.
LEMMA ContextStarts ==
  ASSUME NEW s \in Seq(Entry), s # << >>
  PROVE  BuildSessionContext(s) # << >>
<1>1. CASE Positions(s, {"compaction"}) = {}
  BY <1>1, ContextIs
<1>2. CASE Positions(s, {"compaction"}) # {}
  <2> DEFINE one == << Summary >>
             k == Messages(Kept(s))
             l == Later(s)
  <2>1. BuildSessionContext(s) = one \o k \o l
    BY <1>2, ContextIs
  <2>2. one \in Seq(Shown) /\ k \in Seq(Shown) /\ l \in Seq(Shown)
          /\ Len(one) = 1
    <3>1. one \in Seq(Shown) /\ Len(one) = 1
      BY Subtypes
    <3>2. k \in Seq(Message) /\ l \in Seq(Message)
      BY <1>2, ContextIs, PartsTyped
    <3> HIDE DEF one, k, l
    <3> QED
      BY <3>1, <3>2, Subtypes
  <2> HIDE DEF one, k, l
  <2>3. Len(one \o k \o l) = 1 + Len(k) + Len(l) /\ Len(k) \in Nat
          /\ Len(l) \in Nat
    <3> DEFINE h == one \o k
    <3>1. h \in Seq(Shown) /\ Len(h) = Len(one) + Len(k)
      BY <2>2, ConcatProperties
    <3> HIDE DEF h
    <3>2. Len(h \o l) = Len(h) + Len(l)
      BY <2>2, <3>1, ConcatProperties
    <3>3. Len(k) \in Nat /\ Len(l) \in Nat
      BY <2>2, LenProperties
    <3> QED
      BY <2>2, <3>1, <3>2, <3>3 DEF h
  <2>4. Len(<< >>) = 0
    OBVIOUS
  <2> QED
    BY <2>1, <2>3, <2>4
<1> QED
  BY <1>1, <1>2

\* What is shown after a message more is that message more.
LEMMA ContextOfOneMore ==
  ASSUME NEW s \in Seq(Entry), NEW m \in Message
  PROVE  BuildSessionContext(Append(s, m)) = Append(BuildSessionContext(s), m)
<1> DEFINE t == Append(s, m)
           C == Positions(s, {"compaction"})
<1>1. /\ t \in Seq(Entry) /\ Len(t) = Len(s) + 1 /\ t[Len(s) + 1] = m
      /\ Len(s) \in Nat /\ \A i \in 1..Len(s) : t[i] = s[i]
      /\ DOMAIN s = 1..Len(s) /\ DOMAIN t = 1..(Len(s) + 1) /\ m \in Entry
  BY Subtypes, AppendProperties, LenProperties
<1>2. m.kind # "compaction"
  BY Kinds
<1>3. Positions(t, {"compaction"}) = C
  <2> HIDE DEF t
  <2>1. 1..(Len(s) + 1) = 1..Len(s) \union {Len(s) + 1}
    BY <1>1
  <2> QED
    BY <1>1, <1>2, <2>1 DEF Positions
<1>4. CASE C = {}
  <2>1. BuildSessionContext(s) = s /\ BuildSessionContext(t) = t
    BY <1>1, <1>3, <1>4, ContextIs
  <2> QED
    BY <2>1
<1>5. CASE C # {}
  <2> DEFINE c == LastCompaction(s)
             k == Messages(Kept(s))
             l == Later(s)
             one == << Summary >>
  <2>1. /\ c \in 1..Len(s) /\ s[c].keep \in Nat \ {0}
        /\ l \in Seq(Message) /\ k \in Seq(Message)
    BY <1>5, PartsTyped, ContextIs DEF CompactionEntry
  <2>2. LastCompaction(t) = c
    BY <1>3 DEF LastCompaction
  <2>3. Kept(t) = Kept(s)
    <3>1. t[c] = s[c] /\ c - 1 \in 0..Len(s)
      BY <1>1, <2>1
    <3>2. SubSeq(t, s[c].keep, c - 1) = SubSeq(s, s[c].keep, c - 1)
      <4> HIDE DEF c
      <4> QED
        BY <1>1, <2>1, <3>1, SubSeqBefore
    <3> QED
      BY <2>2, <3>1, <3>2 DEF Kept
  <2>4. Later(t) = Append(l, m)
    <3> HIDE DEF c
    <3>1. /\ c + 1 \in Nat \ {0} /\ Len(s) \in 0..Len(s)
          /\ c + 1 \in 1..Len(t) /\ Len(t) \in (c + 1)..Len(t)
          /\ Len(t) - 1 = Len(s)
      BY <1>1, <2>1
    <3>2. SubSeq(t, c + 1, Len(t))
            = SubSeq(t, c + 1, Len(s)) \o << t[Len(t)] >>
      <4> HIDE DEF t
      <4> QED
        BY <1>1, <3>1, SubSeqRecursiveSecond
    <3>3. SubSeq(t, c + 1, Len(s)) = SubSeq(s, c + 1, Len(s))
      BY <1>1, <3>1, SubSeqBefore
    <3>4. l = SubSeq(s, c + 1, Len(s)) /\ Later(t) = SubSeq(t, c + 1, Len(t))
      BY <2>2 DEF c, Later
    <3>5. Later(t) = l \o << m >>
      BY <1>1, <3>2, <3>3, <3>4
    <3> HIDE DEF l
    <3> QED
      BY <2>1, <3>5, AppendIsConcat
  <2>5. BuildSessionContext(s) = one \o k \o l
    BY <1>5, ContextIs
  <2>6. BuildSessionContext(t) = one \o k \o Append(l, m)
    BY <1>1, <1>3, <1>5, <2>3, <2>4, ContextIs
  <2>7. one \o k \in Seq(Shown) /\ l \in Seq(Shown) /\ m \in Shown
    <3>1. one \in Seq(Shown) /\ k \in Seq(Shown) /\ l \in Seq(Shown)
            /\ m \in Shown
      BY <2>1, Subtypes
    <3> HIDE DEF one, k, l
    <3> QED
      BY <3>1, ConcatProperties
  <2> DEFINE h == one \o k
  <2>8. BuildSessionContext(s) = h \o l
          /\ BuildSessionContext(t) = h \o Append(l, m)
    BY <2>5, <2>6
  <2>9. h \in Seq(Shown)
    BY <2>7
  <2> HIDE DEF h, l
  <2>10. h \o Append(l, m) = Append(h \o l, m)
    BY <2>7, <2>9
  <2> QED
    BY <2>8, <2>10
<1> QED
  BY <1>4, <1>5

\* What is shown after more messages is those messages more.
LEMMA ContextOfMore ==
  ASSUME NEW s \in Seq(Entry), NEW t \in Seq(Message)
  PROVE  BuildSessionContext(s \o t) = BuildSessionContext(s) \o t
<1> DEFINE B == BuildSessionContext(s)
           U == { r \in Seq(Message) : /\ s \o r \in Seq(Entry)
                                       /\ BuildSessionContext(s \o r) = B \o r }
<1>1. B \in Seq(Shown)
  BY ContextIs
<1> HIDE DEF B
<1>2. << >> \in U
  <2>1. s \o << >> = s /\ B \o << >> = B /\ << >> \in Seq(Message)
    BY <1>1, ConcatEmptySeq
  <2> QED
    BY <2>1 DEF B
<1>3. ASSUME NEW r \in Seq(Message), NEW m \in Message, r \in U
      PROVE  Append(r, m) \in U
  <2>1. s \o r \in Seq(Entry) /\ BuildSessionContext(s \o r) = B \o r
    BY <1>3
  <2>2. /\ Append(r, m) \in Seq(Message) /\ r \in Seq(Entry) /\ r \in Seq(Shown)
        /\ m \in Entry /\ m \in Shown
    BY Subtypes, AppendProperties
  <2>3. s \o Append(r, m) = Append(s \o r, m)
    BY <2>2
  <2>4. B \o Append(r, m) = Append(B \o r, m)
    BY <1>1, <2>2
  <2>5. Append(s \o r, m) \in Seq(Entry)
    BY <2>1, <2>2, AppendProperties
  <2>6. BuildSessionContext(Append(s \o r, m)) = Append(B \o r, m)
    BY <2>1, ContextOfOneMore
  <2> QED
    BY <2>2, <2>3, <2>4, <2>5, <2>6
<1> HIDE DEF U
<1>4. Seq(Message) \subseteq U
  BY <1>2, <1>3, SeqInduct
<1> QED
  BY <1>4 DEF U, B

\* What a reload must show: nothing that went unheard, failed or overflowed.
Good == { m \in Shown \ unheard :
            IsReply(m) => ~IsFailed(m) /\ ~IsOverflow(m) }
Saving == IF runPc = "save" THEN << unsaved >> ELSE << >>

\* A reload shows what the transcript shows, once the handler is done.
InStep ==
    Only(BuildSessionContext(log), Good) \o Only(Saving, Good)
      = Only(transcript, Good)

\* The reply that the call looks at next is one of its run, or of none; ...
HeardOK == lastAssistantMessage # NoMessage =>
    \/ owner # NoOne /\ Listens
    \/ \E p \in Prompters : pc[p] = "post"
\* ... it is the last in the transcript, unless a later one went unheard; ...
LatestOK ==
    lastAssistantMessage # NoMessage /\ runPc # "save" /\ EndsWithReply =>
      Last(transcript) = lastAssistantMessage \/ Last(transcript) \in unheard
\* ... and so is the one that has overflowed, while it is checked.
CheckedOK == \A p \in Prompters :
    /\ pc[p] = "check" /\ IsOverflow(msg[p]) /\ EndsWithReply =>
         IsOverflow(Last(transcript)) \/ Last(transcript) \in unheard
    /\ pc[p] = "sleep" => msg[p].stop = "error"

\* The reply that is looked at next.
LEMMA HeardPreserved ==
  ASSUME OnePrompter, TypeOK, Control, SaveOK, HeardOK, LatestOK, [Next]_vars
  PROVE  HeardOK' /\ LatestOK'
<1> USE DEF vars, fileVars, agentQueues, shownQueues, runVars, retryVars,
      replyVars, callVars, manualVars, historyVars
<1>0. TypeOK /\ Control
  OBVIOUS
<1>t. transcript \in Seq(Shown) /\ Message \subseteq Shown
  BY Subtypes DEF TypeOK, FileTypes
<1>n. ASSUME NEW p \in Prompters, pc[p] \notin {"run", "post"}
      PROVE  lastAssistantMessage = NoMessage
  <2>1. owner = NoOne
    BY <1>n, Alone
  <2>2. \A q \in Prompters : pc[q] # "post"
    BY <1>n DEF OnePrompter
  <2> QED
    BY <2>1, <2>2 DEF HeardOK
<1>y. ASSUME lastAssistantMessage' = NoMessage PROVE HeardOK' /\ LatestOK'
  BY <1>y DEF HeardOK, LatestOK
<1>v. ASSUME UNCHANGED << lastAssistantMessage, owner, pc, transcript,
                          unheard >>,
             owner # NoOne /\ Listens => Listens',
             runPc' # "save" => runPc # "save"
      PROVE  HeardOK' /\ LatestOK'
  <2>1. HeardOK'
    BY <1>v DEF HeardOK
  <2>2. LatestOK'
    BY <1>v DEF LatestOK, EndsWithReply
  <2> QED
    BY <2>1, <2>2
<1>m. ASSUME NEW m \in Message, NEW next, Push(m, next),
             UNCHANGED << lastAssistantMessage, owner, pc >>
      PROVE  HeardOK' /\ LatestOK'
  <2>1. HeardOK'
    <3>1. Listens => Listens'
      BY <1>m DEF Push, Listens
    <3> QED
      BY <1>m, <3>1 DEF HeardOK
  <2>2. runPc' = "save" \/ m \in unheard'
    BY <1>m DEF Push
  <2>3. Last(transcript') = m
    BY <1>m, <1>t, LastAppend DEF Push
  <2> QED
    BY <2>1, <2>2, <2>3 DEF LatestOK
<1>r. ASSUME retryController # NoOne
      PROVE  /\ retryController \in Prompters /\ pc[retryController] = "sleep"
             /\ lastAssistantMessage = NoMessage
  <2>1. retryController \in Prompters
    BY <1>r DEF TypeOK, FieldTypes
  <2>2. pc[retryController] = "sleep"
    BY <2>1 DEF Control, CallOK
  <2> QED
    BY <1>n, <2>1, <2>2
<1>1. CASE Announce
  <2>1. Head(held) \in Message
    BY <1>0, <1>1, ValuesAre DEF Announce
  <2> QED
    BY <1>m, <1>1, <2>1 DEF Announce
<1>2. ASSUME NEW stop \in Replies, ModelReplies(stop)
      PROVE HeardOK' /\ LatestOK'
  <2>1. Reply(replies + 1, stop) \in Message
    BY <1>0, <1>2, ValuesAre DEF ModelReplies
  <2> QED
    BY <1>m, <1>2, <2>1 DEF ModelReplies
<1>3. CASE ToolEnds
  <2>1. Result(replies) \in Message
    BY <1>0, <1>3, ValuesAre DEF ToolEnds
  <2> QED
    BY <1>m, <1>3, <2>1 DEF ToolEnds
<1>4. CASE Save
  <2>1. /\ Listens /\ Last(transcript) = unsaved /\ owner # NoOne
        /\ UNCHANGED << byHand, owner, transcript >>
        /\ lastAssistantMessage' = IF IsReply(unsaved) THEN unsaved
                                                      ELSE lastAssistantMessage
    BY <1>0, <1>4 DEF Save, SaveOK, Control, RunOK
  <2>2. HeardOK'
    BY <2>1 DEF HeardOK, Listens
  <2>3. LatestOK'
    BY <2>1 DEF LatestOK, EndsWithReply
  <2> QED
    BY <2>2, <2>3
<1>5. CASE PollSteering
  <2>1. Listens => Listens'
    BY <1>5 DEF PollSteering, Listens
  <2> QED
    BY <1>v, <1>5, <2>1 DEF PollSteering
<1>6. CASE PollFollowUps
  <2>1. Listens => Listens'
    BY <1>6 DEF PollFollowUps, Listens
  <2> QED
    BY <1>v, <1>6, <2>1 DEF PollFollowUps
<1>7. CASE RunEnds
  <2>1. owner \in Prompters
    BY <1>0, <1>7 DEF RunEnds, Control, RunOK, TypeOK, RunTypes
  <2>2. pc'[owner] = "post"
    BY <1>7, <2>1 DEF RunEnds, Goto, TypeOK, CallTypes
  <2>3. HeardOK'
    BY <2>1, <2>2 DEF HeardOK
  <2>4. LatestOK'
    BY <1>7 DEF RunEnds, LatestOK, EndsWithReply
  <2> QED
    BY <2>3, <2>4
<1>8. ASSUME NEW p \in Prompters, PrepareRetry(p) PROVE HeardOK' /\ LatestOK'
  BY <1>y, <1>8 DEF PrepareRetry
<1>9. ASSUME NEW p \in Prompters, NoRetry(p) PROVE HeardOK' /\ LatestOK'
  BY <1>y, <1>9 DEF NoRetry
<1>10. ASSUME NEW p \in Prompters, NothingHeard(p) PROVE HeardOK' /\ LatestOK'
  BY <1>y, <1>10 DEF NothingHeard
<1>11. ASSUME NEW p \in Prompters, SleepEnds(p) PROVE HeardOK' /\ LatestOK'
  <2>1. pc[p] \notin {"run", "post"} /\ UNCHANGED lastAssistantMessage
    BY <1>11 DEF SleepEnds
  <2> QED
    BY <1>n, <1>y, <2>1
<1>12. ASSUME NEW p \in Prompters, NoCompactionNeeded(p)
       PROVE HeardOK' /\ LatestOK'
  <2>1. pc[p] \notin {"run", "post"} /\ UNCHANGED lastAssistantMessage
    BY <1>12 DEF NoCompactionNeeded
  <2> QED
    BY <1>n, <1>y, <2>1
<1>13. ASSUME NEW p \in Prompters, RecoverFromOverflow(p)
       PROVE HeardOK' /\ LatestOK'
  <2>1. pc[p] \notin {"run", "post"} /\ UNCHANGED lastAssistantMessage
    BY <1>13 DEF RecoverFromOverflow, StartCompaction
  <2> QED
    BY <1>n, <1>y, <2>1
<1>14. ASSUME NEW p \in Prompters, CompactAtThreshold(p)
       PROVE HeardOK' /\ LatestOK'
  <2>1. pc[p] \notin {"run", "post"} /\ UNCHANGED lastAssistantMessage
    BY <1>14 DEF CompactAtThreshold, StartCompaction
  <2> QED
    BY <1>n, <1>y, <2>1
<1>15. ASSUME NEW p \in Prompters, CompactionSucceeds(p)
       PROVE HeardOK' /\ LatestOK'
  <2>1. pc[p] \notin {"run", "post"} /\ UNCHANGED lastAssistantMessage
    BY <1>15 DEF CompactionSucceeds, EndCompaction
  <2> QED
    BY <1>n, <1>y, <2>1
<1>16. ASSUME NEW p \in Prompters, CompactionFails(p)
       PROVE HeardOK' /\ LatestOK'
  <2>1. pc[p] \notin {"run", "post"} /\ UNCHANGED lastAssistantMessage
    BY <1>16 DEF CompactionFails, EndCompaction
  <2> QED
    BY <1>n, <1>y, <2>1
<1>17. ASSUME NEW p \in Prompters, ContinueTranscript(p)
       PROVE HeardOK' /\ LatestOK'
  <2>1. pc[p] \notin {"run", "post"} /\ UNCHANGED lastAssistantMessage
    BY <1>17 DEF ContinueTranscript, ContinueFrom
  <2> QED
    BY <1>n, <1>y, <2>1
<1>18. ASSUME NEW p \in Prompters, ContinueWithQueue(p)
       PROVE HeardOK' /\ LatestOK'
  <2>1. pc[p] \notin {"run", "post"} /\ UNCHANGED lastAssistantMessage
    BY <1>18 DEF ContinueWithQueue, ContinueFrom
  <2> QED
    BY <1>n, <1>y, <2>1
<1>19. ASSUME NEW p \in Prompters, ContinueThrows(p)
       PROVE HeardOK' /\ LatestOK'
  <2>1. pc[p] \notin {"run", "post"} /\ UNCHANGED lastAssistantMessage
    BY <1>19 DEF ContinueThrows
  <2> QED
    BY <1>n, <1>y, <2>1
<1>20. ASSUME NEW p \in Prompters, Return(p) PROVE HeardOK' /\ LatestOK'
  <2>1. pc[p] \notin {"run", "post"} /\ UNCHANGED lastAssistantMessage
    BY <1>20 DEF Return
  <2> QED
    BY <1>n, <1>y, <2>1
<1>21. ASSUME NEW p \in Prompters, Send(p) PROVE HeardOK' /\ LatestOK'
  <2>1. pc[p] \notin {"run", "post"} /\ UNCHANGED lastAssistantMessage
    BY <1>21 DEF Send
  <2> QED
    BY <1>n, <1>y, <2>1
<1>22. CASE PrepareCompact
  <2>1. /\ ~Listens /\ runPc' = runPc
        /\ UNCHANGED << lastAssistantMessage, owner, pc, transcript, unheard >>
    BY <1>22 DEF PrepareCompact, CompactStep, Listens
  <2> QED
    BY <1>v, <2>1
<1>23. CASE CompactSucceeds
  <2>1. ~Listens /\ ~Urgent /\ UNCHANGED lastAssistantMessage
    BY <1>23 DEF CompactSucceeds, CompactStep, Listens
  <2>2. \A p \in Prompters : pc[p] # "post"
    BY <2>1 DEF Urgent
  <2>3. lastAssistantMessage = NoMessage
    BY <2>1, <2>2 DEF HeardOK
  <2> QED
    BY <1>y, <2>1, <2>3
<1>24. CASE CompactFails
  <2>1. /\ ~Listens /\ runPc' = runPc
        /\ UNCHANGED << lastAssistantMessage, owner, pc, transcript, unheard >>
    BY <1>24 DEF CompactFails, CompactStep, Listens
  <2> QED
    BY <1>v, <2>1
<1>25. ASSUME NEW p \in Prompters, Prompt(p) PROVE HeardOK' /\ LatestOK'
  <2>1. pc[p] \notin {"run", "post"} /\ UNCHANGED lastAssistantMessage
    BY <1>25 DEF Prompt
  <2> QED
    BY <1>n, <1>y, <2>1
<1>26. CASE Steer
  <2>1. Listens => Listens'
    BY <1>26 DEF Steer, Accept, Listens
  <2> QED
    BY <1>v, <1>26, <2>1 DEF Steer, Accept
<1>27. CASE FollowUp
  <2>1. Listens => Listens'
    BY <1>27 DEF FollowUp, Accept, Listens
  <2> QED
    BY <1>v, <1>27, <2>1 DEF FollowUp, Accept
<1>28. CASE ClearQueue
  <2>1. Listens => Listens'
    BY <1>28 DEF ClearQueue, Listens
  <2> QED
    BY <1>v, <1>28, <2>1 DEF ClearQueue
<1>29. CASE AbortRetry
  <2>1. retryController # NoOne /\ UNCHANGED lastAssistantMessage
    BY <1>29 DEF AbortRetry
  <2> QED
    BY <1>r, <1>y, <2>1
<1>30. CASE Abort
  <2>1. CASE retryController # NoOne
    BY <1>r, <1>y, <1>30, <2>1 DEF Abort
  <2>2. CASE retryController = NoOne
    <3>1. Listens => Listens'
      BY <1>30 DEF Abort, Listens
    <3> QED
      BY <1>v, <1>30, <2>2, <3>1 DEF Abort
  <2> QED
    BY <2>1, <2>2
<1>31. CASE RecordBashResult
  <2>0. Listens => Listens'
    BY <1>31 DEF RecordBashResult, Listens
  <2>1. CASE isStreaming
    BY <1>v, <1>31, <2>0, <2>1 DEF RecordBashResult
  <2>2. CASE ~isStreaming
    <3> DEFINE m == Bash(nextBash)
    <3>1. /\ nextBash <= MaxBashMessages /\ transcript' = Append(transcript, m)
          /\ UNCHANGED << lastAssistantMessage, owner, pc >>
      BY <1>31, <2>2 DEF RecordBashResult
    <3>2. m \in Message /\ ~IsReply(m)
      BY <1>0, <3>1, ValuesAre, Subtypes DEF Bash, IsReply
    <3> HIDE DEF m
    <3>3. Last(transcript') = m
      BY <1>t, <3>1, <3>2, LastAppend
    <3>4. LatestOK'
      BY <3>2, <3>3 DEF LatestOK, EndsWithReply
    <3>5. HeardOK'
      BY <2>0, <3>1 DEF HeardOK
    <3> QED
      BY <3>4, <3>5
  <2> QED
    BY <2>1, <2>2
<1>32. CASE Compact
  <2>1. CASE retryController # NoOne
    BY <1>r, <1>y, <1>32, <2>1 DEF Compact
  <2>2. CASE retryController = NoOne
    <3>1. owner # NoOne => Listens'
      BY <1>32 DEF Compact, Disconnected, Listens, isStreaming
    <3> QED
      BY <1>v, <1>32, <2>2, <3>1 DEF Compact
  <2> QED
    BY <2>1, <2>2
<1>33. CASE UNCHANGED vars
  <2>1. Listens => Listens'
    BY <1>33 DEF Listens
  <2> QED
    BY <1>33, <1>v, <2>1
<1> QED
  BY <1>1, <1>2, <1>3, <1>4, <1>5, <1>6, <1>7, <1>8, <1>9, <1>10, <1>11, <1>12,
       <1>13, <1>14, <1>15, <1>16, <1>17, <1>18, <1>19, <1>20, <1>21, <1>22,
       <1>23, <1>24, <1>25, <1>26, <1>27, <1>28, <1>29, <1>30, <1>31, <1>32,
       <1>33 DEF Next, Progress, RunStep, CallStep, Operation

\* The reply that is checked.
LEMMA CheckedPreserved ==
  ASSUME OnePrompter, TypeOK, Control, LatestOK, CheckedOK, [Next]_vars
  PROVE  CheckedOK'
<1> USE DEF vars, fileVars, agentQueues, shownQueues, runVars, retryVars,
      replyVars, callVars, manualVars, historyVars
<1>0. TypeOK /\ Control
  OBVIOUS
<1>t. /\ transcript \in Seq(Shown) /\ pendingBash \in Seq(BashMessage)
      /\ BashMessage \subseteq Shown /\ pendingBash \in Seq(Shown)
      /\ pc \in [Prompters -> {"idle", "starting", "run", "post", "sleep",
                               "check", "compact", "continue", "return"}]
      /\ msg \in [Prompters -> AssistantMessage \union {NoMessage}]
  BY Subtypes DEF TypeOK, FileTypes, CallTypes
<1>c. ASSUME NEW p \in Prompters, pc'[p] \notin {"check", "sleep"}
      PROVE CheckedOK'
  BY <1>c DEF CheckedOK, OnePrompter
<1>v. ASSUME UNCHANGED << pc, msg >>,
             (\A p \in Prompters : pc[p] # "check")
               \/ UNCHANGED << transcript, unheard >>
      PROVE  CheckedOK'
  BY <1>v DEF CheckedOK, EndsWithReply
<1>r. ASSUME runPc # "none" PROVE \A p \in Prompters : pc[p] # "check"
  <2>1. owner \in Prompters
    BY <1>r DEF TypeOK, RunTypes, Control, RunOK
  <2>2. pc[owner] = "run"
    BY <2>1 DEF Control, CallOK
  <2> QED
    BY <2>1, <2>2 DEF OnePrompter
<1>s. ASSUME retryController # NoOne, Goto(retryController, "check"),
             UNCHANGED msg
      PROVE  CheckedOK'
  <2> DEFINE p == retryController
  <2>1. p \in Prompters
    BY <1>s DEF TypeOK, FieldTypes
  <2>2. pc[p] = "sleep"
    BY <2>1 DEF Control, CallOK
  <2>3. pc'[p] = "check" /\ msg'[p].stop = "error"
    BY <1>s, <1>t, <2>1, <2>2 DEF Goto, CheckedOK
  <2> HIDE DEF p
  <2>4. ~IsOverflow(msg'[p])
    BY <2>3 DEF IsOverflow
  <2> QED
    BY <2>1, <2>3, <2>4 DEF CheckedOK, OnePrompter
<1>1. CASE Announce
  <2>1. runPc # "none" /\ UNCHANGED << pc, msg >>
    BY <1>1 DEF Announce, Push
  <2> QED
    BY <1>r, <1>v, <2>1
<1>2. ASSUME NEW stop \in Replies, ModelReplies(stop) PROVE CheckedOK'
  <2>1. runPc # "none" /\ UNCHANGED << pc, msg >>
    BY <1>2 DEF ModelReplies, Push
  <2> QED
    BY <1>r, <1>v, <2>1
<1>3. CASE ToolEnds
  <2>1. runPc # "none" /\ UNCHANGED << pc, msg >>
    BY <1>3 DEF ToolEnds, Push
  <2> QED
    BY <1>r, <1>v, <2>1
<1>4. CASE Save
  <2>1. runPc # "none" /\ UNCHANGED << pc, msg >>
    BY <1>4 DEF Save
  <2> QED
    BY <1>r, <1>v, <2>1
<1>5. CASE PollSteering
  <2>1. runPc # "none" /\ UNCHANGED << pc, msg >>
    BY <1>5 DEF PollSteering
  <2> QED
    BY <1>r, <1>v, <2>1
<1>6. CASE PollFollowUps
  <2>1. runPc # "none" /\ UNCHANGED << pc, msg >>
    BY <1>6 DEF PollFollowUps
  <2> QED
    BY <1>r, <1>v, <2>1
<1>7. CASE RunEnds
  <2>1. owner \in Prompters
    BY <1>0, <1>7 DEF RunEnds, Control, RunOK, TypeOK, RunTypes
  <2>2. pc'[owner] = "post"
    BY <1>7, <1>t, <2>1 DEF RunEnds, Goto
  <2> QED
    BY <1>c, <2>1, <2>2
<1>8. ASSUME NEW p \in Prompters, PrepareRetry(p) PROVE CheckedOK'
  <2>1. pc'[p] = "sleep" /\ msg'[p] = lastAssistantMessage
    BY <1>t, <1>8 DEF PrepareRetry, Goto
  <2>2. lastAssistantMessage.stop = "error"
    BY <1>8 DEF PrepareRetry, Retryable
  <2> QED
    BY <2>1, <2>2 DEF CheckedOK, OnePrompter
<1>9. ASSUME NEW p \in Prompters, NoRetry(p) PROVE CheckedOK'
  <2>1. pc'[p] = "check" /\ msg'[p] = lastAssistantMessage
    BY <1>t, <1>9 DEF NoRetry, Goto
  <2>2. /\ runPc # "save" /\ lastAssistantMessage # NoMessage
        /\ UNCHANGED << transcript, unheard >>
    BY <1>0, <1>9, Alone DEF NoRetry
  <2>3. EndsWithReply' =>
          Last(transcript') = lastAssistantMessage
            \/ Last(transcript') \in unheard'
    BY <2>2 DEF LatestOK, EndsWithReply
  <2> QED
    BY <2>1, <2>3 DEF CheckedOK, OnePrompter
<1>10. ASSUME NEW p \in Prompters, NothingHeard(p) PROVE CheckedOK'
  <2>1. pc'[p] \notin {"check", "sleep"}
    BY <1>t, <1>10 DEF NothingHeard, Goto
  <2> QED
    BY <1>c, <2>1
<1>11. ASSUME NEW p \in Prompters, SleepEnds(p) PROVE CheckedOK'
  <2>1. pc'[p] \notin {"check", "sleep"}
    BY <1>t, <1>11 DEF SleepEnds, Goto
  <2> QED
    BY <1>c, <2>1
<1>12. ASSUME NEW p \in Prompters, NoCompactionNeeded(p) PROVE CheckedOK'
  <2>1. pc'[p] \notin {"check", "sleep"}
    BY <1>t, <1>12 DEF NoCompactionNeeded, Proceed, Goto
  <2> QED
    BY <1>c, <2>1
<1>13. ASSUME NEW p \in Prompters, RecoverFromOverflow(p) PROVE CheckedOK'
  <2>1. pc'[p] \notin {"check", "sleep"}
    BY <1>t, <1>13 DEF RecoverFromOverflow, StartCompaction, Goto
  <2> QED
    BY <1>c, <2>1
<1>14. ASSUME NEW p \in Prompters, CompactAtThreshold(p) PROVE CheckedOK'
  <2>1. pc'[p] \notin {"check", "sleep"}
    BY <1>t, <1>14 DEF CompactAtThreshold, StartCompaction, Goto
  <2> QED
    BY <1>c, <2>1
<1>15. ASSUME NEW p \in Prompters, CompactionSucceeds(p) PROVE CheckedOK'
  <2>1. pc'[p] \notin {"check", "sleep"}
    BY <1>t, <1>15 DEF CompactionSucceeds, Proceed, Goto
  <2> QED
    BY <1>c, <2>1
<1>16. ASSUME NEW p \in Prompters, CompactionFails(p) PROVE CheckedOK'
  <2>1. pc'[p] \notin {"check", "sleep"}
    BY <1>t, <1>16 DEF CompactionFails, Proceed, Goto
  <2> QED
    BY <1>c, <2>1
<1>17. ASSUME NEW p \in Prompters, ContinueTranscript(p) PROVE CheckedOK'
  <2>1. pc'[p] \notin {"check", "sleep"}
    BY <1>t, <1>17 DEF ContinueTranscript, ContinueFrom, BeginRun, Goto
  <2> QED
    BY <1>c, <2>1
<1>18. ASSUME NEW p \in Prompters, ContinueWithQueue(p) PROVE CheckedOK'
  <2>1. pc'[p] \notin {"check", "sleep"}
    BY <1>t, <1>18 DEF ContinueWithQueue, ContinueFrom, BeginRun, Goto
  <2> QED
    BY <1>c, <2>1
<1>19. ASSUME NEW p \in Prompters, ContinueThrows(p) PROVE CheckedOK'
  <2>1. pc'[p] \notin {"check", "sleep"}
    BY <1>t, <1>19 DEF ContinueThrows, Goto
  <2> QED
    BY <1>c, <2>1
<1>20. ASSUME NEW p \in Prompters, Return(p) PROVE CheckedOK'
  <2>1. pc'[p] \notin {"check", "sleep"}
    BY <1>t, <1>20 DEF Return, Goto
  <2> QED
    BY <1>c, <2>1
<1>21. ASSUME NEW p \in Prompters, Send(p) PROVE CheckedOK'
  <2>1. pc'[p] \notin {"check", "sleep"}
    BY <1>t, <1>21 DEF Send, BeginRun, Goto
  <2> QED
    BY <1>c, <2>1
<1>22. CASE PrepareCompact
  BY <1>v, <1>22 DEF PrepareCompact, CompactStep
<1>23. CASE CompactSucceeds
  <2>1. ~Urgent /\ UNCHANGED << pc, msg >>
    BY <1>23 DEF CompactSucceeds, CompactStep
  <2>2. \A p \in Prompters : pc[p] # "check"
    BY <2>1 DEF Urgent
  <2> QED
    BY <1>v, <2>1, <2>2
<1>24. CASE CompactFails
  BY <1>v, <1>24 DEF CompactFails, CompactStep
<1>25. ASSUME NEW p \in Prompters, Prompt(p) PROVE CheckedOK'
  <2> DEFINE so == Only(transcript, AssistantMessage)
  <2>1. transcript' = transcript \o pendingBash
    BY <1>25 DEF Prompt, FlushPendingBashMessages
  <2>2. \/ pc'[p] = "starting"
        \/ pc'[p] = "check" /\ msg'[p] = Last(so)
    BY <1>t, <1>25 DEF Prompt, Goto
  <2>3. EndsWithReply' => Last(transcript') = Last(so)
    <3>1. CASE pendingBash = << >>
      <4>1. transcript' = transcript
        BY <1>t, <2>1, <3>1, ConcatEmptySeq
      <4> SUFFICES ASSUME transcript # << >>, IsReply(Last(transcript))
                   PROVE  Last(transcript) = Last(so)
        BY <4>1 DEF EndsWithReply
      <4>2. Last(transcript) \in AssistantMessage
        <5>1. Last(transcript) \in Shown
          BY <1>t, FrontLast
        <5>2. Last(transcript) # Summary
          BY DEF IsReply, Summary
        <5> QED
          BY <5>1, <5>2, Kinds DEF Shown
      <4> QED
        BY <1>t, <4>2, OnlyLast
    <3>2. CASE pendingBash # << >>
      <4>1. Last(transcript') = Last(pendingBash)
        BY <1>t, <2>1, <3>2, LastConcat
      <4>2. Last(pendingBash) \in BashMessage
        BY <1>t, <3>2, FrontLast
      <4> QED
        BY <4>1, <4>2 DEF EndsWithReply, IsReply, BashMessage
    <3> QED
      BY <3>1, <3>2
  <2>4. CASE pc'[p] = "starting"
    BY <1>c, <2>4
  <2>5. CASE pc'[p] = "check" /\ msg'[p] = Last(so)
    BY <2>3, <2>5 DEF CheckedOK, OnePrompter
  <2> QED
    BY <2>2, <2>4, <2>5
<1>26. CASE Steer
  BY <1>v, <1>26 DEF Steer, Accept
<1>27. CASE FollowUp
  BY <1>v, <1>27 DEF FollowUp, Accept
<1>28. CASE ClearQueue
  BY <1>v, <1>28 DEF ClearQueue
<1>29. CASE AbortRetry
  BY <1>s, <1>29 DEF AbortRetry
<1>30. CASE Abort
  <2>1. CASE retryController # NoOne
    BY <1>s, <1>30, <2>1 DEF Abort
  <2>2. CASE retryController = NoOne
    BY <1>v, <1>30, <2>2 DEF Abort
  <2> QED
    BY <2>1, <2>2
<1>31. CASE ~Urgent /\ RecordBashResult
  <2>1. UNCHANGED << pc, msg >>
    BY <1>31 DEF RecordBashResult
  <2>2. \A p \in Prompters : pc[p] # "check"
    BY <1>31 DEF Urgent
  <2> QED
    BY <1>v, <2>1, <2>2
<1>32. CASE Compact
  <2>1. CASE retryController # NoOne
    BY <1>s, <1>32, <2>1 DEF Compact
  <2>2. CASE retryController = NoOne
    BY <1>v, <1>32, <2>2 DEF Compact
  <2> QED
    BY <2>1, <2>2
<1>33. CASE UNCHANGED vars
  BY <1>33, <1>v
<1> QED
  BY <1>1, <1>2, <1>3, <1>4, <1>5, <1>6, <1>7, <1>8, <1>9, <1>10, <1>11, <1>12,
       <1>13, <1>14, <1>15, <1>16, <1>17, <1>18, <1>19, <1>20, <1>21, <1>22,
       <1>23, <1>24, <1>25, <1>26, <1>27, <1>28, <1>29, <1>30, <1>31, <1>32,
       <1>33 DEF Next, Progress, RunStep, CallStep, Operation

\* The session and the transcript.
LEMMA InStepPreserved ==
  ASSUME OnePrompter, TypeOK, Control, SaveOK, LatestOK, CheckedOK, InStep,
         [Next]_vars
  PROVE  InStep'
<1> USE DEF vars, fileVars, agentQueues, shownQueues, runVars, retryVars,
      replyVars, callVars, manualVars, historyVars
<1>0. TypeOK /\ Control /\ TypeOK'
  BY TypesPreserved
<1>t. /\ log \in Seq(Entry) /\ transcript \in Seq(Shown)
      /\ BuildSessionContext(log) \in Seq(Shown)
      /\ pendingBash \in Seq(Message) /\ pendingBash \in Seq(Shown)
      /\ Message \subseteq Shown
      /\ log' \in Seq(Entry) /\ BuildSessionContext(log') \in Seq(Shown)
  <2>1. log \in Seq(Entry) /\ transcript \in Seq(Shown) /\ log' \in Seq(Entry)
    BY <1>0 DEF TypeOK, FileTypes
  <2>2. pendingBash \in Seq(Message) /\ pendingBash \in Seq(Shown)
    BY Subtypes, SeqMonotonic DEF TypeOK, FileTypes
  <2> QED
    BY <2>1, <2>2, ContextIs, Subtypes
<1>o. \A s \in Seq(Shown) :
        Only(s, Good) \in Seq(Good) /\ Only(s, Good') \in Seq(Good')
  BY OnlyType
<1>q. ASSUME runPc # "save"
      PROVE  Only(BuildSessionContext(log), Good) = Only(transcript, Good)
  <2>1. Only(Saving, Good) = << >>
    BY <1>q, OnlyNil DEF Saving
  <2> QED
    BY <1>t, <1>o, <2>1, ConcatEmptySeq DEF InStep
<1>g. ASSUME runPc' # "save",
             Only(BuildSessionContext(log'), Good') = Only(transcript', Good')
      PROVE  InStep'
  <2>1. Only(Saving', Good') = << >>
    BY <1>g, OnlyNil DEF Saving
  <2>2. Only(BuildSessionContext(log'), Good') \o << >>
          = Only(BuildSessionContext(log'), Good')
    BY <1>t, <1>o, ConcatEmptySeq
  <2> QED
    BY <1>g, <2>1, <2>2 DEF InStep
<1>h. ASSUME UNCHANGED unheard PROVE Good' = Good
  BY <1>h DEF Good
<1>u. ASSUME UNCHANGED << log, transcript, unheard, runPc, unsaved >>
      PROVE  InStep'
  BY <1>u, <1>h DEF InStep, Saving
<1>s. ASSUME runPc # "save", runPc' # "save",
             UNCHANGED << log, transcript, unheard >>
      PROVE  InStep'
  BY <1>s, <1>h, <1>q, <1>g
<1>p. ASSUME NEW p \in Prompters, pc[p] # "run"
      PROVE runPc = "none" /\ ~isStreaming
  BY <1>p, Alone
<1>m. ASSUME NEW m \in Message, NEW next, next # "save", runPc # "save",
             Push(m, next), UNCHANGED log
      PROVE  InStep'
  <2>1. Only(BuildSessionContext(log), Good) = Only(transcript, Good)
    BY <1>m, <1>q
  <2>2. m \in Shown /\ transcript' = Append(transcript, m)
    BY <1>m, <1>t DEF Push
  <2>3. CASE connected
    <3>1. Saving' = << m >> /\ Good' = Good
      BY <1>m, <1>h, <2>3 DEF Push, Saving
    <3>2. Only(transcript', Good) = OneMore(Only(transcript, Good), m, Good)
      BY <1>t, <2>2, OnlyAppend
    <3>3. Only(<< m >>, Good) = IF m \in Good THEN << m >> ELSE << >>
      BY OnlyOne
    <3> DEFINE o == Only(transcript, Good)
    <3>4. o \in Seq(Good)
      BY <1>t, <1>o
    <3> HIDE DEF o
    <3>5. m \in Good => o \o << m >> = Append(o, m)
      BY <3>4, AppendIsConcat
    <3>6. o \o << >> = o
      BY <3>4, ConcatEmptySeq
    <3>7. o \o Only(<< m >>, Good) = OneMore(o, m, Good)
      BY <3>3, <3>5, <3>6 DEF OneMore
    <3> QED
      BY <1>m, <2>1, <3>1, <3>2, <3>7 DEF InStep, o
  <2>4. CASE ~connected
    <3>1. runPc' # "save" /\ unheard' = unheard \union {m}
      BY <1>m, <2>4 DEF Push
    <3>2. Good \intersect Good' = Good' /\ m \notin Good'
      BY <3>1 DEF Good
    <3>3. /\ Only(Only(BuildSessionContext(log), Good), Good')
               = Only(BuildSessionContext(log), Good')
          /\ Only(Only(transcript, Good), Good') = Only(transcript, Good')
      BY <1>t, <3>2, OnlyTwice
    <3>4. Only(transcript', Good') = OneMore(Only(transcript, Good'), m, Good')
      BY <1>t, <2>2, OnlyAppend
    <3>5. Only(transcript', Good') = Only(transcript, Good')
      BY <3>2, <3>4 DEF OneMore
    <3> QED
      BY <1>m, <1>g, <2>1, <3>1, <3>3, <3>5
  <2> QED
    BY <2>3, <2>4
<1>b. ASSUME runPc # "save", UNCHANGED unheard, runPc' # "save",
             NEW ms \in Seq(Message), log' = log \o ms,
               transcript' = transcript \o ms
      PROVE  InStep'
  <2>1. BuildSessionContext(log') = BuildSessionContext(log) \o ms
    BY <1>b, <1>t, ContextOfMore
  <2>2. ms \in Seq(Shown)
    <3>1. ms \in Seq(Message) /\ Seq(Message) \subseteq Seq(Shown)
      BY <1>b, Subtypes
    <3> QED
      BY <3>1
  <2>3. \A s \in Seq(Shown) :
          Only(s \o ms, Good) = Only(s, Good) \o Only(ms, Good)
    BY <2>2, OnlyConcat
  <2>4. Only(BuildSessionContext(log), Good) = Only(transcript, Good)
    BY <1>b, <1>q
  <2> QED
    BY <1>b, <1>t, <1>g, <1>h, <2>1, <2>3, <2>4
<1>w. ASSUME runPc # "save", runPc' # "save", UNCHANGED << log, unheard >>,
             transcript' = WithoutLastReply(transcript),
             EndsWithReply => Last(transcript) \notin Good
      PROVE  InStep'
  <2>1. CASE EndsWithReply
    <3>1. transcript # << >> /\ transcript' = Front(transcript)
      BY <1>w, <2>1 DEF EndsWithReply, WithoutLastReply
    <3>2. Only(Front(transcript), Good) = Only(transcript, Good)
      BY <1>t, <1>w, <2>1, <3>1, OnlyLast
    <3> QED
      BY <1>w, <1>g, <1>h, <1>q, <3>1, <3>2
  <2>2. CASE ~EndsWithReply
    BY <1>w, <1>s, <2>2 DEF EndsWithReply, WithoutLastReply
  <2> QED
    BY <2>1, <2>2
<1>1. CASE Announce
  <2>1. Head(held) \in Message /\ runPc # "save"
    BY <1>0, <1>1, ValuesAre DEF Announce
  <2> QED
    BY <1>m, <1>1, <2>1 DEF Announce
<1>2. ASSUME NEW stop \in Replies, ModelReplies(stop) PROVE InStep'
  <2>1. Reply(replies + 1, stop) \in Message /\ runPc # "save"
    BY <1>0, <1>2, ValuesAre DEF ModelReplies
  <2> QED
    BY <1>m, <1>2, <2>1 DEF ModelReplies
<1>3. CASE ToolEnds
  <2>1. Result(replies) \in Message /\ runPc # "save"
    BY <1>0, <1>3, ValuesAre DEF ToolEnds
  <2> QED
    BY <1>m, <1>3, <2>1 DEF ToolEnds
<1>4. CASE Save
  <2> DEFINE B == BuildSessionContext(log)
             m == unsaved
  <2>1. /\ runPc = "save" /\ runPc' # "save" /\ log' = Append(log, m)
        /\ m \in Message /\ UNCHANGED << transcript, unheard >>
    BY <1>0, <1>4, ValuesAre DEF Save, TypeOK, RunTypes, RunPC
  <2>2. Saving = << m >>
    BY <2>1 DEF Saving
  <2>3. BuildSessionContext(log') = Append(B, m)
    BY <1>t, <2>1, ContextOfOneMore
  <2>4. B \in Seq(Shown) /\ m \in Shown
    BY <1>t, <2>1
  <2>5. Only(B, Good) \o Only(Saving, Good) = Only(transcript, Good)
    BY DEF InStep
  <2> DEFINE o == Only(B, Good)
  <2>6. o \in Seq(Good)
    BY <1>o, <2>4
  <2> HIDE DEF B, m
  <2>7. Only(Append(B, m), Good) = OneMore(o, m, Good)
    BY <2>4, OnlyAppend
  <2>8. Only(<< m >>, Good) = IF m \in Good THEN << m >> ELSE << >>
    BY OnlyOne
  <2> HIDE DEF o
  <2>9. m \in Good => o \o << m >> = Append(o, m)
    BY <2>6, AppendIsConcat
  <2>10. o \o << >> = o
    BY <2>6, ConcatEmptySeq
  <2>11. o \o Only(<< m >>, Good) = OneMore(o, m, Good)
    BY <2>8, <2>9, <2>10 DEF OneMore
  <2>12. Only(BuildSessionContext(log'), Good) = Only(transcript, Good)
    BY <2>2, <2>3, <2>5, <2>7, <2>11 DEF o
  <2> QED
    BY <1>g, <1>h, <2>1, <2>12
<1>5. CASE PollSteering
  <2>1. runPc # "save" /\ runPc' # "save"
          /\ UNCHANGED << log, transcript, unheard >>
    BY <1>5 DEF PollSteering
  <2> QED
    BY <1>s, <2>1
<1>6. CASE PollFollowUps
  <2>1. runPc # "save" /\ runPc' # "save"
          /\ UNCHANGED << log, transcript, unheard >>
    BY <1>6 DEF PollFollowUps
  <2> QED
    BY <1>s, <2>1
<1>7. CASE RunEnds
  <2>1. runPc # "save" /\ runPc' # "save"
          /\ UNCHANGED << log, transcript, unheard >>
    BY <1>7 DEF RunEnds
  <2> QED
    BY <1>s, <2>1
<1>8. ASSUME NEW p \in Prompters, PrepareRetry(p) PROVE InStep'
  <2>1. /\ pc[p] # "run" /\ transcript' = WithoutLastReply(transcript)
        /\ UNCHANGED << runPc, log, unheard >>
        /\ Retryable(lastAssistantMessage)
    BY <1>8 DEF PrepareRetry
  <2>2. runPc = "none"
    BY <1>p, <2>1
  <2>3. IsFailed(lastAssistantMessage) /\ lastAssistantMessage # NoMessage
    BY <2>1 DEF Retryable, IsFailed, IsReply, NoMessage
  <2>4. lastAssistantMessage \notin Good
    BY <2>3 DEF Good, IsFailed
  <2>5. EndsWithReply => Last(transcript) \notin Good
    <3>1. EndsWithReply =>
            Last(transcript) = lastAssistantMessage
              \/ Last(transcript) \in unheard
      BY <2>2, <2>3 DEF LatestOK
    <3>2. \A m \in unheard : m \notin Good
      BY DEF Good
    <3> QED
      BY <2>4, <3>1, <3>2
  <2> QED
    BY <1>w, <2>1, <2>2, <2>5
<1>9. ASSUME NEW p \in Prompters, NoRetry(p) PROVE InStep'
  <2>1. pc[p] # "run" /\ UNCHANGED << runPc, log, transcript, unheard >>
    BY <1>9 DEF NoRetry
  <2>2. runPc = "none"
    BY <1>p, <2>1
  <2> QED
    BY <1>s, <2>1, <2>2
<1>10. ASSUME NEW p \in Prompters, NothingHeard(p) PROVE InStep'
  <2>1. pc[p] # "run" /\ UNCHANGED << runPc, log, transcript, unheard >>
    BY <1>10 DEF NothingHeard
  <2>2. runPc = "none"
    BY <1>p, <2>1
  <2> QED
    BY <1>s, <2>1, <2>2
<1>11. ASSUME NEW p \in Prompters, SleepEnds(p) PROVE InStep'
  <2>1. pc[p] # "run" /\ UNCHANGED << runPc, log, transcript, unheard >>
    BY <1>11 DEF SleepEnds
  <2>2. runPc = "none"
    BY <1>p, <2>1
  <2> QED
    BY <1>s, <2>1, <2>2
<1>12. ASSUME NEW p \in Prompters, NoCompactionNeeded(p) PROVE InStep'
  <2>1. pc[p] # "run" /\ UNCHANGED << runPc, log, transcript, unheard >>
    BY <1>12 DEF NoCompactionNeeded
  <2>2. runPc = "none"
    BY <1>p, <2>1
  <2> QED
    BY <1>s, <2>1, <2>2
<1>13. ASSUME NEW p \in Prompters, RecoverFromOverflow(p) PROVE InStep'
  <2>1. /\ pc[p] # "run" /\ transcript' = WithoutLastReply(transcript)
        /\ UNCHANGED << runPc, log, unheard >>
        /\ pc[p] = "check" /\ IsOverflow(msg[p])
    BY <1>13 DEF RecoverFromOverflow, StartCompaction
  <2>2. runPc = "none"
    BY <1>p, <2>1
  <2>3. EndsWithReply => Last(transcript) \notin Good
    <3>1. EndsWithReply =>
            IsOverflow(Last(transcript)) \/ Last(transcript) \in unheard
      BY <2>1 DEF CheckedOK
    <3>2. \A m : m \in unheard \/ (IsReply(m) /\ IsOverflow(m)) => m \notin Good
      BY DEF Good
    <3> QED
      BY <3>1, <3>2 DEF EndsWithReply
  <2> QED
    BY <1>w, <2>1, <2>2, <2>3
<1>14. ASSUME NEW p \in Prompters, CompactAtThreshold(p) PROVE InStep'
  <2>1. pc[p] # "run" /\ UNCHANGED << runPc, log, transcript, unheard >>
    BY <1>14 DEF CompactAtThreshold, StartCompaction
  <2>2. runPc = "none"
    BY <1>p, <2>1
  <2> QED
    BY <1>s, <2>1, <2>2
<1>15. ASSUME NEW p \in Prompters, CompactionSucceeds(p) PROVE InStep'
  <2> DEFINE context == BuildSessionContext(log')
  <2>0. PICK seen \in 0..Len(log) : AppendCompaction(seen)
    <3>1. /\ compaction[p].seen \in 0..Len(log)
          /\ \E seen \in compaction[p].seen..Len(log) : AppendCompaction(seen)
      BY <1>15 DEF CompactionSucceeds, TypeOK, CallTypes
    <3> QED BY <3>1
  <2>1. /\ pc[p] # "run" /\ AppendCompaction(seen)
        /\ UNCHANGED << runPc, unheard >>
        /\ \/ transcript' = context
           \/ transcript' = Front(context) /\ IsFailed(Last(context))
    BY <1>15, <2>0 DEF CompactionSucceeds, EndCompaction
  <2>2. runPc = "none"
    BY <1>p, <2>1
  <2>3. context \in Seq(Shown) /\ context # << >>
    <3>1. replies \in Nat
      BY DEF TypeOK, HistoryTypes
    <3>2. PICK c \in CompactionEntry : log' = Append(log, c)
      BY <1>t, <2>0, <3>1, AppendCompactionIs
    <3>3. log' # << >>
      BY <1>t, <3>2, AppendProperties DEF CompactionEntry, Entry
    <3> QED
      BY <1>t, <3>3, ContextStarts
  <2> HIDE DEF context
  <2>4. CASE transcript' = context
    BY <1>g, <1>h, <2>1, <2>2, <2>4 DEF context
  <2>5. CASE transcript' = Front(context) /\ IsFailed(Last(context))
    <3>1. Last(context) \notin Good
      BY <2>5 DEF Good, IsFailed
    <3>2. Only(Front(context), Good) = Only(context, Good)
      BY <2>3, <3>1, OnlyLast
    <3> QED
      BY <1>g, <1>h, <2>1, <2>2, <2>5, <3>2 DEF context
  <2> QED
    BY <2>1, <2>4, <2>5
<1>16. ASSUME NEW p \in Prompters, CompactionFails(p) PROVE InStep'
  <2>1. pc[p] # "run" /\ UNCHANGED << runPc, log, transcript, unheard >>
    BY <1>16 DEF CompactionFails, EndCompaction
  <2>2. runPc = "none"
    BY <1>p, <2>1
  <2> QED
    BY <1>s, <2>1, <2>2
<1>17. ASSUME NEW p \in Prompters, ContinueTranscript(p) PROVE InStep'
  <2>1. /\ pc[p] # "run" /\ runPc' = "prompts"
        /\ UNCHANGED << log, transcript, unheard >>
    BY <1>17 DEF ContinueTranscript, ContinueFrom, BeginRun
  <2>2. runPc = "none"
    BY <1>p, <2>1
  <2> QED
    BY <1>s, <2>1, <2>2
<1>18. ASSUME NEW p \in Prompters, ContinueWithQueue(p) PROVE InStep'
  <2>1. /\ pc[p] # "run" /\ runPc' = "prompts"
        /\ UNCHANGED << log, transcript, unheard >>
    BY <1>18 DEF ContinueWithQueue, ContinueFrom, BeginRun
  <2>2. runPc = "none"
    BY <1>p, <2>1
  <2> QED
    BY <1>s, <2>1, <2>2
<1>19. ASSUME NEW p \in Prompters, ContinueThrows(p) PROVE InStep'
  <2>1. /\ pc[p] # "run" /\ FlushPendingBashMessages
        /\ UNCHANGED << runPc, unheard >>
    BY <1>19 DEF ContinueThrows
  <2>2. runPc = "none"
    BY <1>p, <2>1
  <2> QED
    BY <1>t, <1>b, <2>1, <2>2 DEF FlushPendingBashMessages
<1>20. ASSUME NEW p \in Prompters, Return(p) PROVE InStep'
  <2>1. /\ pc[p] # "run" /\ FlushPendingBashMessages
        /\ UNCHANGED << runPc, unheard >>
    BY <1>20 DEF Return
  <2>2. runPc = "none"
    BY <1>p, <2>1
  <2> QED
    BY <1>t, <1>b, <2>1, <2>2 DEF FlushPendingBashMessages
<1>21. ASSUME NEW p \in Prompters, Send(p) PROVE InStep'
  <2>1. pc[p] # "run"
    BY <1>21 DEF Send
  <2>2. runPc = "none" /\ ~isStreaming
    BY <1>p, <2>1
  <2>3. /\ runPc' = "prompts" /\ UNCHANGED << log, transcript, unheard >>
    BY <1>21, <2>2 DEF Send, BeginRun
  <2> QED
    BY <1>s, <2>2, <2>3
<1>22. CASE PrepareCompact
  BY <1>u, <1>22 DEF PrepareCompact, CompactStep
<1>23. CASE CompactSucceeds
  <2>1. /\ ~Listens /\ transcript' = BuildSessionContext(log')
        /\ UNCHANGED << runPc, unheard >>
    BY <1>23 DEF CompactSucceeds, CompactStep, Listens
  <2>2. runPc # "save"
    BY <2>1 DEF SaveOK
  <2> QED
    BY <1>g, <1>h, <2>1, <2>2
<1>24. CASE CompactFails
  BY <1>u, <1>24 DEF CompactFails, CompactStep
<1>25. ASSUME NEW p \in Prompters, Prompt(p) PROVE InStep'
  <2>1. /\ pc[p] # "run" /\ FlushPendingBashMessages
        /\ UNCHANGED << runPc, unheard >>
    BY <1>25 DEF Prompt
  <2>2. runPc = "none"
    BY <1>p, <2>1
  <2> QED
    BY <1>t, <1>b, <2>1, <2>2 DEF FlushPendingBashMessages
<1>26. CASE Steer
  BY <1>u, <1>26 DEF Steer, Accept
<1>27. CASE FollowUp
  BY <1>u, <1>27 DEF FollowUp, Accept
<1>28. CASE ClearQueue
  BY <1>u, <1>28 DEF ClearQueue
<1>29. CASE AbortRetry
  BY <1>u, <1>29 DEF AbortRetry
<1>30. CASE Abort
  BY <1>u, <1>30 DEF Abort
<1>31. CASE RecordBashResult
  <2>1. CASE isStreaming
    BY <1>u, <1>31, <2>1 DEF RecordBashResult
  <2>2. CASE ~isStreaming
    <3> DEFINE m == Bash(nextBash)
               ms == << m >>
    <3>1. /\ runPc = "none" /\ runPc' = "none" /\ nextBash <= MaxBashMessages
          /\ transcript' = Append(transcript, m) /\ log' = Append(log, m)
          /\ UNCHANGED unheard
      BY <1>0, <1>31, <2>2 DEF RecordBashResult, Control, RunOK, isStreaming
    <3>2. m \in Message /\ m \in Shown /\ m \in Entry
      BY <1>0, <3>1, ValuesAre, Subtypes
    <3> HIDE DEF m
    <3>3. /\ Append(transcript, m) = transcript \o ms
          /\ Append(log, m) = log \o ms
          /\ ms \in Seq(Message)
      BY <1>t, <3>2, AppendIsConcat
    <3> HIDE DEF ms
    <3> QED
      BY <1>b, <3>1, <3>3
  <2> QED
    BY <2>1, <2>2
<1>32. CASE Compact
  BY <1>u, <1>32 DEF Compact
<1>33. CASE UNCHANGED vars
  BY <1>33, <1>u
<1> QED
  BY <1>1, <1>2, <1>3, <1>4, <1>5, <1>6, <1>7, <1>8, <1>9, <1>10, <1>11, <1>12,
       <1>13, <1>14, <1>15, <1>16, <1>17, <1>18, <1>19, <1>20, <1>21, <1>22,
       <1>23, <1>24, <1>25, <1>26, <1>27, <1>28, <1>29, <1>30, <1>31, <1>32,
       <1>33 DEF Next, Progress, RunStep, CallStep, Operation

\* At the start there is nothing to show.
LEMMA InitReload == ASSUME Init PROVE HeardOK /\ LatestOK /\ CheckedOK /\ InStep
<1>1. /\ log = << >> /\ transcript = << >> /\ runPc = "none"
      /\ lastAssistantMessage = NoMessage
      /\ \A p \in Prompters : pc[p] = "idle"
  BY DEF Init
<1>2. HeardOK /\ LatestOK /\ CheckedOK
  BY <1>1 DEF HeardOK, LatestOK, CheckedOK
<1>3. BuildSessionContext(<< >>) = << >>
  <2>1. << >> \in Seq(Entry) /\ Positions(<< >>, {"compaction"}) = {}
    BY DEF Positions
  <2> QED
    BY <2>1, ContextIs
<1>4. Only(<< >>, Good) = << >> /\ << >> \o << >> = << >>
  BY OnlyNil
<1>5. InStep
  BY <1>1, <1>3, <1>4 DEF InStep, Saving
<1> QED
  BY <1>2, <1>5

\* When nothing is being saved, a reload shows what the transcript shows.
LEMMA ReloadShows ==
  ASSUME TypeOK, InStep PROVE ReloadShowsTheTranscript
<1> SUFFICES ASSUME runPc # "save"
             PROVE  Only(BuildSessionContext(log), Good)
                    = Only(transcript, Good)
  BY DEF ReloadShowsTheTranscript, Good
<1>1. Only(BuildSessionContext(log), Good) \in Seq(Good)
  BY ContextIs, OnlyType DEF TypeOK, FileTypes
<1>2. Only(Saving, Good) = << >>
  BY OnlyNil DEF Saving
<1> QED
  BY <1>1, <1>2, ConcatEmptySeq DEF InStep

\* With one caller at a time, a reload of the session shows the model what the
\* Agent shows it, however runs, retries, compactions, recorded output and
\* compact() take turns (_handleAgentEvent, _prepareRetry, _checkCompaction,
\* _runAutoCompaction, compact(), buildSessionContext); aside are what went
\* unheard, failed replies and replies that overflowed silently.
THEOREM ReloadIsFaithful ==
  ASSUME OnePrompter PROVE Spec => []ReloadShowsTheTranscript
<1>1. Init => /\ TypeOK /\ Control /\ SaveOK /\ ResultsOK /\ OpenOK
              /\ HeardOK /\ LatestOK /\ CheckedOK /\ InStep
  BY InitTypes, InitCalls, InitReload
<1>2. /\ TypeOK /\ Control /\ SaveOK /\ ResultsOK /\ OpenOK
      /\ HeardOK /\ LatestOK /\ CheckedOK /\ InStep
      /\ [Next]_vars
      => (/\ TypeOK /\ Control /\ SaveOK /\ ResultsOK /\ OpenOK
          /\ HeardOK /\ LatestOK /\ CheckedOK /\ InStep)'
  BY TypesPreserved, SavePreserved, ResultsPreserved, HeardPreserved,
     CheckedPreserved, InStepPreserved
<1>3. TypeOK /\ InStep => ReloadShowsTheTranscript
  BY ReloadShows
<1> QED
  BY <1>1, <1>2, <1>3, PTL DEF Spec

-----------------------------------------------------------------------------
(* How often a session recovers *)

\* Only compactions follow a reply in the session, ...
ReplyEnds(s) == \E i \in 1..Len(s) :
                  IsReply(s[i]) /\ \A j \in (i + 1)..Len(s) :
                    ~(s[j] \in Message)
\* ... nothing in the transcript.
BothEndWithReply == EndsWithReply /\ ReplyEnds(log)

\* Every compaction keeps a message.
KeepsSome(s) == \A c \in 1..Len(s) : s[c].kind = "compaction" =>
                  \E i \in s[c].keep..(c - 1) : s[i] \in Message

\* Messages that are added change nothing about it.
LEMMA KeepsMore ==
  ASSUME NEW s \in Seq(Entry), KeepsSome(s), NEW t \in Seq(Message)
  PROVE  KeepsSome(s \o t)
<1> DEFINE u == s \o t
<1>1. /\ Len(s) \in Nat /\ Len(t) \in Nat /\ Len(u) = Len(s) + Len(t)
      /\ \A i \in 1..Len(s) : u[i] = s[i] /\ s[i] \in Entry
      /\ \A i \in (Len(s) + 1)..Len(u) : u[i] = t[i - Len(s)]
  BY Subtypes, ConcatProperties, LenProperties, ElementOfSeq
<1>2. \A i \in 1..Len(t) : t[i] \in Message /\ t[i].kind # "compaction"
  BY ElementOfSeq, Kinds
<1> HIDE DEF u
<1>3. ASSUME NEW c \in 1..Len(u), u[c].kind = "compaction"
      PROVE  \E i \in u[c].keep..(c - 1) : u[i] \in Message
  <2>1. c \in 1..Len(s)
    <3>1. CASE c > Len(s)
      <4>1. c - Len(s) \in 1..Len(t) /\ u[c] = t[c - Len(s)]
        BY <1>1, <3>1
      <4> QED
        BY <1>2, <1>3, <4>1
    <3> QED
      BY <1>1, <3>1
  <2>2. u[c] = s[c] /\ s[c].keep \in Nat \ {0}
    BY <1>1, <1>3, <2>1, Kinds DEF CompactionEntry
  <2>3. PICK i \in s[c].keep..(c - 1) : s[i] \in Message
    BY <1>3, <2>1, <2>2 DEF KeepsSome
  <2>4. u[i] = s[i]
    BY <1>1, <2>1, <2>2, <2>3
  <2> QED
    BY <2>2, <2>3, <2>4
<1> QED
  BY <1>3 DEF KeepsSome, u

\* A compaction keeps the last message there was when it was prepared.
LEMMA KeepsAfterCompaction ==
  ASSUME log \in Seq(Entry), KeepsSome(log), NEW seen \in 0..Len(log),
         replies \in Nat, AppendCompaction(seen)
  PROVE  KeepsSome(log') /\ log'[Len(log')].kind = "compaction"
<1> DEFINE s == SubSeq(log, 1, seen)
           C == Positions(s, {"compaction"})
           V == Positions(s, {"user", "assistant", "bash"})
           start == IF C = {} THEN 1 ELSE s[Max(C)].keep
<1>1. Len(log) \in Nat /\ \A i \in 1..Len(log) : log[i] \in Entry
  BY LenProperties, ElementOfSeq
<1>2. /\ s \in Seq(Entry) /\ Len(s) = seen
      /\ \A i \in 1..seen : s[i] = log[i]
  <2>1. /\ s \in Seq(Entry)
        /\ Len(s) = IF 1 <= seen THEN seen - 1 + 1 ELSE 0
        /\ \A i \in 1..(seen - 1 + 1) : s[i] = log[1 + i - 1]
    BY <1>1, SubSeqProperties
  <2> QED
    BY <1>1, <2>1
<1>3. PICK keep \in CutPoints(s), n \in Nat :
        log' = Append(log, Compaction(keep, n))
  BY DEF AppendCompaction
<1>4. /\ keep \in Nat \ {0}
      /\ Compaction(keep, n) \in CompactionEntry
      /\ Compaction(keep, n) \in Entry
  <2>1. keep \in Nat \ {0}
    BY <1>2, <1>3, CutPointsAre
  <2> QED
    BY <2>1, BuiltMessages
<1>5. /\ Len(log') = Len(log) + 1 /\ log'[Len(log) + 1] = Compaction(keep, n)
      /\ \A i \in 1..Len(log) : log'[i] = log[i]
  BY <1>3, <1>4, AppendProperties
<1>6. s # << >> /\ Last(s).kind # "compaction"
        /\ (keep \in V \/ keep = start)
  BY <1>3 DEF CutPoints
<1> HIDE DEF s
<1>7. seen \in 1..Len(log) /\ Last(s) = log[seen]
  <2>1. seen # 0
    BY <1>2, <1>6, EmptySeq
  <2> QED
    BY <1>1, <1>2, <2>1 DEF Last
<1>8. log[seen] \in Message
  BY <1>1, <1>6, <1>7, Kinds
<1>9. keep <= seen
  <2>1. V \in SUBSET (1..seen)
    BY <1>2, PositionsAre
  <2>2. C # {} => Max(C) \in 1..seen /\ s[Max(C)].kind = "compaction"
    BY <1>2, PositionsAre
  <2> HIDE DEF V, C
  <2>3. CASE keep \in V
    BY <2>1, <2>3
  <2>4. CASE keep = start /\ C = {}
    BY <1>7, <2>4
  <2>5. CASE keep = start /\ C # {}
    <3> DEFINE c == Max(C)
    <3>1. c \in 1..seen /\ s[c].kind = "compaction" /\ keep = s[c].keep
      BY <2>2, <2>5
    <3> HIDE DEF c
    <3>2. c \in 1..Len(log) /\ log[c] = s[c]
      BY <1>1, <1>2, <1>7, <3>1
    <3>3. PICK i \in log[c].keep..(c - 1) : log[i] \in Message
      BY <3>1, <3>2 DEF KeepsSome
    <3> QED
      BY <1>4, <1>7, <3>1, <3>2, <3>3
  <2> QED
    BY <1>6, <2>3, <2>4, <2>5
<1>10. ASSUME NEW c \in 1..Len(log'), log'[c].kind = "compaction"
       PROVE  \E i \in log'[c].keep..(c - 1) : log'[i] \in Message
  <2>1. CASE c = Len(log) + 1
    <3>1. log'[c].keep = keep
      BY <1>5, <2>1 DEF Compaction
    <3>2. seen \in keep..(c - 1) /\ log'[seen] \in Message
      BY <1>1, <1>4, <1>5, <1>7, <1>8, <1>9, <2>1
    <3> QED
      BY <3>1, <3>2
  <2>2. CASE c # Len(log) + 1
    <3>1. c \in 1..Len(log) /\ log'[c] = log[c]
      BY <1>1, <1>5, <2>2
    <3>2. log[c].keep \in Nat \ {0}
      BY <1>1, <1>10, <3>1, Kinds DEF CompactionEntry
    <3>3. PICK i \in log[c].keep..(c - 1) : log[i] \in Message
      BY <1>10, <3>1 DEF KeepsSome
    <3>4. i \in 1..Len(log)
      BY <1>1, <3>1, <3>2, <3>3
    <3> QED
      BY <1>5, <3>1, <3>3, <3>4
  <2> QED
    BY <2>1, <2>2
<1>11. log'[Len(log')].kind = "compaction"
  BY <1>5 DEF Compaction
<1> QED
  BY <1>10, <1>11 DEF KeepsSome

\* The last message of a sequence of entries is the last that is shown.
LEMMA LastMessageIs ==
  ASSUME NEW s \in Seq(Entry), NEW i \in 1..Len(s), s[i] \in Message,
         \A j \in (i + 1)..Len(s) : ~(s[j] \in Message)
  PROVE  Only(s, Message) # << >> /\ Last(Only(s, Message)) = s[i]
<1> DEFINE At(u, k) == /\ u[k] \in Message
                       /\ \A j \in (k + 1)..Len(u) : ~(u[j] \in Message)
           U == { u \in Seq(Entry) : \A k \in 1..Len(u) : At(u, k) =>
                    /\ Only(u, Message) # << >>
                    /\ Last(Only(u, Message)) = u[k] }
<1>1. << >> \in U
  BY EmptySeq
<1>2. ASSUME NEW u \in Seq(Entry), NEW e \in Entry, u \in U
      PROVE  Append(u, e) \in U
  <2> DEFINE v == Append(u, e)
             o == Only(u, Message)
  <2>1. /\ v \in Seq(Entry) /\ Len(v) = Len(u) + 1 /\ Len(u) \in Nat
        /\ v[Len(u) + 1] = e /\ \A k \in 1..Len(u) : v[k] = u[k]
    BY AppendProperties, LenProperties
  <2>2. Only(v, Message) = OneMore(o, e, Message) /\ o \in Seq(Message)
    BY OnlyAppend, OnlyType
  <2> HIDE DEF v, o
  <2>3. ASSUME NEW k \in 1..Len(v), At(v, k)
        PROVE  Only(v, Message) # << >> /\ Last(Only(v, Message)) = v[k]
    <3>1. CASE e \in Message
      <4>1. k = Len(u) + 1
        <5>1. ~(k <= Len(u))
          <6>1. ASSUME k <= Len(u) PROVE FALSE
            <7>1. Len(u) + 1 \in (k + 1)..Len(v)
              BY <2>1, <6>1
            <7> QED
              BY <2>1, <2>3, <3>1, <7>1
          <6> QED
            BY <6>1
        <5> QED
          BY <2>1, <5>1
      <4>2. Only(v, Message) = Append(o, e)
        BY <2>2, <3>1 DEF OneMore
      <4> QED
        BY <2>1, <2>2, <3>1, <4>1, <4>2, LastAppend
    <3>2. CASE e \notin Message
      <4>1. Only(v, Message) = o
        BY <2>2, <3>2 DEF OneMore
      <4>2. k \in 1..Len(u)
        BY <2>1, <2>3, <3>2
      <4>3. At(u, k)
        BY <2>1, <2>3, <4>2
      <4>4. o # << >> /\ Last(o) = u[k]
        BY <1>2, <4>2, <4>3 DEF o
      <4> QED
        BY <2>1, <4>1, <4>2, <4>4
    <3> QED
      BY <3>1, <3>2
  <2> QED
    BY <2>1, <2>3 DEF v
<1> HIDE DEF U
<1>3. Seq(Entry) \subseteq U
  BY <1>1, <1>2, SeqInduct
<1>4. s \in U
  BY <1>3
<1> QED
  BY <1>4 DEF U

\* What is shown after a compaction ends with the last message of the session.
LEMMA ContextEnds ==
  ASSUME NEW s \in Seq(Entry), KeepsSome(s), ReplyEnds(s),
         s[Len(s)].kind = "compaction"
  PROVE  /\ BuildSessionContext(s) # << >>
         /\ IsReply(Last(BuildSessionContext(s)))
<1> DEFINE C == Positions(s, {"compaction"})
<1>1. PICK r \in 1..Len(s) :
        IsReply(s[r]) /\ \A j \in (r + 1)..Len(s) : ~(s[j] \in Message)
  BY DEF ReplyEnds
<1>2. Len(s) \in Nat /\ DOMAIN s = 1..Len(s) /\ \A i \in 1..Len(s) :
        s[i] \in Entry
  BY LenProperties, ElementOfSeq
<1>3. s[r] \in Message /\ r # Len(s)
  BY <1>1, <1>2, Kinds DEF IsReply
<1>4. Len(s) \in C
  BY <1>1, <1>2 DEF Positions
<1>5. LastCompaction(s) = Len(s)
  <2>1. C \in SUBSET (1..Len(s))
    BY PositionsAre
  <2>2. Max(C) \in C /\ \A i \in C : i <= Max(C)
    BY <1>2, <1>4, <2>1, MaxIsOne
  <2> QED
    BY <1>2, <1>4, <2>1, <2>2 DEF LastCompaction
<1> HIDE DEF C
<1> DEFINE keep == s[Len(s)].keep
<1>6. keep \in 1..r
  <2>1. keep \in Nat \ {0}
    BY <1>2, <1>1, Kinds DEF CompactionEntry
  <2>2. PICK i \in keep..(Len(s) - 1) : s[i] \in Message
    BY <1>1, <1>2 DEF KeepsSome
  <2> HIDE DEF keep
  <2>3. i <= r
    BY <1>1, <1>2, <2>1, <2>2
  <2> QED
    BY <1>2, <2>1, <2>2, <2>3
<1> HIDE DEF keep
<1>a. /\ Len(s) \in Nat /\ r \in 1..Len(s) /\ r # Len(s) /\ keep \in 1..r
      /\ keep \in Nat /\ r \in Nat
  <2>1. r \in 1..Len(s)
    BY <1>1
  <2>2. r \in Nat /\ Len(s) \in Nat
    BY <1>2, <2>1
  <2> QED
    BY <1>3, <1>6, <2>1, <2>2
<1> DEFINE k == Kept(s)
<1>7. k = SubSeq(s, keep, Len(s) - 1)
  BY <1>5 DEF Kept, keep
<1>8. /\ k \in Seq(Entry) /\ Len(k) = Len(s) - keep
      /\ \A i \in 1..(Len(s) - keep) : k[i] = s[keep + i - 1]
  <2>1. /\ SubSeq(s, keep, Len(s) - 1) \in Seq(Entry)
        /\ Len(SubSeq(s, keep, Len(s) - 1))
             = IF keep <= Len(s) - 1 THEN Len(s) - 1 - keep + 1 ELSE 0
        /\ \A i \in 1..(Len(s) - 1 - keep + 1) :
             SubSeq(s, keep, Len(s) - 1)[i] = s[keep + i - 1]
    <3>1. \A i \in keep..(Len(s) - 1) : s[i] \in Entry
      BY <1>2, <1>6
    <3> QED
      BY <1>2, <1>6, <3>1, SubSeqProperties
  <2> DEFINE u == SubSeq(s, keep, Len(s) - 1)
  <2> HIDE DEF u
  <2>2. keep <= Len(s) - 1 /\ Len(s) - 1 - keep + 1 = Len(s) - keep
    BY <1>a
  <2> QED
    BY <1>7, <2>1, <2>2 DEF u
<1> HIDE DEF k
<1>9. Only(k, Message) # << >> /\ Last(Only(k, Message)) = s[r]
  <2> DEFINE i == r - keep + 1
  <2>1. i \in 1..Len(k) /\ k[i] = s[r]
    <3>1. i \in 1..(Len(s) - keep) /\ keep + i - 1 = r
      BY <1>a
    <3> HIDE DEF i
    <3> QED
      BY <1>8, <3>1
  <2>2. ASSUME NEW j \in (i + 1)..Len(k) PROVE ~(k[j] \in Message)
    <3>1. keep + j - 1 \in (r + 1)..Len(s) /\ k[j] = s[keep + j - 1]
      BY <1>2, <1>6, <1>8, <2>1
    <3> QED
      BY <1>1, <3>1
  <2> HIDE DEF i
  <2> QED
    BY <1>3, <1>8, <2>1, <2>2, LastMessageIs
<1>10. Later(s) = << >>
  <2>1. Later(s) = SubSeq(s, Len(s) + 1, Len(s))
    BY <1>5 DEF Later
  <2>2. Later(s) \in Seq(Message)
    BY <1>4, PartsTyped DEF C
  <2>3. Len(SubSeq(s, Len(s) + 1, Len(s))) = 0
    BY <1>2, SubSeqProperties
  <2> QED
    BY <2>1, <2>2, <2>3, EmptySeq
<1> DEFINE m == Messages(k)
<1>11. BuildSessionContext(s) = << Summary >> \o m \o << >>
         /\ m \in Seq(Message) /\ m # << >> /\ Last(m) = s[r]
  BY <1>4, <1>9, <1>10, ContextIs DEF C, k, Messages
<1> HIDE DEF m
<1>12. << Summary >> \in Seq(Shown) /\ m \in Seq(Shown)
  BY <1>11, Subtypes
<1>13. << Summary >> \o m \o << >> = << Summary >> \o m
  <2> DEFINE h == << Summary >> \o m
  <2>1. h \in Seq(Shown)
    BY <1>12, ConcatProperties
  <2> HIDE DEF h
  <2>2. h \o << >> = h
    BY <2>1, ConcatEmptySeq
  <2> QED
    BY <2>2 DEF h
<1>14. << Summary >> \o m # << >> /\ Last(<< Summary >> \o m) = Last(m)
  BY <1>11, <1>12, LastConcat
<1> QED
  BY <1>1, <1>11, <1>13, <1>14

\* Every step leaves every compaction a message that it keeps.
LEMMA KeepsPreserved ==
  ASSUME TypeOK, Control, KeepsSome(log), [Next]_vars PROVE KeepsSome(log)'
<1> USE DEF vars, fileVars, agentQueues, shownQueues, runVars, retryVars,
      replyVars, callVars, manualVars, historyVars
<1>0. log \in Seq(Entry) /\ pendingBash \in Seq(Message)
  BY Subtypes, SeqMonotonic DEF TypeOK, FileTypes
<1>v. TypeOK /\ Control
  OBVIOUS
<1>n. UNCHANGED log => KeepsSome(log)'
  BY DEF KeepsSome
<1>a. \A e \in Message : log' = Append(log, e) => KeepsSome(log)'
  <2> TAKE e \in Message
  <2>1. Append(log, e) = log \o << e >> /\ << e >> \in Seq(Message)
    BY <1>0, Subtypes, AppendIsConcat
  <2>2. KeepsSome(log \o << e >>)
    BY <1>0, <2>1, KeepsMore
  <2> QED
    BY <2>1, <2>2
<1>b. FlushPendingBashMessages => KeepsSome(log)'
  <2>1. KeepsSome(log \o pendingBash)
    BY <1>0, KeepsMore
  <2> QED
    BY <2>1 DEF FlushPendingBashMessages
<1>1. CASE Save
  <2>1. unsaved \in Message
    BY <1>v, <1>1, ValuesAre DEF Save
  <2> QED
    BY <1>a, <1>1, <2>1 DEF Save
<1>2. ASSUME NEW p \in Prompters, CompactionSucceeds(p) PROVE KeepsSome(log)'
  <2>1. compaction[p].seen \in 0..Len(log) /\ replies \in Nat
    BY DEF TypeOK, CallTypes, HistoryTypes
  <2> QED
    BY <1>0, <1>2, <2>1, KeepsAfterCompaction DEF CompactionSucceeds
<1>3. ASSUME NEW p \in Prompters, ContinueThrows(p) PROVE KeepsSome(log)'
  BY <1>b, <1>3 DEF ContinueThrows
<1>4. ASSUME NEW p \in Prompters, Return(p) PROVE KeepsSome(log)'
  BY <1>b, <1>4 DEF Return
<1>5. ASSUME NEW p \in Prompters, Send(p) PROVE KeepsSome(log)'
  <2>1. isStreaming => FlushPendingBashMessages
    BY <1>5 DEF Send
  <2>2. ~isStreaming => UNCHANGED log
    BY <1>5 DEF Send
  <2> QED
    BY <1>n, <1>b, <2>1, <2>2
<1>6. CASE CompactSucceeds
  <2>1. byHand.seen \in 0..Len(log) /\ replies \in Nat
    BY DEF TypeOK, ManualTypes, HistoryTypes
  <2> QED
    BY <1>0, <1>6, <2>1, KeepsAfterCompaction DEF CompactSucceeds
<1>7. ASSUME NEW p \in Prompters, Prompt(p) PROVE KeepsSome(log)'
  BY <1>b, <1>7 DEF Prompt
<1>8. CASE RecordBashResult
  <2>1. CASE isStreaming
    BY <1>n, <1>8, <2>1 DEF RecordBashResult
  <2>2. CASE ~isStreaming
    <3>1. nextBash <= MaxBashMessages /\ log' = Append(log, Bash(nextBash))
      BY <1>8, <2>2 DEF RecordBashResult
    <3>2. Bash(nextBash) \in Message
      BY <1>v, <3>1, ValuesAre, Subtypes
    <3> QED
      BY <1>a, <3>1, <3>2
  <2> QED
    BY <2>1, <2>2
<1>9. CASE \/ Announce \/ (\E stop \in Replies : ModelReplies(stop))
           \/ ToolEnds \/ PollSteering \/ PollFollowUps \/ RunEnds
           \/ (\E p \in Prompters : PrepareRetry(p))
           \/ (\E p \in Prompters : NoRetry(p))
           \/ (\E p \in Prompters : NothingHeard(p))
           \/ (\E p \in Prompters : SleepEnds(p))
           \/ (\E p \in Prompters : NoCompactionNeeded(p))
           \/ (\E p \in Prompters : RecoverFromOverflow(p))
           \/ (\E p \in Prompters : CompactAtThreshold(p))
           \/ (\E p \in Prompters : CompactionFails(p))
           \/ (\E p \in Prompters : ContinueTranscript(p))
           \/ (\E p \in Prompters : ContinueWithQueue(p)) \/ PrepareCompact
           \/ CompactFails \/ Steer \/ FollowUp \/ ClearQueue \/ AbortRetry
           \/ Abort \/ Compact
  BY <1>n, <1>9 DEF Announce, Push, connected, Without, ModelReplies, ToolEnds,
       PollSteering, PollFollowUps, RunEnds, Goto, Disconnected, PrepareRetry,
       NoRetry, NothingHeard, SleepEnds, NoCompactionNeeded, Proceed,
       RecoverFromOverflow, StartCompaction, CompactAtThreshold,
       CompactionFails, EndCompaction, ContinueTranscript, ContinueFrom,
       BeginRun, ContinueWithQueue, PrepareCompact, CompactStep, CompactFails,
       Steer, Accept, FollowUp, ClearQueue, AbortRetry, Abort, Compact
<1>10. CASE UNCHANGED vars
  BY <1>n, <1>10
<1> QED
  BY <1>1, <1>2, <1>3, <1>4, <1>5, <1>6, <1>7, <1>8, <1>9, <1>10 DEF Next,
       Progress, RunStep, CallStep, Operation

\* A reply that failed ends its run, and both records, until it is looked at.
FailureOK ==
    /\ runPc = "save" /\ IsFailed(unsaved) => afterSave = "end"
    /\ IsFailed(lastAssistantMessage) =>
         runPc \in {"end", "none"} /\ BothEndWithReply

\* The reply that failed.
LEMMA FailurePreserved ==
  ASSUME OnePrompter, TypeOK, Control, SaveOK, HeardOK, FailureOK, [Next]_vars
  PROVE  FailureOK'
<1> USE DEF vars, fileVars, agentQueues, shownQueues, runVars, retryVars,
      replyVars, callVars, manualVars, historyVars
<1>0. TypeOK /\ Control
  OBVIOUS
<1>d. ~IsFailed(NoMessage)
  BY DEF IsFailed, IsReply, NoMessage
<1>n. ASSUME NEW p \in Prompters, pc[p] \notin {"run", "post"}
      PROVE  lastAssistantMessage = NoMessage
  <2>1. owner = NoOne
    BY <1>n, Alone
  <2>2. \A q \in Prompters : pc[q] # "post"
    BY <1>n DEF OnePrompter
  <2> QED
    BY <2>1, <2>2 DEF HeardOK
<1>y. ASSUME lastAssistantMessage' = NoMessage, runPc' # "save" PROVE FailureOK'
  BY <1>y, <1>d DEF FailureOK
<1>p. ASSUME NEW p \in Prompters, pc[p] # "run", UNCHANGED runPc,
             lastAssistantMessage' = NoMessage
      PROVE  FailureOK'
  <2>1. runPc = "none"
    BY <1>p, Alone
  <2> QED
    BY <1>p, <1>y, <2>1
<1>u. ASSUME lastAssistantMessage = NoMessage, UNCHANGED lastAssistantMessage,
             UNCHANGED << runPc, unsaved, afterSave >>
      PROVE  FailureOK'
  BY <1>u, <1>d DEF FailureOK
<1>v. ASSUME UNCHANGED << fileVars, lastAssistantMessage, unsaved, afterSave,
                          runPc >>
      PROVE  FailureOK'
  BY <1>v DEF FailureOK, BothEndWithReply, EndsWithReply, ReplyEnds
<1>w. ASSUME runPc \notin {"end", "none", "save"},
             UNCHANGED lastAssistantMessage,
             runPc' = "save" => ~IsFailed(unsaved') \/ afterSave' = "end"
      PROVE  FailureOK'
  BY <1>w DEF FailureOK
<1>1. CASE Announce
  <2>1. runPc' = "save" => unsaved' = Head(held)
    BY <1>1 DEF Announce, Push, RunPC
  <2>2. ~IsFailed(Head(held))
    BY <1>0, <1>1, ValuesAre DEF Announce, UserMessage, IsFailed, IsReply
  <2> QED
    BY <1>1, <1>w, <2>1, <2>2 DEF Announce
<1>2. ASSUME NEW stop \in Replies, ModelReplies(stop) PROVE FailureOK'
  <2> DEFINE m == Reply(replies + 1, stop)
             next == CASE stop = "tools"               -> "tool"
                       [] stop \in {"stop", "silent"} -> "poll"
                       [] OTHER                        -> "end"
  <2>1. Push(m, next) /\ runPc = "turn" /\ UNCHANGED lastAssistantMessage
    BY <1>2 DEF ModelReplies
  <2>2. m.stop = stop
    BY DEF Reply
  <2>3. IsFailed(m) => next = "end"
    BY <2>2 DEF IsFailed
  <2>4. next # "save"
    OBVIOUS
  <2> HIDE DEF m, next
  <2>5. runPc' = "save" => unsaved' = m /\ afterSave' = next
    BY <2>1, <2>4 DEF Push
  <2> QED
    BY <1>w, <2>1, <2>3, <2>5
<1>3. CASE ToolEnds
  <2>1. runPc' = "save" => unsaved' = Result(replies)
    BY <1>3 DEF ToolEnds, Push
  <2>2. ~IsFailed(Result(replies))
    BY DEF Result, IsFailed, IsReply
  <2> QED
    BY <1>3, <1>w, <2>1, <2>2 DEF ToolEnds
<1>4. CASE Save
  <2>1. /\ transcript # << >> /\ Last(transcript) = unsaved
        /\ UNCHANGED transcript /\ log' = Append(log, unsaved)
        /\ runPc' = afterSave /\ afterSave \in RunPC
        /\ unsaved \in Message
        /\ lastAssistantMessage' = IF IsReply(unsaved) THEN unsaved
                                                      ELSE lastAssistantMessage
    BY <1>0, <1>4 DEF Save, SaveOK, TypeOK, RunTypes
  <2>2. ~IsFailed(lastAssistantMessage)
    BY <1>4 DEF Save, FailureOK
  <2>3. CASE IsFailed(unsaved)
    <3>1. IsReply(unsaved) /\ runPc' = "end"
      BY <1>4, <2>1, <2>3 DEF IsFailed, FailureOK, Save
    <3>2. EndsWithReply'
      BY <2>1, <3>1 DEF EndsWithReply
    <3>3. ReplyEnds(log')
      <4>1. /\ Len(log') = Len(log) + 1 /\ log'[Len(log) + 1] = unsaved
            /\ Len(log) \in Nat
        BY <2>1, Subtypes, AppendProperties, LenProperties
           DEF TypeOK, FileTypes
      <4>2. Len(log') \in 1..Len(log') /\ IsReply(log'[Len(log')])
        BY <3>1, <4>1
      <4>3. (Len(log') + 1)..Len(log') = {}
        BY <4>1
      <4> QED
        BY <4>2, <4>3 DEF ReplyEnds
    <3> QED
      BY <3>1, <3>2, <3>3 DEF FailureOK, BothEndWithReply
  <2>4. CASE ~IsFailed(unsaved)
    <3>1. ~IsFailed(lastAssistantMessage') /\ runPc' # "save"
      BY <2>1, <2>2, <2>4 DEF RunPC
    <3> QED
      BY <3>1 DEF FailureOK
  <2> QED
    BY <2>3, <2>4
<1>5. CASE PollSteering
  <2>1. runPc \notin {"end", "none", "save"} /\ runPc' # "save"
        /\ UNCHANGED lastAssistantMessage
    BY <1>5 DEF PollSteering
  <2> QED
    BY <1>w, <2>1
<1>6. CASE PollFollowUps
  <2>1. runPc \notin {"end", "none", "save"} /\ runPc' # "save"
        /\ UNCHANGED lastAssistantMessage
    BY <1>6 DEF PollFollowUps
  <2> QED
    BY <1>w, <2>1
<1>7. CASE RunEnds
  BY <1>7 DEF RunEnds, FailureOK, BothEndWithReply, EndsWithReply, ReplyEnds
<1>8. ASSUME NEW p \in Prompters, PrepareRetry(p) PROVE FailureOK'
  BY <1>p, <1>8 DEF PrepareRetry
<1>9. ASSUME NEW p \in Prompters, NoRetry(p) PROVE FailureOK'
  BY <1>p, <1>9 DEF NoRetry
<1>10. ASSUME NEW p \in Prompters, NothingHeard(p) PROVE FailureOK'
  BY <1>p, <1>10 DEF NothingHeard
<1>11. ASSUME NEW p \in Prompters, SleepEnds(p) PROVE FailureOK'
  BY <1>p, <1>n, <1>11 DEF SleepEnds
<1>12. ASSUME NEW p \in Prompters, NoCompactionNeeded(p) PROVE FailureOK'
  BY <1>p, <1>n, <1>12 DEF NoCompactionNeeded
<1>13. ASSUME NEW p \in Prompters, RecoverFromOverflow(p) PROVE FailureOK'
  BY <1>p, <1>n, <1>13 DEF RecoverFromOverflow, StartCompaction
<1>14. ASSUME NEW p \in Prompters, CompactAtThreshold(p) PROVE FailureOK'
  BY <1>p, <1>n, <1>14 DEF CompactAtThreshold, StartCompaction
<1>15. ASSUME NEW p \in Prompters, CompactionSucceeds(p) PROVE FailureOK'
  BY <1>p, <1>n, <1>15 DEF CompactionSucceeds, EndCompaction
<1>16. ASSUME NEW p \in Prompters, CompactionFails(p) PROVE FailureOK'
  BY <1>p, <1>n, <1>16 DEF CompactionFails, EndCompaction
<1>17. ASSUME NEW p \in Prompters, ContinueTranscript(p) PROVE FailureOK'
  BY <1>y, <1>n, <1>17 DEF ContinueTranscript, ContinueFrom, BeginRun
<1>18. ASSUME NEW p \in Prompters, ContinueWithQueue(p) PROVE FailureOK'
  BY <1>y, <1>n, <1>18 DEF ContinueWithQueue, ContinueFrom, BeginRun
<1>19. ASSUME NEW p \in Prompters, ContinueThrows(p) PROVE FailureOK'
  BY <1>p, <1>n, <1>19 DEF ContinueThrows
<1>20. ASSUME NEW p \in Prompters, Return(p) PROVE FailureOK'
  BY <1>p, <1>n, <1>20 DEF Return
<1>21. ASSUME NEW p \in Prompters, Send(p) PROVE FailureOK'
  <2>1. /\ pc[p] \notin {"run", "post"} /\ UNCHANGED lastAssistantMessage
        /\ ~isStreaming => runPc' = "prompts"
    BY <1>21 DEF Send, BeginRun
  <2>2. ~isStreaming
    BY <2>1, Alone
  <2> QED
    BY <1>y, <1>n, <2>1, <2>2
<1>22. CASE PrepareCompact
  BY <1>v, <1>22 DEF PrepareCompact, CompactStep
<1>23. CASE CompactSucceeds
  <2>1. /\ ~Listens /\ ~Urgent
        /\ UNCHANGED << lastAssistantMessage, runPc, unsaved, afterSave >>
    BY <1>23 DEF CompactSucceeds, CompactStep, Listens
  <2>2. \A p \in Prompters : pc[p] # "post"
    BY <2>1 DEF Urgent
  <2>3. lastAssistantMessage = NoMessage
    BY <2>1, <2>2 DEF HeardOK
  <2> QED
    BY <1>u, <2>1, <2>3
<1>24. CASE CompactFails
  BY <1>v, <1>24 DEF CompactFails, CompactStep
<1>25. ASSUME NEW p \in Prompters, Prompt(p) PROVE FailureOK'
  BY <1>p, <1>n, <1>25 DEF Prompt
<1>26. CASE Steer \/ FollowUp \/ ClearQueue \/ AbortRetry \/ Abort \/ Compact
  BY <1>v, <1>26 DEF Steer, FollowUp, Accept, ClearQueue, AbortRetry, Abort,
       Compact
<1>27. CASE ~Urgent /\ RecordBashResult
  <2>1. CASE isStreaming
    BY <1>v, <1>27, <2>1 DEF RecordBashResult
  <2>2. CASE ~isStreaming
    <3>1. /\ ~Urgent
          /\ UNCHANGED << lastAssistantMessage, runPc, unsaved, afterSave >>
      BY <1>27 DEF RecordBashResult
    <3>2. lastAssistantMessage = NoMessage
      BY <2>2, <3>1 DEF Urgent, HeardOK, isStreaming
    <3> QED
      BY <1>u, <3>1, <3>2
  <2> QED
    BY <2>1, <2>2
<1>28. CASE UNCHANGED vars
  BY <1>v, <1>28
<1> QED
  BY <1>1, <1>2, <1>3, <1>4, <1>5, <1>6, <1>7, <1>8, <1>9, <1>10, <1>11, <1>12,
       <1>13, <1>14, <1>15, <1>16, <1>17, <1>18, <1>19, <1>20, <1>21, <1>22,
       <1>23, <1>24, <1>25, <1>26, <1>27, <1>28
     DEF Next, Progress, RunStep, CallStep, Operation

\* What a session may spend on recovery when it has made k retries in a row:
\* as many again, after one compaction.
Spare == IF overflowRecoveryAttempted THEN MaxRetries + 1 ELSE 0

\* No retry is left, and nothing to go on with before a message comes.
Settled ==
    \/ owner # NoOne /\ runPc = "prompts" /\ held # << >>
    \/ /\ owner = NoOne /\ BothEndWithReply
       /\ \A p \in Prompters : pc[p] \notin {"post", "sleep"}

BudgetOK ==
    \/ recoveries <= retryAttempt + Spare
    \/ recoveries <= MaxRetries + Spare /\ Settled

\* The compaction of an overflow is the only one, and what it allows is unspent.
OverflowOK == \A p \in Prompters :
    pc[p] = "compact" /\ compaction[p].reason = "overflow" =>
      overflowRecoveryAttempted /\ recoveries <= MaxRetries

\* A compaction leaves a reply at the end of both records.
LEMMA EndsAfterCompaction ==
  ASSUME log \in Seq(Entry), KeepsSome(log), NEW seen \in 0..Len(log),
         replies \in Nat, AppendCompaction(seen), BothEndWithReply
  PROVE  /\ ReplyEnds(log')
         /\ BuildSessionContext(log') # << >>
         /\ IsReply(Last(BuildSessionContext(log')))
<1>1. KeepsSome(log') /\ log'[Len(log')].kind = "compaction"
  BY KeepsAfterCompaction
<1>2. PICK c \in CompactionEntry : log' = Append(log, c)
  BY AppendCompactionIs
<1>3. log' \in Seq(Entry)
  BY AppendCompactionIs
<1>4. /\ Len(log') = Len(log) + 1 /\ Len(log) \in Nat /\ log'[Len(log) + 1] = c
      /\ \A i \in 1..Len(log) : log'[i] = log[i]
  BY <1>2, AppendProperties, LenProperties DEF CompactionEntry, Entry
<1>5. c \notin Message
  BY Kinds DEF CompactionEntry, Entry
<1>6. ReplyEnds(log')
  <2>1. PICK r \in 1..Len(log) :
          IsReply(log[r]) /\ \A j \in (r + 1)..Len(log) : ~(log[j] \in Message)
    BY DEF BothEndWithReply, ReplyEnds
  <2>2. r \in 1..Len(log') /\ IsReply(log'[r])
    BY <1>4, <2>1
  <2>3. ASSUME NEW j \in (r + 1)..Len(log') PROVE ~(log'[j] \in Message)
    <3>1. CASE j = Len(log) + 1
      BY <1>4, <1>5, <3>1
    <3>2. CASE j # Len(log) + 1
      <4>1. j \in (r + 1)..Len(log) /\ j \in 1..Len(log)
        BY <1>4, <2>1, <3>2
      <4> QED
        BY <1>4, <2>1, <4>1
    <3> QED
      BY <3>1, <3>2
  <2> QED
    BY <2>2, <2>3 DEF ReplyEnds
<1> QED
  BY <1>1, <1>3, <1>6, ContextEnds

\* What recovery has spent.
LEMMA BudgetPreserved ==
  ASSUME OnePrompter, TypeOK, Control, KeepsSome(log), FailureOK, BudgetOK,
         OverflowOK, TypeOK', [Next]_vars
  PROVE  BudgetOK' /\ OverflowOK'
<1> USE DEF vars, fileVars, agentQueues, shownQueues, runVars, retryVars,
      replyVars, callVars, manualVars, historyVars
<1>0. TypeOK /\ Control
  OBVIOUS
<1>t. /\ MaxRetries \in Nat /\ recoveries \in Nat /\ recoveries' \in Nat
      /\ retryAttempt \in 0..MaxRetries /\ retryAttempt' \in 0..MaxRetries
      /\ Spare \in Nat /\ Spare' \in Nat
      /\ pc \in [Prompters -> {"idle", "starting", "run", "post", "sleep",
                               "check", "compact", "continue", "return"}]
      /\ log \in Seq(Entry) /\ replies \in Nat
      /\ pendingBash \in Seq(BashMessage)
  BY AgentSessionAssumption
     DEF AgentSessionAssumption, TypeOK, HistoryTypes, FieldTypes, Spare,
         CallTypes, FileTypes
<1>a. /\ MaxRetries \in Nat /\ recoveries \in Nat /\ recoveries' \in Nat
      /\ retryAttempt \in Nat /\ retryAttempt' \in Nat /\ Spare' \in Nat
  BY <1>t
<1>z. ASSUME recoveries' = 0 PROVE BudgetOK'
  <2>1. recoveries' <= retryAttempt' + Spare'
    <3>1. \A a, b \in Nat : 0 <= a + b
      OBVIOUS
    <3> QED
      BY <1>z, <1>a, <3>1
  <2> QED
    BY <2>1 DEF BudgetOK
<1>v. ASSUME UNCHANGED << recoveries, retryAttempt,
                          overflowRecoveryAttempted >>,
             Settled => Settled'
      PROVE  BudgetOK'
  <2>1. UNCHANGED Spare
    BY <1>v DEF Spare
  <2> QED
    BY <1>v, <2>1 DEF BudgetOK
<1>n. ASSUME runPc # "none", runPc # "prompts" \/ held = << >>
      PROVE  ~Settled
  BY <1>n, <1>0 DEF Settled, Control, RunOK
<1>p. ASSUME NEW p \in Prompters, pc[p] # "run"
      PROVE  owner = NoOne
  BY <1>p, Alone
<1>o. ASSUME \A p \in Prompters : pc'[p] # "compact" PROVE OverflowOK'
  BY <1>o DEF OverflowOK
<1>c. ASSUME NEW p \in Prompters, pc'[p] # "compact" PROVE OverflowOK'
  BY <1>c DEF OverflowOK, OnePrompter
<1>r. ASSUME owner # NoOne PROVE \A p \in Prompters : pc[p] = "run"
  BY <1>r, <1>p
<1>i. ASSUME owner # NoOne, UNCHANGED pc PROVE OverflowOK'
  BY <1>i, <1>r, <1>o
<1>k. ASSUME UNCHANGED << pc, compaction, overflowRecoveryAttempted >>,
             recoveries' = recoveries \/ recoveries' = 0
      PROVE  OverflowOK'
  BY <1>k, <1>t DEF OverflowOK
<1>w. runPc # "none" => owner # NoOne
  BY <1>0 DEF Control, RunOK
<1>g. ASSUME NEW p \in Prompters, NEW where, where \notin {"post", "sleep"},
             Goto(p, where), UNCHANGED << owner, fileVars >>, pc[p] # "run"
      PROVE  Settled => Settled'
  <2>1. owner = NoOne /\ pc'[p] = where
    BY <1>g, <1>p, <1>t DEF Goto
  <2>2. \A q \in Prompters : pc'[q] \notin {"post", "sleep"}
    BY <1>g, <2>1 DEF OnePrompter
  <2>3. UNCHANGED BothEndWithReply
    BY <1>g DEF BothEndWithReply, EndsWithReply, ReplyEnds
  <2> QED
    BY <1>g, <2>1, <2>2, <2>3 DEF Settled
<1>e. ASSUME NEW p \in Prompters, NEW goOn, Proceed(p, goOn)
      PROVE  \E where \in {"continue", "starting", "return"} :
               Goto(p, where) /\ pc'[p] = where
  BY <1>e, <1>t DEF Proceed, Goto
<1>s. ASSUME UNCHANGED << owner, runPc, held, fileVars, pc >>
      PROVE  Settled => Settled'
  BY <1>s DEF Settled, BothEndWithReply, EndsWithReply, ReplyEnds
<1>f. ASSUME NEW p \in Prompters, NEW where,
             where \notin {"post", "sleep", "compact"}, pc[p] # "run",
             Goto(p, where), FlushPendingBashMessages, UNCHANGED owner,
             UNCHANGED << retryAttempt, overflowRecoveryAttempted >>
      PROVE  BudgetOK' /\ OverflowOK'
  <2>1. pc'[p] # "compact"
    BY <1>f, <1>t DEF Goto
  <2>2. CASE pendingBash = << >>
    <3>1. UNCHANGED fileVars /\ UNCHANGED recoveries
      BY <1>f, <1>t, <2>2, ConcatEmptySeq
         DEF FlushPendingBashMessages, TypeOK, FileTypes
    <3> QED
      BY <1>f, <1>g, <1>v, <1>c, <2>1, <3>1
  <2>3. CASE pendingBash # << >>
    BY <1>f, <1>z, <1>c, <2>1, <2>3 DEF FlushPendingBashMessages
  <2> QED
    BY <2>2, <2>3
<1>1. CASE Announce
  BY <1>1, <1>z, <1>i, <1>w DEF Announce
<1>2. ASSUME NEW stop \in Replies, ModelReplies(stop)
      PROVE  BudgetOK' /\ OverflowOK'
  BY <1>2, <1>n, <1>v, <1>i, <1>w DEF ModelReplies
<1>3. CASE ToolEnds
  BY <1>3, <1>n, <1>v, <1>i, <1>w DEF ToolEnds
<1>4. CASE Save
  <2>1. ~Settled /\ OverflowOK'
    BY <1>4, <1>n, <1>i, <1>w DEF Save
  <2>2. CASE ~IsReply(unsaved)
    BY <1>4, <1>v, <2>1, <2>2 DEF Save
  <2>3. CASE IsReply(unsaved) /\ IsFailed(unsaved)
    <3>1. UNCHANGED << recoveries, retryAttempt >>
      BY <1>4, <2>3 DEF Save
    <3>2. overflowRecoveryAttempted' = (overflowRecoveryAttempted /\ TRUE)
      BY <1>4, <2>3, Zenon DEF Save
    <3>3. overflowRecoveryAttempted \in BOOLEAN
      BY DEF TypeOK, FieldTypes
    <3>4. UNCHANGED overflowRecoveryAttempted
      BY <3>2, <3>3, Zenon
    <3> QED
      BY <1>v, <2>1, <3>1, <3>4
  <2>4. CASE IsReply(unsaved) /\ ~IsFailed(unsaved)
    <3>1. recoveries' = 0
      BY <1>4, <2>4 DEF Save
    <3> QED
      BY <1>z, <2>1, <3>1
  <2> QED
    BY <2>1, <2>2, <2>3, <2>4
<1>5. CASE PollSteering
  <2>1. ~Settled /\ OverflowOK'
    BY <1>5, <1>n, <1>i, <1>w DEF PollSteering
  <2> QED
    BY <1>5, <1>v, <2>1 DEF PollSteering
<1>6. CASE PollFollowUps
  BY <1>6, <1>n, <1>v, <1>i, <1>w DEF PollFollowUps
<1>7. CASE RunEnds
  <2>1. owner \in Prompters /\ runPc # "none"
    BY <1>0, <1>7 DEF RunEnds, Control, RunOK, TypeOK, RunTypes
  <2>2. pc'[owner] = "post"
    BY <1>7, <1>t, <2>1 DEF RunEnds, Goto
  <2> QED
    BY <1>7, <1>n, <1>v, <1>c, <2>1, <2>2 DEF RunEnds
<1>8. ASSUME NEW p \in Prompters, PrepareRetry(p)
      PROVE  BudgetOK' /\ OverflowOK'
  <2>1. /\ pc[p] = "post" /\ pc'[p] = "sleep"
        /\ recoveries' = recoveries + 1 /\ retryAttempt' = retryAttempt + 1
        /\ UNCHANGED overflowRecoveryAttempted
    BY <1>8, <1>t DEF PrepareRetry, Goto
  <2>2. ~Settled
    BY <1>p, <2>1 DEF Settled
  <2>3. UNCHANGED Spare
    BY <2>1 DEF Spare
  <2>4. recoveries <= retryAttempt + Spare
    BY <2>2 DEF BudgetOK
  <2>5. recoveries' <= retryAttempt' + Spare'
    BY <1>t, <2>1, <2>3, <2>4
  <2> QED
    BY <1>c, <2>1, <2>5 DEF BudgetOK
<1>9. ASSUME NEW p \in Prompters, NoRetry(p)
      PROVE  BudgetOK' /\ OverflowOK'
  <2>1. /\ pc[p] = "post" /\ pc'[p] = "check"
        /\ UNCHANGED << recoveries, overflowRecoveryAttempted, fileVars,
                        owner >>
        /\ retryAttempt' = IF IsFailed(lastAssistantMessage) THEN 0
                                                            ELSE retryAttempt
    BY <1>9, <1>t DEF NoRetry, Goto
  <2>2. owner = NoOne /\ ~Settled
    BY <1>p, <2>1 DEF Settled
  <2>3. UNCHANGED Spare /\ recoveries <= retryAttempt + Spare
    BY <2>1, <2>2 DEF Spare, BudgetOK
  <2>4. CASE ~IsFailed(lastAssistantMessage)
    BY <1>v, <1>c, <2>1, <2>2, <2>4
  <2>5. CASE IsFailed(lastAssistantMessage)
    <3>1. BothEndWithReply'
      BY <2>1, <2>5 DEF FailureOK, BothEndWithReply, EndsWithReply, ReplyEnds
    <3>2. \A q \in Prompters : pc'[q] = "check"
      BY <2>1 DEF OnePrompter
    <3>3. Settled'
      BY <2>1, <2>2, <3>1, <3>2 DEF Settled
    <3>4. recoveries' <= MaxRetries + Spare'
      BY <1>t, <2>1, <2>3
    <3> QED
      BY <1>c, <2>1, <3>3, <3>4 DEF BudgetOK
  <2> QED
    BY <2>4, <2>5
<1>10. ASSUME NEW p \in Prompters, NothingHeard(p)
       PROVE  BudgetOK' /\ OverflowOK'
  <2>1. pc[p] = "post" /\ pc'[p] = "return"
    BY <1>10, <1>t DEF NothingHeard, Goto
  <2>2. ~Settled
    BY <1>p, <2>1 DEF Settled
  <2> QED
    BY <1>10, <1>v, <1>c, <2>1, <2>2 DEF NothingHeard
<1>11. ASSUME NEW p \in Prompters, SleepEnds(p)
       PROVE  BudgetOK' /\ OverflowOK'
  <2>1. pc[p] = "sleep" /\ pc'[p] = "continue"
    BY <1>11, <1>t DEF SleepEnds, Goto
  <2>2. ~Settled
    BY <1>p, <2>1 DEF Settled
  <2> QED
    BY <1>11, <1>v, <1>c, <2>1, <2>2 DEF SleepEnds
<1>12. ASSUME NEW p \in Prompters, NoCompactionNeeded(p)
       PROVE  BudgetOK' /\ OverflowOK'
  <2>1. PICK where \in {"continue", "starting", "return"} :
          Goto(p, where) /\ pc'[p] = where
    BY <1>12, <1>e DEF NoCompactionNeeded
  <2>2. pc[p] # "run" /\ where \notin {"post", "sleep"}
    BY <1>12, <2>1 DEF NoCompactionNeeded
  <2> QED
    BY <1>12, <1>v, <1>c, <1>g, <2>1, <2>2 DEF NoCompactionNeeded
<1>13. ASSUME NEW p \in Prompters, RecoverFromOverflow(p)
       PROVE  BudgetOK' /\ OverflowOK'
  <2>1. /\ UNCHANGED << recoveries, retryAttempt >>
        /\ ~overflowRecoveryAttempted /\ overflowRecoveryAttempted'
    BY <1>13 DEF RecoverFromOverflow, StartCompaction
  <2>2. Spare = 0 /\ Spare' = MaxRetries + 1
    BY <2>1 DEF Spare
  <2>3. recoveries <= MaxRetries
    BY <1>t, <2>2 DEF BudgetOK
  <2> QED
    BY <1>t, <2>1, <2>2, <2>3 DEF BudgetOK, OverflowOK
<1>14. ASSUME NEW p \in Prompters, CompactAtThreshold(p)
       PROVE  BudgetOK' /\ OverflowOK'
  <2>1. /\ pc[p] = "check" /\ Goto(p, "compact")
        /\ UNCHANGED << owner, fileVars, recoveries, retryAttempt,
                        overflowRecoveryAttempted >>
    BY <1>14 DEF CompactAtThreshold, StartCompaction
  <2>2. compaction'[p].reason = "threshold"
    BY <1>14 DEF CompactAtThreshold, StartCompaction, TypeOK, CallTypes
  <2>3. OverflowOK'
    BY <2>2 DEF OverflowOK, OnePrompter
  <2> QED
    BY <1>v, <1>g, <2>1, <2>3
<1>15. ASSUME NEW p \in Prompters, CompactionSucceeds(p)
       PROVE  BudgetOK' /\ OverflowOK'
  <2> DEFINE context == BuildSessionContext(log')
  <2>0. PICK seen \in 0..Len(log) : AppendCompaction(seen)
    <3>1. /\ compaction[p].seen \in 0..Len(log)
          /\ \E seen \in compaction[p].seen..Len(log) : AppendCompaction(seen)
      BY <1>15 DEF CompactionSucceeds, TypeOK, CallTypes
    <3> QED BY <3>1
  <2>1. /\ pc[p] = "compact" /\ AppendCompaction(seen)
        /\ UNCHANGED << owner, retryAttempt, overflowRecoveryAttempted >>
    BY <1>15, <2>0 DEF CompactionSucceeds, EndCompaction
  <2>2. PICK where \in {"continue", "starting", "return"} :
          Goto(p, where) /\ pc'[p] = where
    BY <1>15, <1>e DEF CompactionSucceeds
  <2>3. OverflowOK'
    BY <1>c, <2>2
  <2>4. CASE compaction[p].reason = "overflow"
    <3>1. overflowRecoveryAttempted /\ recoveries <= MaxRetries
      BY <2>1, <2>4 DEF OverflowOK
    <3>2. Spare' = MaxRetries + 1
      BY <2>1, <3>1 DEF Spare
    <3>3. recoveries' = recoveries + 1
      BY <1>15, <2>4 DEF CompactionSucceeds
    <3>4. recoveries' <= retryAttempt' + Spare'
      BY <1>a, <2>1, <3>1, <3>3 DEF Spare
    <3> QED
      BY <2>3, <3>4 DEF BudgetOK
  <2>5. CASE compaction[p].reason # "overflow"
    <3>1. UNCHANGED recoveries /\ transcript' = context
      BY <1>15, <2>5 DEF CompactionSucceeds
    <3>2. BothEndWithReply => ReplyEnds(log') /\ context # << >>
                                /\ IsReply(Last(context))
      BY <1>t, <2>1, EndsAfterCompaction
    <3> HIDE DEF context
    <3>3. BothEndWithReply => BothEndWithReply'
      BY <3>1, <3>2 DEF BothEndWithReply, EndsWithReply
    <3>4. \A q \in Prompters : pc'[q] \notin {"post", "sleep"}
      BY <2>2 DEF OnePrompter
    <3>5. owner = NoOne
      BY <1>p, <2>1
    <3>6. Settled => Settled'
      BY <2>1, <3>3, <3>4, <3>5 DEF Settled
    <3> QED
      BY <1>v, <2>1, <2>3, <3>1, <3>6
  <2> QED
    BY <2>4, <2>5
<1>16. ASSUME NEW p \in Prompters, CompactionFails(p)
       PROVE  BudgetOK' /\ OverflowOK'
  <2>1. PICK where \in {"continue", "starting", "return"} :
          Goto(p, where) /\ pc'[p] = where
    BY <1>16, <1>e DEF CompactionFails
  <2>2. pc[p] # "run" /\ where \notin {"post", "sleep"}
    BY <1>16, <2>1 DEF CompactionFails, EndCompaction
  <2> QED
    BY <1>16, <1>v, <1>c, <1>g, <2>1, <2>2 DEF CompactionFails, EndCompaction
<1>17. ASSUME NEW p \in Prompters, ContinueTranscript(p)
       PROVE  BudgetOK' /\ OverflowOK'
  <2>1. /\ pc[p] = "continue" /\ ~EndsWithReply /\ pc'[p] = "run"
        /\ UNCHANGED << recoveries, retryAttempt, overflowRecoveryAttempted >>
    BY <1>17, <1>t DEF ContinueTranscript, ContinueFrom, BeginRun, Goto
  <2>2. ~Settled
    BY <1>p, <2>1 DEF Settled, BothEndWithReply
  <2> QED
    BY <1>v, <1>c, <2>1, <2>2
<1>18. ASSUME NEW p \in Prompters, ContinueWithQueue(p)
       PROVE  BudgetOK' /\ OverflowOK'
  <2>1. /\ owner' = p /\ runPc' = "prompts" /\ pc'[p] = "run"
        /\ UNCHANGED << recoveries, retryAttempt, overflowRecoveryAttempted >>
    BY <1>18, <1>t DEF ContinueWithQueue, ContinueFrom, BeginRun, Goto
  <2>2. /\ steeringQueue \in Seq(UserMessage)
        /\ followUpQueue \in Seq(UserMessage)
    BY DEF TypeOK, QueueTypes
  <2>3. held' # << >>
    <3>1. \E mode \in QueueModes : \E queue \in Seq(UserMessage) :
            queue # << >> /\ held' = Drained(queue, mode)
      BY <1>18, <2>2 DEF ContinueWithQueue, ContinueFrom, BeginRun
    <3> QED
      BY <3>1 DEF Drained
  <2>4. Settled'
    BY <2>1, <2>3, AgentSessionAssumption DEF Settled, AgentSessionAssumption
  <2> QED
    BY <1>v, <1>c, <2>1, <2>4
<1>19. ASSUME NEW p \in Prompters, ContinueThrows(p)
       PROVE  BudgetOK' /\ OverflowOK'
  BY <1>19, <1>f DEF ContinueThrows
<1>20. ASSUME NEW p \in Prompters, Return(p)
       PROVE  BudgetOK' /\ OverflowOK'
  <2>1. PICK where \in {"starting", "idle"} : Goto(p, where)
    BY <1>20 DEF Return
  <2> QED
    BY <1>20, <1>f, <2>1 DEF Return
<1>21. ASSUME NEW p \in Prompters, Send(p)
       PROVE  BudgetOK' /\ OverflowOK'
  <2>1. ~isStreaming
    BY <1>21, Alone DEF Send
  <2>2. /\ owner' = p /\ runPc' = "prompts" /\ pc'[p] = "run"
        /\ held' = << User(sending[p], "prompt") >>
        /\ UNCHANGED << recoveries, retryAttempt, overflowRecoveryAttempted >>
    BY <1>21, <1>t, <2>1 DEF Send, BeginRun, Goto
  <2>3. held' # << >>
    BY <2>2
  <2>4. Settled'
    BY <2>2, <2>3, AgentSessionAssumption DEF Settled, AgentSessionAssumption
  <2> QED
    BY <1>v, <1>c, <2>2, <2>4
<1>22. CASE PrepareCompact
  BY <1>22, <1>v, <1>s, <1>k DEF PrepareCompact, CompactStep
<1>23. CASE CompactSucceeds
  <2> DEFINE context == BuildSessionContext(log')
  <2>1. /\ AppendCompaction(byHand.seen) /\ transcript' = context
        /\ UNCHANGED << owner, runPc, held, pc, recoveries, retryAttempt,
                        overflowRecoveryAttempted, compaction >>
    BY <1>23 DEF CompactSucceeds, CompactStep
  <2>2. BothEndWithReply => ReplyEnds(log') /\ context # << >>
                              /\ IsReply(Last(context))
    <3>1. byHand.seen \in 0..Len(log)
      BY DEF TypeOK, ManualTypes
    <3> QED
      BY <1>t, <2>1, <3>1, EndsAfterCompaction
  <2> HIDE DEF context
  <2>3. BothEndWithReply => BothEndWithReply'
    BY <2>1, <2>2 DEF BothEndWithReply, EndsWithReply
  <2>4. Settled => Settled'
    BY <2>1, <2>3 DEF Settled
  <2> QED
    BY <1>v, <1>k, <2>1, <2>4
<1>24. CASE CompactFails
  BY <1>24, <1>v, <1>s, <1>k DEF CompactFails, CompactStep
<1>25. ASSUME NEW p \in Prompters, Prompt(p)
       PROVE  BudgetOK' /\ OverflowOK'
  <2>1. PICK where \in {"starting", "check"} : Goto(p, where)
    BY <1>25 DEF Prompt
  <2> QED
    BY <1>25, <1>f, <2>1 DEF Prompt
<1>26. CASE Steer \/ FollowUp \/ ClearQueue
  BY <1>26, <1>v, <1>s, <1>k DEF Steer, FollowUp, Accept, ClearQueue
<1>27. CASE AbortRetry \/ (Compact /\ retryController # NoOne)
  <2> DEFINE p == retryController
  <2>1. p \in Prompters
    BY <1>27 DEF AbortRetry, TypeOK, FieldTypes
  <2>2. recoveries' = 0 /\ pc'[p] = "check"
    BY <1>27, <1>t, <2>1 DEF AbortRetry, Compact, Goto
  <2> HIDE DEF p
  <2> QED
    BY <1>z, <1>c, <2>1, <2>2
<1>28. CASE Abort \/ (Compact /\ retryController = NoOne)
  <2>1. Abort => retryController = NoOne
    <3>1. ASSUME Abort, retryController # NoOne PROVE FALSE
      <4>1. retryController \in Prompters
        BY <3>1 DEF TypeOK, FieldTypes
      <4>2. pc[retryController] = "sleep"
        BY <4>1 DEF Control, CallOK
      <4> QED
        BY <1>p, <3>1, <4>1, <4>2 DEF Abort, isStreaming
    <3> QED
      BY <3>1
  <2>2. UNCHANGED << recoveries, retryAttempt, overflowRecoveryAttempted, owner,
                     runPc, held, fileVars, pc, compaction >>
    BY <1>28, <2>1 DEF Abort, Compact
  <2> QED
    BY <1>v, <1>s, <1>k, <2>2
<1>29. CASE RecordBashResult
  <2>1. CASE isStreaming
    BY <1>29, <1>v, <1>s, <1>k, <2>1 DEF RecordBashResult
  <2>2. CASE ~isStreaming
    BY <1>29, <1>z, <1>k, <2>2 DEF RecordBashResult
  <2> QED
    BY <2>1, <2>2
<1>30. CASE UNCHANGED vars
  BY <1>30, <1>v, <1>s, <1>k
<1> QED
  BY <1>1, <1>2, <1>3, <1>4, <1>5, <1>6, <1>7, <1>8, <1>9, <1>10, <1>11, <1>12,
       <1>13, <1>14, <1>15, <1>16, <1>17, <1>18, <1>19, <1>20, <1>21, <1>22,
       <1>23, <1>24, <1>25, <1>26, <1>27, <1>28, <1>29, <1>30
     DEF Next, Progress, RunStep, CallStep, Operation

\* At the start nothing has been spent.
LEMMA InitRecovery ==
  ASSUME Init PROVE KeepsSome(log) /\ FailureOK /\ BudgetOK /\ OverflowOK
<1>1. /\ log = << >> /\ runPc = "none" /\ lastAssistantMessage = NoMessage
      /\ recoveries = 0 /\ retryAttempt = 0 /\ ~overflowRecoveryAttempted
      /\ \A p \in Prompters : pc[p] = "idle"
  BY DEF Init
<1>2. KeepsSome(log)
  BY <1>1 DEF KeepsSome
<1>3. FailureOK
  BY <1>1 DEF FailureOK, IsFailed, IsReply, NoMessage
<1>4. BudgetOK
  BY <1>1 DEF BudgetOK, Spare
<1>5. OverflowOK
  BY <1>1 DEF OverflowOK
<1> QED
  BY <1>2, <1>3, <1>4, <1>5

\* What is spent is within the bound.
LEMMA BudgetIsEnough == ASSUME TypeOK, BudgetOK PROVE RecoveryIsBounded
<1>1. /\ MaxRetries \in Nat /\ recoveries \in Nat
      /\ Spare \in 0..(MaxRetries + 1)
      /\ retryAttempt \in 0..MaxRetries
  BY AgentSessionAssumption
     DEF AgentSessionAssumption, TypeOK, HistoryTypes, FieldTypes, Spare
<1> QED
  BY <1>1 DEF BudgetOK, RecoveryIsBounded

\* With one caller at a time, a session recovers a bounded number of times in a
\* row, whatever the model replies and whatever the owner does meanwhile: the
\* retries before the compaction of an overflow, that compaction, and the
\* retries after it (_prepareRetry, _checkCompaction, _runAutoCompaction).
THEOREM RecoveryEnds ==
  ASSUME OnePrompter PROVE Spec => []RecoveryIsBounded
<1>1. Init => /\ TypeOK /\ Control /\ SaveOK /\ ResultsOK /\ OpenOK
              /\ HeardOK /\ LatestOK
              /\ KeepsSome(log) /\ FailureOK /\ BudgetOK /\ OverflowOK
  BY InitTypes, InitCalls, InitReload, InitRecovery
<1>2. /\ TypeOK /\ Control /\ SaveOK /\ ResultsOK /\ OpenOK
      /\ HeardOK /\ LatestOK
      /\ KeepsSome(log) /\ FailureOK /\ BudgetOK /\ OverflowOK
      /\ [Next]_vars
      => (/\ TypeOK /\ Control /\ SaveOK /\ ResultsOK /\ OpenOK
          /\ HeardOK /\ LatestOK
          /\ KeepsSome(log) /\ FailureOK /\ BudgetOK /\ OverflowOK)'
  <2> SUFFICES ASSUME TypeOK, Control, SaveOK, ResultsOK, OpenOK, HeardOK,
                      LatestOK, KeepsSome(log), FailureOK, BudgetOK, OverflowOK,
                      [Next]_vars
               PROVE  (/\ TypeOK /\ Control /\ SaveOK /\ ResultsOK /\ OpenOK
                       /\ HeardOK /\ LatestOK /\ KeepsSome(log)
                       /\ FailureOK /\ BudgetOK /\ OverflowOK)'
    OBVIOUS
  <2>1. TypeOK' /\ Control'
    BY TypesPreserved
  <2>2. (SaveOK /\ ResultsOK /\ OpenOK)'
    BY SavePreserved, ResultsPreserved
  <2>3. (HeardOK /\ LatestOK)'
    BY HeardPreserved
  <2>4. (KeepsSome(log) /\ FailureOK)'
    BY KeepsPreserved, FailurePreserved
  <2>5. (BudgetOK /\ OverflowOK)'
    BY <2>1, BudgetPreserved
  <2> QED
    BY <2>1, <2>2, <2>3, <2>4, <2>5
<1>3. TypeOK /\ BudgetOK => RecoveryIsBounded
  BY BudgetIsEnough
<1> QED
  BY <1>1, <1>2, <1>3, PTL DEF Spec

=============================================================================
