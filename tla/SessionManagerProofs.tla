------------------------ MODULE SessionManagerProofs ------------------------
(***************************************************************************)
(* What TLAPS proves of SessionManager, for any number of entries, files   *)
(* and faults.  The operators it is built from are recursive functions: a  *)
(* fact about all their values is proved by taking the least counter-      *)
(* example.  The invariant SInv says what every file holds, and how it     *)
(* relates to what is in memory and to what was reported as written.       *)
(***************************************************************************)
EXTENDS SessionManager, SubsequencesProofs, FiniteSetTheorems

-----------------------------------------------------------------------------
(* Trees of entries, and their branches *)

\* An entry points to an older one, a label to some entry.
Points(e) == e.parent < e.id /\ (e.kind = "label" => e.ref \in Id)

\* Newer entries stand later.
Ascending(es) == \A i, j \in DOMAIN es : i < j => es[i].id < es[j].id

\* Every entry points to an older one.
EntriesPoint(es) == \A i \in DOMAIN es : Points(es[i])

\* The entries of a session.
Tree(es) == es \in Seq(Entry) /\ Ascending(es) /\ EntriesPoint(es)

\* The fields of an entry.
LEMMA EntryIs ==
  ASSUME NEW e \in Entry
  PROVE  /\ e.id \in Nat /\ e.id \in Id /\ e.parent \in Nat
         /\ e.parent \in {0} \union Id /\ e.ref \in {0} \union Id
              /\ e.kind \in Kind
  BY SessionManagerAssumption DEF SessionManagerAssumption, Entry, EntryOf, Id

\* The facts about a tree of entries that the steps below use.
LEMMA TreeIs ==
  ASSUME NEW es, Tree(es)
  PROVE  /\ Len(es) \in Nat /\ DOMAIN es = 1..Len(es)
         /\ \A i \in 1..Len(es) : es[i] \in Entry /\ es[i].id \in Nat
                                   /\ es[i].parent \in Nat /\ Points(es[i])
         /\ \A i, j \in 1..Len(es) : i < j => es[i].id < es[j].id
<1>1. es \in Seq(Entry) /\ Len(es) \in Nat /\ DOMAIN es = 1..Len(es)
  BY LenProperties DEF Tree
<1>2. \A i \in 1..Len(es) : es[i] \in Entry
  BY <1>1, ElementOfSeq
<1>3. \A i \in 1..Len(es) : es[i].id \in Nat /\ es[i].parent \in Nat
  BY <1>2, EntryIs
<1> QED
  BY <1>1, <1>2, <1>3 DEF Tree, Ascending, EntriesPoint

\* Position finds the only entry with this id.
LEMMA PositionIs ==
  ASSUME NEW es, Tree(es), NEW id
  PROVE  /\ Position(es, id) \in 0..Len(es)
         /\ Position(es, id) # 0 => es[Position(es, id)].id = id
         /\ id \in Ids(es) <=> Position(es, id) # 0
         /\ \A i \in 1..Len(es) : es[i].id = id => Position(es, id) = i
<1> DEFINE p == CHOOSE i \in 1..Len(es) : es[i].id = id
<1>1. /\ Len(es) \in Nat /\ DOMAIN es = 1..Len(es)
      /\ \A i \in 1..Len(es) : es[i].id \in Nat
      /\ \A i, j \in 1..Len(es) : i < j => es[i].id < es[j].id
  BY TreeIs
<1>2. Position(es, id) = IF id \in Ids(es) THEN p ELSE 0
  BY <1>1 DEF Position
<1>3. CASE id \in Ids(es)
  <2>1. \E i \in 1..Len(es) : es[i].id = id
    BY <1>1, <1>3 DEF Ids
  <2>2. p \in 1..Len(es) /\ es[p].id = id
    BY <2>1
  <2> HIDE DEF p
  <2>3. ASSUME NEW i \in 1..Len(es), es[i].id = id PROVE p = i
    <3>1. ~(p < i) /\ ~(i < p)
      BY <2>2, <2>3, <1>1
    <3> QED
      BY <3>1, <2>2
  <2>4. p # 0
    BY <2>2
  <2> QED
    BY <1>1, <1>2, <1>3, <2>2, <2>3, <2>4
<1>4. CASE id \notin Ids(es)
  <2>1. \A i \in 1..Len(es) : es[i].id # id
    BY <1>1, <1>4 DEF Ids
  <2> QED
    BY <1>1, <1>2, <1>4, <2>1
<1> QED
  BY <1>3, <1>4

\* The parent of an entry stands before it, if it is there.
LEMMA ParentIsBefore ==
  ASSUME NEW es, Tree(es), NEW i \in 1..Len(es)
  PROVE  Position(es, es[i].parent) \in 0..(i - 1)
<1> DEFINE p == Position(es, es[i].parent)
<1>1. /\ Len(es) \in Nat /\ es[i].id \in Nat /\ es[i].parent < es[i].id
      /\ es[i].parent \in Nat
      /\ \A j, k \in 1..Len(es) : j < k => es[j].id < es[k].id
      /\ \A j \in 1..Len(es) : es[j].id \in Nat
  BY TreeIs DEF Points
<1>2. p \in 0..Len(es) /\ (p # 0 => es[p].id = es[i].parent)
  BY PositionIs
<1> HIDE DEF p
<1>3. p # 0 => p < i
  <2> SUFFICES ASSUME p # 0, ~(p < i) PROVE FALSE
    OBVIOUS
  <2>1. p \in 1..Len(es) /\ es[p].id < es[i].id
    BY <1>1, <1>2
  <2>2. p = i \/ i < p
    BY <1>2
  <2> QED
    BY <2>1, <2>2, <1>1
<1>4. p \in 0..(i - 1)
  BY <1>1, <1>2, <1>3
<1> QED
  BY <1>4 DEF p

\* A function with the recursion of getBranch.
IsBranch(f, es, k) ==
    /\ f[0] = << >>
    /\ \A i \in 1..k : f[i] = Append(f[Position(es, es[i].parent)], es[i])

\* A function with the recursion of getBranch exists, ...
LEMMA BranchExists ==
  ASSUME NEW es, Tree(es), NEW k \in 0..Len(es)
  PROVE  \E f : IsBranch(f, es, k)
<1> DEFINE T == { n \in 0..Len(es) : ~(\E f : IsBranch(f, es, n)) }
<1> SUFFICES ASSUME T # {} PROVE FALSE
  OBVIOUS
<1>l. Len(es) \in Nat
  BY TreeIs
<1>0. T \in SUBSET Nat
  BY <1>l
<1>1. PICK m \in T : \A n \in T : m <= n
  <2> HIDE DEF T
  <2> QED
    BY <1>0, Least
<1>m. m \in 0..Len(es)
  OBVIOUS
<1>2. CASE m = 0
  <2> DEFINE g == [n \in {0} |-> << >>]
  <2>1. g[0] = << >>
    OBVIOUS
  <2>2. IsBranch(g, es, 0)
    BY <2>1 DEF IsBranch
  <2> QED
    BY <1>1, <1>2, <2>2
<1>3. CASE m # 0
  <2>1. m - 1 \in 0..Len(es) /\ m - 1 \notin T
    BY <1>1, <1>3, <1>l
  <2>2. PICK f : IsBranch(f, es, m - 1)
    BY <2>1
  <2> DEFINE p(i) == Position(es, es[i].parent)
  <2> DEFINE g == [n \in 0..m |-> IF n = m THEN Append(f[p(m)], es[m])
        ELSE f[n]]
  <2>3. g[m] = Append(f[p(m)], es[m]) /\ \A n \in 0..(m - 1) : g[n] = f[n]
    BY <1>m, <1>l, <1>3
  <2>p. \A i \in 1..m : p(i) \in 0..(i - 1)
    BY <1>m, <1>l, ParentIsBefore
  <2> HIDE DEF g, p
  <2>4. g[0] = << >>
    BY <2>2, <2>3, <1>m, <1>l, <1>3 DEF IsBranch
  <2>5. ASSUME NEW i \in 1..m PROVE g[i] = Append(g[p(i)], es[i])
    <3>1. p(i) \in 0..(m - 1)
      BY <2>p, <1>m, <1>l
    <3>2. g[p(i)] = f[p(i)]
      BY <2>3, <3>1
    <3>3. i # m => i \in 1..(m - 1) /\ i \in 0..(m - 1)
      BY <1>m, <1>l
    <3>4. i # m => f[i] = Append(f[p(i)], es[i])
      BY <2>2, <3>3 DEF IsBranch, p
    <3> QED
      BY <2>3, <3>2, <3>3, <3>4
  <2>6. IsBranch(g, es, m)
    BY <2>4, <2>5 DEF IsBranch, p
  <2> QED
    BY <2>6, <1>1
<1> QED
  BY <1>2, <1>3

\* ... and GetBranch takes its value from one.
LEMMA BranchIs ==
  ASSUME NEW es, Tree(es), NEW id
  PROVE  \E f : IsBranch(f, es, Len(es))
         /\ GetBranch(es, id) = f[Position(es, id)]
<1> DEFINE W(f) == [i \in 0..Len(es) |->
           IF i = 0 THEN << >>
           ELSE Append(f[Position(es, es[i].parent)], es[i])]
           P(f) == f = W(f)
           c == CHOOSE f : P(f)
<1>l. Len(es) \in Nat
  BY TreeIs
<1>1. \E f : P(f)
  <2>1. PICK h : IsBranch(h, es, Len(es))
    BY <1>l, BranchExists
  <2> DEFINE g == [n \in 0..Len(es) |-> h[n]]
  <2>2. ASSUME NEW n \in 0..Len(es) PROVE g[n] = W(g)[n]
    <3>1. CASE n = 0
      BY <3>1, <1>l, <2>1 DEF IsBranch
    <3>2. CASE n # 0
      <4>1. n \in 1..Len(es) /\ g[n] = h[n]
        BY <3>2, <1>l
      <4>2. Position(es, es[n].parent) \in 0..Len(es)
        BY <4>1, <1>l, ParentIsBefore
      <4>3. g[Position(es, es[n].parent)] = h[Position(es, es[n].parent)]
        BY <4>2
      <4>4. h[n] = Append(h[Position(es, es[n].parent)], es[n])
        BY <4>1, <2>1 DEF IsBranch
      <4>5. W(g)[n] = Append(g[Position(es, es[n].parent)], es[n])
        <5> HIDE DEF g
        <5> QED
          BY <3>2
      <4> HIDE DEF g, W
      <4> QED
        BY <4>1, <4>3, <4>4, <4>5
    <3> QED
      BY <3>1, <3>2
  <2>3. g = [n \in 0..Len(es) |-> g[n]]
    OBVIOUS
  <2> HIDE DEF g
  <2>4. W(g) = [n \in 0..Len(es) |-> W(g)[n]]
    OBVIOUS
  <2> HIDE DEF W
  <2>5. g = W(g)
    BY <2>2, <2>3, <2>4
  <2> QED
    BY <2>5
<1>2. P(c)
  <2> HIDE DEF P
  <2> QED
    BY <1>1
<1>3. GetBranch(es, id) = c[Position(es, id)]
  BY DEF GetBranch
<1>4. IsBranch(c, es, Len(es))
  <2>1. \A n \in 0..Len(es) : W(c)[n] = IF n = 0 THEN << >>
           ELSE Append(c[Position(es, es[n].parent)], es[n])
    <3> HIDE DEF c
    <3> QED
      OBVIOUS
  <2>2. c = W(c)
    BY <1>2
  <2> HIDE DEF c, W
  <2>3. c[0] = << >>
    BY <2>1, <2>2, <1>l
  <2>4. \A n \in 1..Len(es) : c[n] = Append(c[Position(es, es[n].parent)],
        es[n])
    <3> TAKE n \in 1..Len(es)
    <3>1. n \in 0..Len(es) /\ n # 0
      BY <1>l
    <3> QED
      BY <2>1, <2>2, <3>1
  <2> QED
    BY <2>3, <2>4 DEF IsBranch
<1> QED
  BY <1>3, <1>4

\* The branch that ends in the i-th entry.
BranchOf(b, es, i) ==
    /\ b \in Seq(Entry) /\ b # << >> /\ b[Len(b)] = es[i]
    /\ \A k \in 1..Len(b) : \E j \in 1..i : b[k] = es[j]
    /\ \A j, k \in 1..Len(b) : j < k => b[j].id < b[k].id
    /\ \A k \in 2..Len(b) : b[k].parent = b[k - 1].id
    /\ Position(es, b[1].parent) = 0

\* The branch of an entry without a parent, ...
LEMMA BranchStarts ==
  ASSUME NEW es, Tree(es), NEW i \in 1..Len(es), Position(es, es[i].parent) = 0
  PROVE  BranchOf(Append(<< >>, es[i]), es, i)
<1> DEFINE b == Append(<< >>, es[i])
<1>1. es[i] \in Entry /\ << >> \in Seq(Entry) /\ Len(<< >>) = 0
  BY TreeIs
<1>2. b \in Seq(Entry) /\ b # << >> /\ Len(b) = 1 /\ b[1] = es[i]
  BY <1>1, AppendProperties
<1> HIDE DEF b
<1>3. \A k \in 1..Len(b) : k = 1
  BY <1>2
<1>4. \A k \in 1..Len(b) : \E j \in 1..i : b[k] = es[j]
  BY <1>2, <1>3
<1>5. \A k \in 2..Len(b) : FALSE
  BY <1>2
<1>6. \A j, k \in 1..Len(b) : j < k => b[j].id < b[k].id
  BY <1>3
<1>7. BranchOf(b, es, i)
  BY <1>2, <1>4, <1>5, <1>6 DEF BranchOf
<1> QED
  BY <1>7 DEF b

\* ... that of an entry with one, ...
LEMMA BranchGrows ==
  ASSUME NEW es, Tree(es), NEW i \in 1..Len(es), NEW b,
         NEW p \in 1..(i - 1), p = Position(es, es[i].parent),
             BranchOf(b, es, p)
  PROVE  BranchOf(Append(b, es[i]), es, i)
<1> DEFINE c == Append(b, es[i])
<1>1. /\ Len(es) \in Nat /\ es[i] \in Entry
      /\ \A j, k \in 1..Len(es) : j < k => es[j].id < es[k].id
      /\ \A j \in 1..Len(es) : es[j].id \in Nat
  BY TreeIs
<1>2. /\ b \in Seq(Entry) /\ b # << >> /\ b[Len(b)] = es[p]
      /\ \A k \in 1..Len(b) : \E j \in 1..p : b[k] = es[j]
      /\ \A j, k \in 1..Len(b) : j < k => b[j].id < b[k].id
      /\ \A k \in 2..Len(b) : b[k].parent = b[k - 1].id
      /\ Position(es, b[1].parent) = 0
  BY DEF BranchOf
<1>3. /\ c \in Seq(Entry) /\ c # << >> /\ Len(c) = Len(b) + 1
         /\ c[Len(b) + 1] = es[i]
      /\ \A k \in 1..Len(b) : c[k] = b[k]
  BY <1>1, <1>2, AppendProperties
<1>4. Len(b) \in Nat /\ Len(b) > 0
  BY <1>2
<1>5. es[i].parent = es[p].id
  BY PositionIs
<1> HIDE DEF c
<1>6. \A k \in 1..Len(c) : \E j \in 1..i : c[k] = es[j]
  <2> SUFFICES ASSUME NEW k \in 1..Len(c) PROVE \E j \in 1..i : c[k] = es[j]
    OBVIOUS
  <2>1. CASE k = Len(b) + 1
    BY <2>1, <1>3
  <2>2. CASE k \in 1..Len(b)
    <3>1. PICK j \in 1..p : b[k] = es[j]
      BY <2>2, <1>2
    <3> QED
      BY <2>2, <3>1, <1>3
  <2> QED
    BY <2>1, <2>2, <1>3, <1>4
<1>7. \A j, k \in 1..Len(c) : j < k => c[j].id < c[k].id
  <2> SUFFICES ASSUME NEW j \in 1..Len(c), NEW k \in 1..Len(c), j < k
               PROVE  c[j].id < c[k].id
    OBVIOUS
  <2>0. j \in 1..Len(b) /\ (k = Len(b) + 1 \/ k \in 1..Len(b))
    BY <1>3, <1>4
  <2>1. CASE k = Len(b) + 1
    <3>1. PICK n \in 1..p : b[j] = es[n]
      BY <2>0, <1>2
    <3>2. n \in 1..Len(es) /\ n < i
      BY <1>1
    <3>3. es[n].id < es[i].id
      BY <3>2, <1>1
    <3> QED
      BY <2>0, <2>1, <3>1, <3>3, <1>3
  <2>2. CASE k \in 1..Len(b)
    BY <2>0, <2>2, <1>2, <1>3
  <2> QED
    BY <2>0, <2>1, <2>2
<1>8. \A k \in 2..Len(c) : c[k].parent = c[k - 1].id
  <2> SUFFICES ASSUME NEW k \in 2..Len(c) PROVE c[k].parent = c[k - 1].id
    OBVIOUS
  <2>0. k - 1 \in 1..Len(b) /\ (k = Len(b) + 1 \/ k \in 2..Len(b))
    BY <1>3, <1>4
  <2>1. CASE k = Len(b) + 1
    <3>1. c[k] = es[i] /\ c[k - 1] = b[Len(b)]
      BY <2>0, <2>1, <1>3, <1>4
    <3> QED
      BY <3>1, <1>2, <1>5
  <2>2. CASE k \in 2..Len(b)
    <3>1. c[k] = b[k] /\ c[k - 1] = b[k - 1]
      BY <2>0, <2>2, <1>3, <1>4
    <3> QED
      BY <3>1, <2>2, <1>2
  <2> QED
    BY <2>0, <2>1, <2>2
<1>9. c[1] = b[1] /\ c[Len(c)] = es[i]
  BY <1>3, <1>4
<1>10. BranchOf(c, es, i)
  BY <1>2, <1>3, <1>6, <1>7, <1>8, <1>9 DEF BranchOf
<1> QED
  BY <1>10 DEF c

\* ... and so, along the tree, of every entry.
LEMMA BranchFacts ==
  ASSUME NEW es, Tree(es), NEW f, IsBranch(f, es, Len(es))
  PROVE  \A i \in 1..Len(es) : BranchOf(f[i], es, i)
<1> DEFINE T == { i \in 1..Len(es) : ~BranchOf(f[i], es, i) }
<1> SUFFICES ASSUME T # {} PROVE FALSE
  OBVIOUS
<1>l. Len(es) \in Nat
  BY TreeIs
<1>0. T \in SUBSET Nat
  BY <1>l
<1>1. PICK i \in T : \A n \in T : i <= n
  <2> HIDE DEF T
  <2> QED
    BY <1>0, Least
<1>2. i \in 1..Len(es) /\ ~BranchOf(f[i], es, i)
  BY <1>1
<1> DEFINE p == Position(es, es[i].parent)
<1>3. p \in 0..(i - 1)
  BY <1>2, ParentIsBefore
<1>4. f[i] = Append(f[p], es[i]) /\ f[0] = << >>
  BY <1>2 DEF IsBranch
<1>5. CASE p = 0
  <2>1. f[p] = << >>
    BY <1>4, <1>5
  <2>2. BranchOf(Append(<< >>, es[i]), es, i)
    BY <1>2, <1>5, BranchStarts
  <2> HIDE DEF T, p
  <2> QED
    BY <1>2, <1>4, <2>1, <2>2
<1>6. CASE p # 0
  <2>1. p \in 1..(i - 1) /\ p \in 1..Len(es) /\ ~(i <= p)
    BY <1>2, <1>3, <1>6, <1>l
  <2>2. BranchOf(f[p], es, p)
    BY <2>1, <1>1
  <2>3. BranchOf(Append(f[p], es[i]), es, i)
    BY <1>2, <2>1, <2>2, BranchGrows
  <2> HIDE DEF T, p
  <2> QED
    BY <1>2, <1>4, <2>3
<1> QED
  BY <1>5, <1>6

\* A branch is a tree of entries of the session.
LEMMA BranchTree ==
  ASSUME NEW es, Tree(es), NEW b, NEW i \in 1..Len(es), BranchOf(b, es, i)
  PROVE  /\ Tree(b) /\ Ids(b) \subseteq Ids(es)
         /\ \A k \in 1..Len(b) : \E j \in 1..Len(es) : b[k] = es[j]
<1>1. /\ Len(es) \in Nat /\ DOMAIN es = 1..Len(es)
      /\ \A j \in 1..Len(es) : Points(es[j])
  BY TreeIs
<1>2. /\ b \in Seq(Entry)
      /\ \A k \in 1..Len(b) : \E j \in 1..i : b[k] = es[j]
      /\ \A j, k \in 1..Len(b) : j < k => b[j].id < b[k].id
  BY DEF BranchOf
<1>3. DOMAIN b = 1..Len(b)
  BY <1>2
<1>4. \A k \in 1..Len(b) : \E j \in 1..Len(es) : b[k] = es[j]
  BY <1>1, <1>2
<1>5. \A k \in 1..Len(b) : Points(b[k])
  BY <1>1, <1>4
<1>6. Tree(b)
  BY <1>2, <1>3, <1>5 DEF Tree, Ascending, EntriesPoint
<1>7. Ids(b) \subseteq Ids(es)
  BY <1>1, <1>3, <1>4 DEF Ids
<1> QED
  BY <1>4, <1>6, <1>7

\* What getBranch returns.
LEMMA GetBranchIs ==
  ASSUME NEW es, Tree(es), NEW id
  PROVE  LET b == GetBranch(es, id)
         IN  /\ Tree(b) /\ Ids(b) \subseteq Ids(es)
             /\ \A k \in 1..Len(b) : \E j \in 1..Len(es) : b[k] = es[j]
             /\ id \in Ids(es) => BranchOf(b, es, Position(es, id))
             /\ id \notin Ids(es) => b = << >>
<1> DEFINE p == Position(es, id)
<1>1. PICK f : IsBranch(f, es, Len(es)) /\ GetBranch(es, id) = f[p]
  BY BranchIs
<1>2. p \in 0..Len(es) /\ (id \in Ids(es) <=> p # 0) /\ Len(es) \in Nat
  BY PositionIs, TreeIs
<1>3. CASE p = 0
  <2>1. GetBranch(es, id) = << >> /\ id \notin Ids(es)
    BY <1>1, <1>2, <1>3 DEF IsBranch
  <2>2. << >> \in Seq(Entry) /\ DOMAIN << >> = {}
        /\ \A k \in 1..Len(<< >>) : FALSE
    OBVIOUS
  <2>3. Tree(<< >>) /\ Ids(<< >>) = {}
    BY <2>2 DEF Tree, Ascending, EntriesPoint, Ids
  <2> QED
    BY <2>1, <2>2, <2>3
<1>4. CASE p # 0
  <2>1. p \in 1..Len(es)
    BY <1>2, <1>4
  <2>2. BranchOf(f[p], es, p)
    BY <1>1, <2>1, BranchFacts
  <2> HIDE DEF p
  <2>3. /\ Tree(f[p]) /\ Ids(f[p]) \subseteq Ids(es)
        /\ \A k \in 1..Len(f[p]) : \E j \in 1..Len(es) : f[p][k] = es[j]
    BY <2>1, <2>2, BranchTree
  <2> QED
    BY <1>1, <1>2, <1>4, <2>2, <2>3 DEF p
<1> QED
  BY <1>3, <1>4

-----------------------------------------------------------------------------
(* The lines of a file *)

\* The lines can be told apart by their kind, ...
LEMMA LineKinds ==
  /\ Header.kind = "session" /\ Half.kind = "half" /\ Garbage.kind = "garbage"
  /\ \A e \in Entry : e.kind \in Kind
  /\ \A l : Unended(l).kind = "unended" /\ Unended(l).line = l
  BY DEF Header, Half, Garbage, Entry, EntryOf, Unended

\* ... also once they are parsed.
LEMMA ParsedIs ==
  /\ Parsed(Header) = Header /\ Header \notin Entry
  /\ Parsed(Half) = Half /\ Half \notin Entry /\ Half # Header
  /\ Parsed(Garbage) = Garbage /\ Garbage \notin Entry /\ Garbage # Header
  /\ \A e \in Entry : Parsed(e) = e /\ e # Header
  /\ \A l : Parsed(Unended(l)) = l
<1>1. /\ "session" \notin Kind /\ "half" \notin Kind /\ "garbage" \notin Kind
      /\ "unended" \notin Kind
  BY DEF Kind
<1> QED
  BY <1>1, LineKinds DEF Parsed

\* What a line may be.
LEMMA LineCases ==
  ASSUME NEW l \in Line
  PROVE  \/ l \in Entry \/ l = Header \/ l = Half \/ l = Garbage
         \/ \E w \in Lines : l = Unended(w)
  BY DEF Line, Lines

\* The lines of a file, each parsed, ...
Read(lines) == [i \in DOMAIN lines |-> Parsed(lines[i])]

\* ... and the entries among them.
Kept(lines) == Only(Read(lines), Entry)

\* What lines parse to.
Reads == Entry \union {Header, Half, Garbage}

\* What a line parses to.
LEMMA ReadsParsed == ASSUME NEW l \in Line PROVE Parsed(l) \in Reads
  BY LineCases, ParsedIs DEF Reads, Lines

\* The lines of a file, parsed, ...
LEMMA ReadType ==
  ASSUME NEW lines \in Seq(Line)
  PROVE  /\ Read(lines) \in Seq(Reads) /\ Len(Read(lines)) = Len(lines)
         /\ \A i \in 1..Len(lines) : Read(lines)[i] = Parsed(lines[i])
<1>1. DOMAIN lines = 1..Len(lines) /\ Len(lines) \in Nat
  OBVIOUS
<1>2. \A i \in 1..Len(lines) : Parsed(lines[i]) \in Reads
  BY ReadsParsed, ElementOfSeq
<1>3. Read(lines) = [i \in 1..Len(lines) |-> Parsed(lines[i])]
  BY <1>1 DEF Read
<1>4. Read(lines) \in [1..Len(lines) -> Reads]
  BY <1>2, <1>3
<1>5. Read(lines) \in Seq(Reads) /\ Len(Read(lines)) = Len(lines)
  BY <1>1, <1>4
<1> QED
  BY <1>3, <1>5

\* ... with one more line.
LEMMA ReadAppend ==
  ASSUME NEW lines \in Seq(Line), NEW l \in Line
  PROVE  Read(Append(lines, l)) = Append(Read(lines), Parsed(l))
<1> DEFINE a == Append(lines, l)
           r == Append(Read(lines), Parsed(l))
<1>1. /\ a \in Seq(Line) /\ Len(a) = Len(lines) + 1 /\ a[Len(lines) + 1] = l
      /\ \A i \in 1..Len(lines) : a[i] = lines[i]
      /\ Len(lines) \in Nat
  BY AppendProperties
<1>2. /\ Read(lines) \in Seq(Reads) /\ Len(Read(lines)) = Len(lines)
      /\ \A i \in 1..Len(lines) : Read(lines)[i] = Parsed(lines[i])
  BY ReadType
<1>3. Parsed(l) \in Reads
  BY ReadsParsed
<1>4. /\ r \in Seq(Reads) /\ Len(r) = Len(lines) + 1
         /\ r[Len(lines) + 1] = Parsed(l)
      /\ \A i \in 1..Len(lines) : r[i] = Parsed(lines[i])
  BY <1>2, <1>3, AppendProperties
<1> HIDE DEF a, r
<1>5. /\ Read(a) \in Seq(Reads) /\ Len(Read(a)) = Len(lines) + 1
      /\ \A i \in 1..Len(a) : Read(a)[i] = Parsed(a[i])
  BY <1>1, ReadType
<1>6. \A i \in 1..(Len(lines) + 1) : i = Len(lines) + 1 \/ i \in 1..Len(lines)
  BY <1>1
<1>7. \A i \in 1..(Len(lines) + 1) : Read(a)[i] = r[i]
  BY <1>1, <1>4, <1>5, <1>6
<1>8. Read(a) = r
  BY <1>4, <1>5, <1>7, SeqEqual
<1> QED
  BY <1>8 DEF a, r

\* The entries of an empty file, ...
LEMMA KeptNil == Kept(<< >>) = << >>
<1>1. Read(<< >>) = << >>
  BY DEF Read
<1> QED
  BY <1>1, OnlyNil DEF Kept

\* ... of a file with one more line, ...
LEMMA KeptAppend ==
  ASSUME NEW lines \in Seq(Line), NEW l \in Line
  PROVE  Kept(Append(lines, l)) = OneMore(Kept(lines), Parsed(l), Entry)
<1>1. Read(lines) \in Seq(Reads) /\ Parsed(l) \in Reads
  BY ReadType, ReadsParsed
<1> QED
  BY <1>1, ReadAppend, OnlyAppend DEF Kept

\* ... of any file.
LEMMA KeptType ==
  ASSUME NEW lines \in Seq(Line)
  PROVE  Kept(lines) \in Seq(Entry)
  BY ReadType, OnlyType DEF Kept

\* The lines of a whole file.
WholeFile(es) == << Header >> \o es

\* The lines of a whole file one by one, ...
LEMMA WholeFileIs ==
  ASSUME NEW es \in Seq(Entry)
  PROVE  /\ WholeFile(es) \in Seq(Lines) /\ WholeFile(es) \in Seq(Line)
         /\ Len(WholeFile(es)) = Len(es) + 1 /\ WholeFile(es)[1] = Header
         /\ \A i \in 2..(Len(es) + 1) : /\ WholeFile(es)[i] = es[i - 1]
                                        /\ WholeFile(es)[i] \in Entry
<1>1. << Header >> \in Seq(Lines) /\ es \in Seq(Lines) /\ Len(<< Header >>) = 1
  BY SeqMonotonic DEF Lines
<1>2. /\ WholeFile(es) \in Seq(Lines) /\ Len(WholeFile(es)) = 1 + Len(es)
      /\ \A i \in 1..(1 + Len(es)) :
           WholeFile(es)[i] = IF i <= 1 THEN << Header >>[i] ELSE es[i - 1]
  BY <1>1, ConcatProperties DEF WholeFile
<1>3. WholeFile(es) \in Seq(Line)
  <2>1. Lines \subseteq Line
    BY DEF Line
  <2> QED
    BY <1>2, <2>1, SeqMonotonic
<1>4. Len(es) \in Nat
  OBVIOUS
<1>5. \A i \in 2..(Len(es) + 1) : i - 1 \in 1..Len(es) /\ es[i - 1] \in Entry
  <2> TAKE i \in 2..(Len(es) + 1)
  <2>1. i - 1 \in 1..Len(es)
    BY <1>4
  <2> QED
    BY <2>1, ElementOfSeq
<1>6. WholeFile(es)[1] = Header
  BY <1>2, <1>4
<1>7. \A i \in 2..(Len(es) + 1) : WholeFile(es)[i] = es[i - 1]
  BY <1>2, <1>4
<1> QED
  BY <1>2, <1>3, <1>4, <1>5, <1>6, <1>7

\* ... and its entries.
LEMMA KeptWhole ==
  ASSUME NEW es \in Seq(Entry)
  PROVE  Kept(WholeFile(es)) = es
<1> DEFINE w == WholeFile(es)
<1>1. /\ w \in Seq(Line) /\ Len(w) = Len(es) + 1 /\ w[1] = Header
         /\ Len(es) \in Nat
      /\ \A i \in 2..(Len(es) + 1) : w[i] = es[i - 1] /\ w[i] \in Entry
  BY WholeFileIs
<1>h. << Header >> \in Seq(Reads) /\ es \in Seq(Reads) /\ Len(<< Header >>) = 1
  BY SeqMonotonic DEF Reads
<1>2. Read(w) = << Header >> \o es
  <2> DEFINE h == << Header >> \o es
  <2>1. /\ h \in Seq(Reads) /\ Len(h) = 1 + Len(es)
        /\ \A i \in 1..(1 + Len(es)) : h[i] = IF i <= 1
             THEN << Header >>[i] ELSE es[i - 1]
    BY <1>h, ConcatProperties
  <2>2. /\ Read(w) \in Seq(Reads) /\ Len(Read(w)) = Len(es) + 1
        /\ \A i \in 1..Len(w) : Read(w)[i] = Parsed(w[i])
    BY <1>1, ReadType
  <2> HIDE DEF w, h
  <2>3. ASSUME NEW i \in 1..(Len(es) + 1) PROVE Read(w)[i] = h[i]
    <3>1. CASE i = 1
      <4>1. h[1] = Header
        BY <2>1, <1>1
      <4> QED
        BY <3>1, <4>1, <2>2, <1>1, ParsedIs
    <3>2. CASE i \in 2..(Len(es) + 1)
      <4>1. h[i] = es[i - 1]
        BY <3>2, <2>1, <1>1
      <4>2. Read(w)[i] = Parsed(w[i]) /\ w[i] \in Entry /\ w[i] = es[i - 1]
        BY <3>2, <2>2, <1>1
      <4> QED
        BY <4>1, <4>2, ParsedIs
    <3> QED
      BY <3>1, <3>2, <1>1
  <2>4. Len(h) = Len(Read(w)) /\ Len(h) = Len(es) + 1
    BY <2>1, <2>2, <1>1
  <2>5. Read(w) = h
    BY <2>1, <2>2, <2>3, <2>4, SeqEqual
  <2> QED
    BY <2>5 DEF h
<1> DEFINE h == << Header >>
<1>3. Only(h \o es, Entry) = Only(h, Entry) \o Only(es, Entry)
  <2> HIDE DEF h
  <2>1. h \in Seq(Reads) /\ es \in Seq(Reads)
    BY <1>h DEF h
  <2> QED
    BY <2>1, OnlyConcat
<1>4. Only(<< Header >>, Entry) = << >>
  <2>1. << Header >> = Append(<< >>, Header) /\ << >> \in Seq(Reads)
        /\ Header \in Reads
    BY DEF Reads
  <2>2. Only(Append(<< >>, Header), Entry) = OneMore(Only(<< >>, Entry),
        Header, Entry)
    BY <2>1, OnlyAppend
  <2> QED
    BY <2>1, <2>2, OnlyNil, ParsedIs DEF OneMore
<1>5. Only(es, Entry) = es
  BY OnlyAll
<1>6. << >> \o es = es
  BY ConcatEmptySeq
<1> QED
  BY <1>2, <1>3, <1>4, <1>5, <1>6 DEF Kept

\* A newer entry at its end makes a tree a tree again, ...
LEMMA TreeAppend ==
  ASSUME NEW es, Tree(es), NEW e \in Entry, Points(e),
         \A i \in 1..Len(es) : es[i].id < e.id
  PROVE  /\ Tree(Append(es, e)) /\ Ids(Append(es, e)) = Ids(es) \union {e.id}
<1> DEFINE a == Append(es, e)
<1>1. es \in Seq(Entry) /\ Len(es) \in Nat /\ DOMAIN es = 1..Len(es)
  BY TreeIs DEF Tree
<1>2. /\ a \in Seq(Entry) /\ Len(a) = Len(es) + 1 /\ a[Len(es) + 1] = e
      /\ \A i \in 1..Len(es) : a[i] = es[i]
  BY <1>1, AppendProperties
<1> HIDE DEF a
<1>3. DOMAIN a = 1..(Len(es) + 1)
      /\ 1..(Len(es) + 1) = 1..Len(es) \union {Len(es) + 1}
  BY <1>1, <1>2
<1>4. ASSUME NEW i \in DOMAIN a, NEW j \in DOMAIN a, i < j
      PROVE  a[i].id < a[j].id
  <2>1. i \in 1..Len(es)
    BY <1>1, <1>3, <1>4
  <2>2. CASE j \in 1..Len(es)
    BY <2>1, <2>2, <1>2, <1>4, TreeIs
  <2>3. CASE j = Len(es) + 1
    BY <2>1, <2>3, <1>2
  <2> QED
    BY <2>2, <2>3, <1>3
<1>5. \A i \in DOMAIN a : Points(a[i])
  BY <1>2, <1>3, TreeIs
<1>6. Ids(a) = Ids(es) \union {e.id}
  <2>1. Ids(a) = { a[i].id : i \in 1..Len(es) \union {Len(es) + 1} }
    BY <1>3 DEF Ids
  <2>2. Ids(es) = { es[i].id : i \in 1..Len(es) }
    BY <1>1 DEF Ids
  <2> QED
    BY <2>1, <2>2, <1>2
<1>7. Tree(a)
  BY <1>2, <1>4, <1>5 DEF Tree, Ascending, EntriesPoint
<1> QED
  BY <1>6, <1>7 DEF a

\* ... before it there was one, ...
LEMMA TreeBefore ==
  ASSUME NEW es \in Seq(Entry), NEW e \in Entry, Tree(Append(es, e))
  PROVE  /\ Tree(es) /\ Points(e) /\ \A i \in 1..Len(es) : es[i].id < e.id
         /\ Ids(Append(es, e)) = Ids(es) \union {e.id}
<1> DEFINE a == Append(es, e)
<1>1. /\ a \in Seq(Entry) /\ Len(a) = Len(es) + 1 /\ a[Len(es) + 1] = e
      /\ \A i \in 1..Len(es) : a[i] = es[i]
      /\ Len(es) \in Nat /\ DOMAIN es = 1..Len(es)
  BY AppendProperties
<1>2. /\ \A i \in 1..Len(a) : Points(a[i])
      /\ \A i, j \in 1..Len(a) : i < j => a[i].id < a[j].id
  BY TreeIs
<1> HIDE DEF a
<1>3. /\ Len(es) + 1 \in 1..Len(a)
      /\ \A i \in 1..Len(es) : i \in 1..Len(a) /\ i < Len(es) + 1
  BY <1>1
<1>4. Points(e) /\ \A i \in 1..Len(es) : es[i].id < e.id
  BY <1>1, <1>2, <1>3
<1>5. \A i, j \in 1..Len(es) : i < j => es[i].id < es[j].id
  BY <1>1, <1>2, <1>3
<1>6. \A i \in 1..Len(es) : Points(es[i])
  BY <1>1, <1>2, <1>3
<1>7. Tree(es)
  BY <1>1, <1>5, <1>6 DEF Tree, Ascending, EntriesPoint
<1> QED
  BY <1>4, <1>7, TreeAppend

\* ... the empty one is one, ...
LEMMA TreeNil == Tree(<< >>) /\ Ids(<< >>) = {}
<1>1. << >> \in Seq(Entry) /\ DOMAIN << >> = {}
  OBVIOUS
<1> QED
  BY <1>1 DEF Tree, Ascending, EntriesPoint, Ids

\* ... and so is every beginning.
LEMMA TreePart ==
  ASSUME NEW es, Tree(es), NEW n \in 0..Len(es)
  PROVE  /\ Tree(SubSeq(es, 1, n)) /\ Len(SubSeq(es, 1, n)) = n
         /\ \A i \in 1..n : SubSeq(es, 1, n)[i] = es[i]
<1>1. /\ es \in Seq(Entry) /\ Len(es) \in Nat
      /\ \A i \in 1..Len(es) : es[i] \in Entry /\ Points(es[i])
      /\ \A i, j \in 1..Len(es) : i < j => es[i].id < es[j].id
  BY TreeIs DEF Tree
<1> DEFINE p == SubSeq(es, 1, n)
<1>2. p \in Seq(Entry) /\ Len(p) = n /\ \A i \in 1..n : p[i] = es[i]
  <2>1. \A i \in 1..n : es[i] \in Entry
    BY <1>1
  <2>2. /\ p \in Seq(Entry) /\ Len(p) = IF 1 <= n THEN n - 1 + 1 ELSE 0
        /\ \A i \in 1..(n - 1 + 1) : p[i] = es[1 + i - 1]
    BY <2>1, <1>1, SubSeqProperties
  <2> HIDE DEF p
  <2>3. n \in Nat
    BY <1>1
  <2>4. Len(p) = n
    BY <2>2, <2>3
  <2>5. \A i \in 1..n : p[i] = es[i]
    BY <2>2, <2>3
  <2> QED
    BY <2>2, <2>4, <2>5
<1> HIDE DEF p
<1>3. DOMAIN p = 1..n /\ \A i \in 1..n : i \in 1..Len(es)
  BY <1>1, <1>2
<1>4. Tree(p)
  BY <1>1, <1>2, <1>3 DEF Tree, Ascending, EntriesPoint
<1> QED
  BY <1>2, <1>4 DEF p

\* What every file is: at most its first line is a header, only the last line
\* has not ended, and its entries are a tree of ids in use.
Sound(lines, n) ==
    /\ lines \in Seq(Line)
    /\ \A i \in 1..Len(lines) : Parsed(lines[i]) = Header => i = 1
    /\ \A i \in 1..Len(lines) :
         lines[i].kind \in {"half", "unended"} => i = Len(lines)
    /\ Tree(Kept(lines))
    /\ \A k \in 1..Len(Kept(lines)) : Kept(lines)[k].id < n

\* An empty file is sound.
LEMMA SoundNil == ASSUME NEW n PROVE Sound(<< >>, n) /\ ~EndsOpen(<< >>)
<1>1. << >> \in Seq(Line) /\ Len(<< >>) = 0
  OBVIOUS
<1> QED
  BY <1>1, KeptNil, TreeNil DEF Sound, EndsOpen

\* It stays sound when more ids are in use.
LEMMA SoundMore ==
  ASSUME NEW n \in Nat, NEW m \in Nat, n <= m, NEW lines, Sound(lines, n)
  PROVE  Sound(lines, m)
<1>1. \A k \in 1..Len(Kept(lines)) : Kept(lines)[k].id \in Nat
  BY TreeIs DEF Sound
<1> QED
  BY <1>1 DEF Sound

\* It stays sound with one more line, an entry that is newer or the header.
LEMMA SoundPlus ==
  ASSUME NEW lines, NEW n \in Nat, NEW m \in Nat, Sound(lines, n), n <= m,
         ~EndsOpen(lines),
         NEW l \in Line, Parsed(l) = Header => lines = << >>,
         Parsed(l) \in Entry => /\ Points(Parsed(l))
                                /\ n <= Parsed(l).id /\ Parsed(l).id < m
  PROVE  Sound(Append(lines, l), m)
<1> DEFINE a == Append(lines, l)
<1>1. lines \in Seq(Line) /\ Len(lines) \in Nat /\ Tree(Kept(lines))
  BY DEF Sound
<1>2. /\ a \in Seq(Line) /\ Len(a) = Len(lines) + 1 /\ a[Len(lines) + 1] = l
      /\ \A i \in 1..Len(lines) : a[i] = lines[i]
      /\ Kept(a) = OneMore(Kept(lines), Parsed(l), Entry)
  BY <1>1, AppendProperties, KeptAppend
<1> HIDE DEF a
<1>3. \A i \in 1..Len(a) : i = Len(lines) + 1 \/ i \in 1..Len(lines)
  BY <1>1, <1>2
<1>4. ASSUME NEW i \in 1..Len(a), Parsed(a[i]) = Header PROVE i = 1
  <2>1. CASE i = Len(lines) + 1
    BY <2>1, <1>2, <1>4
  <2>2. CASE i \in 1..Len(lines)
    BY <2>2, <1>2, <1>4 DEF Sound
  <2> QED
    BY <2>1, <2>2, <1>3
<1>5. ASSUME NEW i \in 1..Len(a), a[i].kind \in {"half", "unended"}
      PROVE  i = Len(a)
  <2>1. CASE i \in 1..Len(lines)
    <3>1. lines[i].kind \in {"half", "unended"} /\ i = Len(lines)
          /\ lines # << >>
      BY <2>1, <1>2, <1>5 DEF Sound
    <3> QED
      BY <3>1 DEF EndsOpen, Last
  <2> QED
    BY <2>1, <1>2, <1>3
<1>6. /\ \A k \in 1..Len(Kept(lines)) : Kept(lines)[k].id < n
      /\ \A k \in 1..Len(Kept(lines)) : Kept(lines)[k].id \in Nat
      /\ Len(Kept(lines)) \in Nat /\ Kept(lines) \in Seq(Entry)
  BY <1>1, TreeIs DEF Sound, Tree
<1>7. Tree(Kept(a)) /\ \A k \in 1..Len(Kept(a)) : Kept(a)[k].id < m
  <2>1. CASE Parsed(l) \in Entry
    <3> DEFINE e == Parsed(l)
    <3>0. e \in Entry /\ e.id \in Nat /\ Points(e) /\ n <= e.id /\ e.id < m
      BY <2>1, EntryIs
    <3>1. Kept(a) = Append(Kept(lines), e)
      BY <2>1, <1>2 DEF OneMore
    <3> HIDE DEF e
    <3>2. \A k \in 1..Len(Kept(lines)) : Kept(lines)[k].id < e.id
      BY <3>0, <1>6
    <3>3. Tree(Append(Kept(lines), e))
      BY <3>0, <3>2, <1>1, TreeAppend
    <3>4. /\ Len(Append(Kept(lines), e)) = Len(Kept(lines)) + 1
          /\ Append(Kept(lines), e)[Len(Kept(lines)) + 1] = e
          /\ \A k \in 1..Len(Kept(lines)) :
               Append(Kept(lines), e)[k] = Kept(lines)[k]
      BY <3>0, <1>6, AppendProperties
    <3>5. \A k \in 1..(Len(Kept(lines)) + 1) :
             k = Len(Kept(lines)) + 1 \/ k \in 1..Len(Kept(lines))
      BY <1>6
    <3>6. \A k \in 1..Len(Kept(lines)) : Kept(lines)[k].id < m
      BY <1>6
    <3> QED
      BY <3>0, <3>1, <3>3, <3>4, <3>5, <3>6
  <2>2. CASE Parsed(l) \notin Entry
    <3>1. Kept(a) = Kept(lines)
      BY <2>2, <1>2 DEF OneMore
    <3> QED
      BY <3>1, <1>1, <1>6
  <2> QED
    BY <2>1, <2>2
<1>8. Sound(a, m)
  BY <1>2, <1>4, <1>5, <1>7 DEF Sound
<1> QED
  BY <1>8 DEF a

\* A sound file without its last line.
LEMMA SoundFront ==
  ASSUME NEW lines, NEW n, Sound(lines, n), lines # << >>
  PROVE  /\ Front(lines) \in Seq(Line) /\ Last(lines) \in Line
         /\ lines = Append(Front(lines), Last(lines))
         /\ Kept(lines) = OneMore(Kept(Front(lines)), Parsed(Last(lines)),
              Entry)
         /\ Sound(Front(lines), n) /\ ~EndsOpen(Front(lines))
<1> DEFINE r == Front(lines)
           l == Last(lines)
<1>0. lines \in Seq(Line) /\ Len(lines) \in Nat /\ Len(lines) > 0
  BY DEF Sound
<1>1. l \in Line
  BY <1>0, ElementOfSeq DEF Last
<1>2. /\ r \in Seq(Line) /\ Len(r) = Len(lines) - 1
      /\ \A i \in 1..Len(r) : r[i] = lines[i]
  <2>1. \A i \in 1..(Len(lines) - 1) : lines[i] \in Line
    BY <1>0, ElementOfSeq
  <2>2. 1 \in Int /\ Len(lines) - 1 \in Int
    BY <1>0
  <2>3. /\ r \in Seq(Line)
        /\ Len(r) = IF 1 <= Len(lines) - 1 THEN Len(lines) - 1 - 1 + 1 ELSE 0
        /\ \A i \in 1..(Len(lines) - 1 - 1 + 1) : r[i] = lines[1 + i - 1]
    BY <2>1, <2>2, SubSeqProperties DEF Front
  <2> HIDE DEF r
  <2>4. Len(r) = Len(lines) - 1
    <3> DEFINE k == Len(lines)
               q == Len(r)
    <3>1. k \in Nat /\ k > 0 /\ q = IF 1 <= k - 1 THEN k - 1 - 1 + 1 ELSE 0
      BY <1>0, <2>3
    <3> HIDE DEF k, q
    <3>2. q = k - 1
      BY <3>1
    <3> QED
      BY <3>2 DEF k, q
  <2>5. \A i \in 1..Len(r) : r[i] = lines[i]
    BY <2>3, <2>4, <1>0
  <2> QED
    BY <2>3, <2>4, <2>5
<1> HIDE DEF r, l
<1>l. l = lines[Len(lines)]
  BY DEF l, Last
<1>3. lines = Append(r, l)
  <2>1. /\ Append(r, l) \in Seq(Line) /\ Len(Append(r, l)) = Len(lines)
        /\ Append(r, l)[Len(lines)] = l
        /\ \A i \in 1..Len(r) : Append(r, l)[i] = r[i]
    BY <1>0, <1>1, <1>2, AppendProperties
  <2>2. \A i \in 1..Len(lines) : lines[i] = Append(r, l)[i]
    <3> TAKE i \in 1..Len(lines)
    <3>1. i = Len(lines) \/ i \in 1..Len(r)
      BY <1>0, <1>2
    <3> QED
      BY <3>1, <2>1, <1>2, <1>l
  <2> QED
    BY <2>1, <2>2, <1>0, SeqEqual
<1>4. Kept(lines) = OneMore(Kept(r), Parsed(l), Entry)
  BY <1>1, <1>2, <1>3, KeptAppend
<1>5. Tree(Kept(lines)) /\ \A k \in 1..Len(Kept(lines)) : Kept(lines)[k].id < n
  BY DEF Sound
<1>6. Kept(r) \in Seq(Entry)
  BY <1>2, KeptType
<1>7. Tree(Kept(r)) /\ \A k \in 1..Len(Kept(r)) : Kept(r)[k].id < n
  <2>1. CASE Parsed(l) \in Entry
    <3>1. Kept(lines) = Append(Kept(r), Parsed(l))
      BY <2>1, <1>4 DEF OneMore
    <3>2. Tree(Kept(r))
      BY <2>1, <3>1, <1>5, <1>6, TreeBefore
    <3>3. /\ Len(Kept(lines)) = Len(Kept(r)) + 1 /\ Len(Kept(r)) \in Nat
          /\ \A k \in 1..Len(Kept(r)) : Kept(lines)[k] = Kept(r)[k]
      BY <2>1, <3>1, <1>6, AppendProperties
    <3>4. \A k \in 1..Len(Kept(r)) : k \in 1..Len(Kept(lines))
      BY <3>3
    <3> QED
      BY <3>2, <3>3, <3>4, <1>5
  <2>2. CASE Parsed(l) \notin Entry
    BY <2>2, <1>4, <1>5 DEF OneMore
  <2> QED
    BY <2>1, <2>2
<1>8. \A i \in 1..Len(r) : i \in 1..Len(lines) /\ i # Len(lines)
  BY <1>0, <1>2
<1>9. \A i \in 1..Len(r) : ~(r[i].kind \in {"half", "unended"})
  BY <1>2, <1>8 DEF Sound
<1>10. Sound(r, n)
  BY <1>2, <1>7, <1>8, <1>9 DEF Sound
<1>11. ~EndsOpen(r)
  <2>1. r # << >> => Len(r) \in 1..Len(r)
    BY <1>2
  <2> QED
    BY <2>1, <1>9 DEF EndsOpen, Last
<1> QED
  BY <1>1, <1>2, <1>3, <1>4, <1>10, <1>11 DEF r, l

\* What is loaded from a file.
LEMMA LoadedIs ==
  ASSUME NEW lines
  PROVE  Loaded(lines) = IF IsSession(lines) THEN Kept(lines) ELSE << >>
  BY DEF Loaded, Kept, Read

\* A sound file is a session when its first line is the header.
LEMMA SessionIs ==
  ASSUME NEW lines, NEW n, Sound(lines, n)
  PROVE  IsSession(lines) <=> lines # << >> /\ Parsed(lines[1]) = Header
<1>1. lines \in Seq(Line) /\ Len(lines) \in Nat /\ DOMAIN lines = 1..Len(lines)
  BY DEF Sound
<1>2. IsSession(lines) => lines # << >> /\ Parsed(lines[1]) = Header
  <2> SUFFICES ASSUME NEW i \in 1..Len(lines), Parsed(lines[i]) = Header
               PROVE  lines # << >> /\ Parsed(lines[1]) = Header
    BY <1>1 DEF IsSession
  <2>1. i = 1
    BY <1>1 DEF Sound
  <2>2. Len(<< >>) = 0
    OBVIOUS
  <2>3. lines # << >>
    BY <1>1, <2>1, <2>2
  <2> QED
    BY <2>1, <2>3
<1>3. lines # << >> /\ Parsed(lines[1]) = Header => IsSession(lines)
  <2> SUFFICES ASSUME lines # << >>, Parsed(lines[1]) = Header
               PROVE  IsSession(lines)
    OBVIOUS
  <2>1. 1 \in DOMAIN lines /\ \A j \in 1..(1 - 1) : FALSE
    BY <1>1
  <2> QED
    BY <2>1 DEF IsSession
<1> QED
  BY <1>2, <1>3

\* A whole file is sound, a session, and loads as it was written.
LEMMA WholeFileSound ==
  ASSUME NEW es, Tree(es), NEW n, \A i \in 1..Len(es) : es[i].id < n
  PROVE  /\ Sound(WholeFile(es), n) /\ IsSession(WholeFile(es))
         /\ Loaded(WholeFile(es)) = es /\ Kept(WholeFile(es)) = es
         /\ WholeFile(es) # << >> /\ ~EndsOpen(WholeFile(es))
<1> DEFINE w == WholeFile(es)
<1>1. /\ es \in Seq(Entry) /\ Len(es) \in Nat /\ w \in Seq(Line)
      /\ Len(w) = Len(es) + 1 /\ w[1] = Header
      /\ \A i \in 2..(Len(es) + 1) : w[i] \in Entry
      /\ Kept(w) = es
  BY TreeIs, WholeFileIs, KeptWhole DEF Tree
<1> HIDE DEF w
<1>2. \A i \in 1..Len(w) : i = 1 \/ w[i] \in Entry
  BY <1>1
<1>3. \A i \in 1..Len(w) : Parsed(w[i]) = Header => i = 1
  BY <1>2, ParsedIs
<1>k. Header.kind \notin {"half", "unended"}
      /\ \A e \in Entry : e.kind \notin {"half", "unended"}
  BY LineKinds DEF Kind
<1>4. \A i \in 1..Len(w) : w[i].kind \notin {"half", "unended"}
  BY <1>1, <1>2, <1>k
<1>5. Sound(w, n)
  BY <1>1, <1>3, <1>4 DEF Sound
<1>6. w # << >> /\ Len(w) \in 1..Len(w)
  BY <1>1
<1>7. ~EndsOpen(w)
  BY <1>4, <1>6 DEF EndsOpen, Last
<1>8. IsSession(w)
  BY <1>1, <1>5, <1>6, SessionIs, ParsedIs
<1> QED
  BY <1>1, <1>5, <1>6, <1>7, <1>8, LoadedIs DEF w

\* How a file ends.
LEMMA LineEnds ==
  ASSUME NEW lines \in Seq(Line), NEW l \in Line
  PROVE  /\ Append(lines, l) # << >> /\ Last(Append(lines, l)) = l
         /\ EndsOpen(Append(lines, l)) <=> l.kind \in {"half", "unended"}
         /\ EndsUnended(Append(lines, l)) <=> l.kind = "unended"
<1>1. /\ Append(lines, l) # << >>
      /\ Append(lines, l)[Len(Append(lines, l))] = l
  BY AppendProperties
<1> QED
  BY <1>1 DEF EndsOpen, EndsUnended, Last

\* The lines that are written.
LEMMA LinesAre ==
  ASSUME NEW l \in Lines
  PROVE  /\ l \in Line /\ Unended(l) \in Line /\ Half \in Line
            /\ Garbage \in Line
         /\ Parsed(l) = l /\ l.kind \notin {"half", "unended"}
<1>1. l \in Entry \/ l = Header
  BY DEF Lines
<1> QED
  BY <1>1, ParsedIs, LineKinds DEF Line, Kind

\* A file that is a session stays one with another line, unless that continues
\* its header.
LEMMA SessionGoesOn ==
  ASSUME NEW lines, NEW n, NEW m, NEW l \in Line, Sound(lines, n),
         IsSession(lines),
         EndsOpen(lines) => lines # << Unended(Header) >>
  PROVE  LET r == IF EndsOpen(lines) THEN Front(lines) ELSE lines
         IN  Sound(Append(r, l), m) => IsSession(Append(r, l))
<1> DEFINE r == IF EndsOpen(lines) THEN Front(lines) ELSE lines
           a == Append(r, l)
<1>0. lines \in Seq(Line) /\ Len(lines) \in Nat
  BY DEF Sound
<1>1. /\ lines \in Seq(Line) /\ Len(lines) \in Nat /\ lines # << >>
      /\ Parsed(lines[1]) = Header
  BY <1>0, SessionIs
<1>2. r \in Seq(Line) /\ r # << >> /\ r[1] = lines[1]
  <2>1. CASE EndsOpen(lines)
    <3>1. /\ r = Front(lines) /\ r \in Seq(Line) /\ Last(lines) \in Line
          /\ lines = Append(r, Last(lines))
      BY <2>1, <1>1, SoundFront
    <3>2. r # << >>
      <4> SUFFICES ASSUME r = << >> PROVE FALSE
        OBVIOUS
      <4>1. lines = << Last(lines) >> /\ lines[1] = Last(lines)
        BY <3>1, <1>1
      <4>2. Last(lines).kind \in {"half", "unended"}
        BY <2>1 DEF EndsOpen
      <4>3. PICK w \in Lines : Last(lines) = Unended(w)
        BY <3>1, <4>1, <4>2, <1>1, LineCases, ParsedIs, LineKinds DEF Kind
      <4>4. w = Header
        BY <4>1, <4>3, <1>1, ParsedIs
      <4> QED
        BY <4>1, <4>3, <4>4, <2>1
    <3>3. 1 \in 1..Len(r)
      BY <3>1, <3>2
    <3>4. lines[1] = r[1]
      BY <3>1, <3>3, AppendProperties
    <3> QED
      BY <3>1, <3>2, <3>4
  <2>2. CASE ~EndsOpen(lines)
    BY <2>2, <1>1
  <2> QED
    BY <2>1, <2>2
<1> HIDE DEF r
<1>3. a[1] = lines[1] /\ a # << >>
  <2>1. 1 \in 1..Len(r)
    BY <1>2
  <2> QED
    BY <1>2, <2>1, AppendProperties
<1>4. Sound(a, m) => IsSession(a)
  BY <1>1, <1>3, SessionIs
<1> QED
  BY <1>4 DEF r

\* What an entry leaves that is appended to a sound file.
LEMMA AppendLineIs ==
  ASSUME NEW lines, NEW n \in Nat, NEW m \in Nat, Sound(lines, n),
         NEW e \in Entry, Points(e), n <= e.id, e.id < m
  PROVE  LET a == AppendLine(lines, e)
         IN  /\ Sound(a, m) /\ a # << >> /\ ~EndsOpen(a)
             /\ EndsOpen(lines) => Kept(a) = Kept(Front(lines))
             /\ ~EndsOpen(lines) => Kept(a) = Append(Kept(lines), e)
             /\ IsSession(lines) /\ lines # << Unended(Header) >> =>
                  IsSession(a)
<1> DEFINE a == AppendLine(lines, e)
<1>1. e \in Lines /\ lines \in Seq(Line) /\ e.id \in Nat /\ n <= m /\ n <= e.id
  BY EntryIs DEF Lines, Sound
<1>2. e \in Line /\ Garbage \in Line /\ Parsed(e) = e
      /\ Parsed(Garbage) = Garbage
      /\ e.kind \notin {"half", "unended"}
           /\ Garbage.kind \notin {"half", "unended"}
      /\ Garbage # Header /\ Garbage \notin Entry /\ e # Header
  BY <1>1, LinesAre, ParsedIs, LineKinds
<1>3. CASE EndsOpen(lines)
  <2>1. lines # << >> /\ a = Append(Front(lines), Garbage)
    BY <1>3 DEF EndsOpen, AppendLine
  <2>2. Front(lines) \in Seq(Line) /\ Sound(Front(lines), n)
        /\ ~EndsOpen(Front(lines))
    BY <2>1, SoundFront
  <2>3. Sound(a, m)
    BY <2>1, <2>2, <1>1, <1>2, SoundPlus
  <2>4. Kept(a) = Kept(Front(lines))
    BY <2>1, <2>2, <1>2, KeptAppend DEF OneMore
  <2>5. a # << >> /\ ~EndsOpen(a)
    BY <2>1, <2>2, <1>2, LineEnds
  <2>6. IsSession(lines) /\ lines # << Unended(Header) >> => IsSession(a)
    BY <2>1, <2>3, <1>2, <1>3, SessionGoesOn
  <2> QED
    BY <1>3, <2>3, <2>4, <2>5, <2>6
<1>4. CASE ~EndsOpen(lines)
  <2>1. a = Append(lines, e)
    BY <1>4 DEF AppendLine
  <2>2. Sound(a, m)
    BY <2>1, <1>1, <1>2, <1>4, SoundPlus
  <2>3. Kept(a) = Append(Kept(lines), e)
    BY <2>1, <1>1, <1>2, KeptAppend DEF OneMore
  <2>4. a # << >> /\ ~EndsOpen(a)
    BY <2>1, <1>1, <1>2, LineEnds
  <2>5. IsSession(lines) /\ lines # << Unended(Header) >> => IsSession(a)
    BY <2>1, <2>2, <1>2, <1>4, SessionGoesOn
  <2> QED
    BY <1>4, <2>2, <2>3, <2>4, <2>5
<1> QED
  BY <1>3, <1>4

\* The three things a torn write leaves.
TornNothing(t, lines) == t = lines

\* The line that had not ended is continued, and is half a line again, ...
TornOpen(t, lines) ==
    /\ EndsOpen(lines) /\ t = Append(Front(lines), Half)
    /\ t # << >> /\ EndsOpen(t) /\ ~EndsUnended(t)
         /\ Kept(t) = Kept(Front(lines))

\* ... or the new line is half there, or there but for its end.
TornLine(t, lines, l) ==
    /\ ~EndsOpen(lines) /\ t # << >> /\ EndsOpen(t)
    /\ \/ /\ t = Append(lines, Half) /\ ~EndsUnended(t)
         /\ Kept(t) = Kept(lines)
       \/ /\ t = Append(lines, Unended(l)) /\ EndsUnended(t)
          /\ Last(t).line = l /\ Kept(t) = OneMore(Kept(lines), l, Entry)

\* What a write leaves that was cut off.
LEMMA TornIs ==
  ASSUME NEW lines, NEW n \in Nat, NEW m \in Nat, Sound(lines, n), n <= m,
         NEW l \in Lines, l = Header => lines = << >>,
         l \in Entry => Points(l) /\ n <= l.id /\ l.id < m,
         NEW t \in Torn(lines, l)
  PROVE  /\ Sound(t, m)
         /\ TornNothing(t, lines) \/ TornOpen(t, lines)
              \/ TornLine(t, lines, l)
         /\ IsSession(lines) /\ lines # << Unended(Header) >> => IsSession(t)
<1>1. lines \in Seq(Line)
  BY DEF Sound
<1>2. l \in Line /\ Half \in Line /\ Unended(l) \in Line
      /\ Parsed(l) = l /\ Parsed(Half) = Half /\ Parsed(Unended(l)) = l
      /\ Half.kind = "half" /\ Unended(l).kind = "unended"
           /\ Unended(l).line = l
      /\ Half # Header /\ Half \notin Entry
  BY <1>1, LinesAre, ParsedIs, LineKinds
<1>3. CASE t = lines
  BY <1>3, SoundMore DEF TornNothing
<1>4. CASE EndsOpen(lines) /\ t = Append(Front(lines), Half)
  <2>1. lines # << >>
    BY <1>4 DEF EndsOpen
  <2>2. Front(lines) \in Seq(Line) /\ Sound(Front(lines), n)
        /\ ~EndsOpen(Front(lines))
    BY <2>1, SoundFront
  <2>3. Sound(t, m)
    BY <1>4, <2>2, <1>2, SoundPlus
  <2>4. Kept(t) = Kept(Front(lines))
    BY <1>4, <2>2, <1>2, KeptAppend DEF OneMore
  <2>5. t # << >> /\ EndsOpen(t) /\ ~EndsUnended(t)
    BY <1>4, <2>2, <1>2, LineEnds
  <2>6. IsSession(lines) /\ lines # << Unended(Header) >> => IsSession(t)
    BY <2>3, <1>2, <1>4, SessionGoesOn
  <2> QED
    BY <1>4, <2>3, <2>4, <2>5, <2>6 DEF TornOpen
<1>5. CASE ~EndsOpen(lines) /\ t = Append(lines, Half)
  <2>3. Sound(t, m)
    BY <1>5, <1>2, SoundPlus
  <2>4. Kept(t) = Kept(lines)
    BY <1>1, <1>5, <1>2, KeptAppend DEF OneMore
  <2>5. t # << >> /\ EndsOpen(t) /\ ~EndsUnended(t)
    BY <1>1, <1>5, <1>2, LineEnds
  <2>6. IsSession(lines) /\ lines # << Unended(Header) >> => IsSession(t)
    BY <2>3, <1>2, <1>5, SessionGoesOn
  <2> QED
    BY <1>5, <2>3, <2>4, <2>5, <2>6 DEF TornLine
<1>6. CASE ~EndsOpen(lines) /\ t = Append(lines, Unended(l))
  <2>3. Sound(t, m)
    BY <1>6, <1>2, SoundPlus
  <2>4. Kept(t) = OneMore(Kept(lines), l, Entry)
    BY <1>1, <1>6, <1>2, KeptAppend
  <2>5. t # << >> /\ EndsOpen(t) /\ EndsUnended(t) /\ Last(t).line = l
    BY <1>1, <1>6, <1>2, LineEnds
  <2>6. IsSession(lines) /\ lines # << Unended(Header) >> => IsSession(t)
    BY <2>3, <1>2, <1>6, SessionGoesOn
  <2> QED
    BY <1>6, <2>3, <2>4, <2>5, <2>6 DEF TornLine
<1> QED
  BY <1>3, <1>4, <1>5, <1>6 DEF Torn

\* The beginning of a whole file is a whole file.
LEMMA WholeFileParts ==
  ASSUME NEW es, Tree(es), NEW k \in 1..(Len(es) + 1)
  PROVE  SubSeq(WholeFile(es), 1, k) = WholeFile(SubSeq(es, 1, k - 1))
<1> DEFINE w == WholeFile(es)
           p == SubSeq(es, 1, k - 1)
           v == WholeFile(p)
           s == SubSeq(w, 1, k)
<1>1. es \in Seq(Entry) /\ Len(es) \in Nat /\ k - 1 \in 0..Len(es)
      /\ k \in Nat /\ 1 <= k
  BY TreeIs DEF Tree
<1>2. Tree(p) /\ p \in Seq(Entry) /\ Len(p) = k - 1
      /\ \A i \in 1..(k - 1) : p[i] = es[i]
  BY <1>1, TreePart DEF Tree
<1>3. /\ w \in Seq(Line) /\ Len(w) = Len(es) + 1 /\ w[1] = Header
      /\ \A i \in 2..(Len(es) + 1) : w[i] = es[i - 1]
  BY <1>1, WholeFileIs
<1>4. /\ v \in Seq(Line) /\ Len(v) = k /\ v[1] = Header
      /\ \A i \in 2..k : v[i] = p[i - 1]
  <2> HIDE DEF p
  <2>1. /\ v \in Seq(Line) /\ Len(v) = Len(p) + 1 /\ v[1] = Header
        /\ \A i \in 2..(Len(p) + 1) : v[i] = p[i - 1]
    BY <1>2, WholeFileIs
  <2>2. Len(p) + 1 = k
    BY <1>1, <1>2
  <2> QED
    BY <2>1, <2>2
<1>5. s \in Seq(Line) /\ Len(s) = k /\ \A i \in 1..k : s[i] = w[i]
  <2> HIDE DEF w
  <2>1. \A i \in 1..k : w[i] \in Line
    BY <1>1, <1>3, ElementOfSeq
  <2>2. /\ s \in Seq(Line) /\ Len(s) = IF 1 <= k THEN k - 1 + 1 ELSE 0
        /\ \A i \in 1..(k - 1 + 1) : s[i] = w[1 + i - 1]
    BY <2>1, <1>1, SubSeqProperties
  <2> HIDE DEF s
  <2>3. Len(s) = k /\ k - 1 + 1 = k
    BY <2>2, <1>1
  <2>4. \A i \in 1..k : 1 + i - 1 = i
    BY <1>1
  <2> QED
    BY <2>2, <2>3, <2>4
<1> HIDE DEF w, p, v, s
<1>6. \A i \in 2..k : i - 1 \in 1..(k - 1) /\ i \in 2..(Len(es) + 1)
  BY <1>1
<1>7. \A i \in 1..k : i = 1 \/ i \in 2..k
  BY <1>1
<1>8. \A i \in 1..k : s[i] = v[i]
  BY <1>2, <1>3, <1>4, <1>5, <1>6, <1>7
<1>9. s = v
  BY <1>4, <1>5, <1>8, SeqEqual
<1> QED
  BY <1>9 DEF s, v, w, p

\* What the first write of a file leaves if it is cut off, ...
LEMMA BeginningsAre ==
  ASSUME NEW es, Tree(es), NEW n \in Nat, \A i \in 1..Len(es) : es[i].id < n,
         NEW b \in Beginnings(WholeFile(es))
  PROVE  Sound(b, n)
<1> DEFINE w == WholeFile(es)
<1>1. /\ es \in Seq(Entry) /\ Len(es) \in Nat /\ Len(w) = Len(es) + 1
         /\ w[1] = Header
      /\ \A i \in 2..(Len(es) + 1) : w[i] = es[i - 1]
      /\ \A i \in 1..Len(es) : es[i] \in Entry /\ es[i].id \in Nat
           /\ Points(es[i])
      /\ \A i, j \in 1..Len(es) : i < j => es[i].id < es[j].id
  BY TreeIs, WholeFileIs DEF Tree
<1> HIDE DEF w
<1>2. PICK k \in 0..(Len(w) - 1) : b \in Torn(SubSeq(w, 1, k), w[k + 1])
  BY DEF Beginnings, w
<1>3. CASE k = 0
  <2>1. SubSeq(w, 1, 0) = << >>
    BY SubSeqEmpty
  <2>a. k + 1 = 1 /\ w[k + 1] = Header
    BY <1>1, <1>3
  <2>b. SubSeq(w, 1, k) = << >>
    BY <1>3, <2>1
  <2>2. b \in Torn(<< >>, Header) /\ Header \in Lines /\ Header \notin Entry
    BY <1>2, <2>a, <2>b, ParsedIs DEF Lines
  <2>3. Sound(<< >>, 0)
    BY SoundNil
  <2> QED
    BY <2>2, <2>3, TornIs
<1>4. CASE k # 0
  <2>1. k \in 1..Len(es) /\ k - 1 \in 0..Len(es) /\ k \in 1..(Len(es) + 1)
    BY <1>1, <1>4
  <2> DEFINE p == SubSeq(es, 1, k - 1)
             e == es[k]
  <2>2. Tree(p) /\ Len(p) = k - 1 /\ \A i \in 1..(k - 1) : p[i] = es[i]
    BY <2>1, TreePart
  <2>3. \A i \in 1..Len(p) : p[i].id < e.id
    <3> TAKE i \in 1..Len(p)
    <3>1. i \in 1..(k - 1) /\ i \in 1..Len(es) /\ i < k
      BY <2>1, <2>2, <1>1
    <3> QED
      BY <3>1, <2>1, <2>2, <1>1
  <2>4. b \in Torn(WholeFile(p), e)
    <3>1. SubSeq(w, 1, k) = WholeFile(p)
      BY <2>1, WholeFileParts DEF w
    <3>2. w[k + 1] = e
      <4>1. k + 1 \in 2..(Len(es) + 1) /\ k + 1 - 1 = k
        BY <2>1, <1>1
      <4> QED
        BY <4>1, <1>1
    <3> QED
      BY <1>2, <3>1, <3>2
  <2> HIDE DEF p
  <2>5. Sound(WholeFile(p), e.id)
    BY <2>2, <2>3, WholeFileSound
  <2>6. e \in Lines /\ e # Header /\ e.id \in Nat /\ e.id < n /\ Points(e)
        /\ e.id <= e.id
    BY <2>1, <1>1, ParsedIs DEF Lines
  <2>7. e.id <= n
    BY <2>6
  <2> HIDE DEF e
  <2> QED
    BY <2>4, <2>5, <2>6, <2>7, TornIs
<1> QED
  BY <1>3, <1>4

\* ... and that of its header.
LEMMA BeginningsOfHeader ==
  ASSUME NEW b \in Beginnings(<< Header >>)
  PROVE  /\ Sound(b, 0) /\ Kept(b) = << >> /\ (b # << >> => EndsOpen(b))
         /\ EndsUnended(b) => Last(b).line \notin Entry
<1>1. b \in Torn(<< >>, Header) /\ Header \in Lines /\ Header \notin Entry
  <2>1. Len(<< Header >>) = 1 /\ << Header >>[1] = Header
    OBVIOUS
  <2>2. PICK k \in 0..(Len(<< Header >>) - 1) :
          b \in Torn(SubSeq(<< Header >>, 1, k), << Header >>[k + 1])
    BY DEF Beginnings
  <2>3. k = 0
    BY <2>1, <2>2
  <2>4. SubSeq(<< Header >>, 1, 0) = << >>
    BY SubSeqEmpty
  <2> DEFINE h == << Header >>
  <2>5. b \in Torn(SubSeq(h, 1, k), h[k + 1])
    BY <2>2
  <2>6. k + 1 = 1 /\ h[1] = Header /\ SubSeq(h, 1, 0) = << >>
    BY <2>1, <2>3, <2>4
  <2> HIDE DEF h
  <2>7. h[k + 1] = Header /\ SubSeq(h, 1, k) = << >>
    BY <2>3, <2>6
  <2> QED
    BY <2>5, <2>7, ParsedIs DEF Lines
<1>2. Sound(<< >>, 0) /\ ~EndsOpen(<< >>) /\ ~EndsUnended(<< >>)
  BY SoundNil DEF EndsUnended
<1>3. /\ Sound(b, 0)
      /\ TornNothing(b, << >>) \/ TornOpen(b, << >>)
           \/ TornLine(b, << >>, Header)
  BY <1>1, <1>2, TornIs
<1> QED
  BY <1>1, <1>2, <1>3, KeptNil DEF TornNothing, TornOpen, TornLine, OneMore

-----------------------------------------------------------------------------
(* The entries of a branched session *)

\* Some entries of a tree are a tree.
LEMMA TreeOnly ==
  ASSUME NEW es, Tree(es), NEW S, S \subseteq Entry
  PROVE  /\ Tree(Only(es, S)) /\ Only(es, S) \in Seq(S)
         /\ \A k \in 1..Len(Only(es, S)) : \E j \in 1..Len(es) :
              Only(es, S)[k] = es[j]
<1> DEFINE o == Only(es, S)
<1>1. /\ es \in Seq(Entry) /\ Len(es) \in Nat
      /\ \A i \in 1..Len(es) : Points(es[i])
      /\ \A i, j \in 1..Len(es) : i < j => es[i].id < es[j].id
  BY TreeIs DEF Tree
<1>2. o \in Seq(S) /\ o \in Seq(Entry)
  BY <1>1, OnlyType, SeqMonotonic
<1>3. PICK h \in [1..Len(o) -> 1..Len(es)] :
        /\ \A i \in 1..Len(o) : o[i] = es[h[i]]
        /\ \A i, j \in 1..Len(o) : i < j => h[i] < h[j]
  BY <1>1, OnlyPlaces
<1> HIDE DEF o
<1>4. DOMAIN o = 1..Len(o) /\ \A i \in 1..Len(o) : h[i] \in 1..Len(es)
  BY <1>2
<1>5. Tree(o)
  <2>1. \A i \in 1..Len(o) : Points(o[i])
    BY <1>1, <1>3, <1>4
  <2>2. ASSUME NEW i \in 1..Len(o), NEW j \in 1..Len(o), i < j
        PROVE  o[i].id < o[j].id
    <3>1. h[i] \in 1..Len(es) /\ h[j] \in 1..Len(es) /\ h[i] < h[j]
      BY <2>2, <1>3, <1>4
    <3>2. es[h[i]].id < es[h[j]].id
      BY <3>1, <1>1
    <3> QED
      BY <3>2, <1>3
  <2>3. \A i, j \in 1..Len(o) : i < j => o[i].id < o[j].id
    BY <2>2
  <2> QED
    BY <1>2, <1>4, <2>1, <2>3 DEF Tree, Ascending, EntriesPoint
<1>6. \A k \in 1..Len(o) : \E j \in 1..Len(es) : o[k] = es[j]
  BY <1>3, <1>4
<1> QED
  BY <1>2, <1>5, <1>6 DEF o

\* SetToSeq makes a sequence of a finite set.
LEMMA SetToSeqIs ==
  ASSUME NEW S, IsFiniteSet(S)
  PROVE  SetToSeq(S) \in Seq(S)
<1>1. Cardinality(S) \in Nat /\ ExistsBijection(1..Cardinality(S), S)
  BY FS_CardinalityType
<1>2. \E f \in [1..Cardinality(S) -> S] : IsInjective(f)
  BY <1>1 DEF ExistsBijection, Bijection, Injection
<1>3. SetToSeq(S) \in [1..Cardinality(S) -> S]
  BY <1>2 DEF SetToSeq
<1> QED
  BY <1>1, <1>3

\* The i-th new label of a branched session.
NewLabel(branch, targets, i) ==
    [id     |-> nextId + i - 1,
     parent |-> IF i = 1 THEN LastId(branch) ELSE nextId + i - 2,
     kind   |-> "label", ref |-> targets[i]]

\* The last entry of a tree.
LEMMA LastIdIs ==
  ASSUME NEW es, Tree(es)
  PROVE  /\ LastId(es) \in Nat /\ LastId(es) \in {0} \union Ids(es)
         /\ es # << >> => LastId(es) = es[Len(es)].id
<1>1. Len(es) \in Nat /\ DOMAIN es = 1..Len(es)
      /\ \A i \in 1..Len(es) : es[i].id \in Nat
      /\ es \in Seq(Entry)
  BY TreeIs DEF Tree
<1>2. es # << >> => Len(es) \in 1..Len(es)
  BY <1>1
<1> QED
  BY <1>1, <1>2 DEF LastId, Last, Ids

\* The new labels of a branch.
LEMMA RelabelledIs ==
  ASSUME NEW b, Tree(b), labels \subseteq Id
  PROVE  \E n \in Nat, t \in Seq(Id) :
           /\ Len(t) = n /\ Relabelled(b) = [i \in 1..n |-> NewLabel(b, t, i)]
<1> DEFINE S == labels \intersect Ids(b)
           t == SetToSeq(S)
<1>1. IsFiniteSet(S)
  <2>1. IsFiniteSet(1..MaxEntries)
    BY SessionManagerAssumption, FS_Interval DEF SessionManagerAssumption
  <2>2. S \in SUBSET (1..MaxEntries)
    BY DEF Id
  <2> QED
    BY <2>1, <2>2, FS_Subset
<1>2. t \in Seq(S)
  <2> HIDE DEF S
  <2> QED
    BY <1>1, SetToSeqIs
<1>3. t \in Seq(Id)
  <2>1. S \subseteq Id
    OBVIOUS
  <2> HIDE DEF S, t
  <2> QED
    BY <1>2, <2>1, SeqMonotonic
<1>4. DOMAIN t = 1..Len(t) /\ Len(t) \in Nat
  <2> HIDE DEF t
  <2> QED
    BY <1>3
<1>5. Relabelled(b) = [i \in 1..Len(t) |-> NewLabel(b, t, i)]
  <2>1. Relabelled(b) = [i \in DOMAIN t |-> NewLabel(b, t, i)]
    BY DEF Relabelled, NewLabel
  <2> HIDE DEF t
  <2> QED
    BY <1>4, <2>1
<1> HIDE DEF t
<1> QED
  BY <1>3, <1>4, <1>5

\* An entry, but for the bound on ids.
Loose == [id : Nat, parent : Nat, kind : Kind, ref : {0} \union Id]

\* A new label is an entry only once its id is known to be in bounds.
LEMMA EntryIsLoose == Entry \subseteq Loose
  BY SessionManagerAssumption DEF SessionManagerAssumption, Entry, EntryOf,
       Loose, Id

\* A path with new labels at its end.
LEMMA LabelsAtTheEnd ==
  ASSUME nextId \in Nat, nextId > 0, NEW b, Tree(b),
         \A i \in 1..Len(b) : b[i].id < nextId,
         NEW n \in Nat, NEW t \in Seq(Id), Len(t) = n,
         NEW r, r = [i \in 1..n |-> NewLabel(b, t, i)],
         { j \in Ids(b \o r) : j >= nextId } \subseteq Id
  PROVE  LET es == b \o r
         IN  /\ Tree(es) /\ Len(es) = Len(b) + n
             /\ \A i \in 1..Len(b) : es[i] = b[i]
             /\ \A i \in 1..n : es[Len(b) + i] = r[i] /\ r[i].kind = "label"
             /\ \A i \in 1..Len(es) : es[i].id < nextId + n
             /\ r \in Seq(EntryOf({"label", "unlabel"}))
             /\ nextId + n <= MaxEntries + 1 \/ n = 0
             /\ { j \in Ids(es) : j >= nextId } = nextId..(nextId + n - 1)
<1> DEFINE es == b \o r
<1>1. /\ b \in Seq(Entry) /\ Len(b) \in Nat /\ DOMAIN b = 1..Len(b)
      /\ \A i \in 1..Len(b) : b[i].id \in Nat /\ Points(b[i])
      /\ \A i, j \in 1..Len(b) : i < j => b[i].id < b[j].id
  BY TreeIs DEF Tree
<1>2. LastId(b) \in Nat /\ LastId(b) < nextId
  <2>1. b # << >> => Len(b) \in 1..Len(b)
    BY <1>1
  <2> QED
    BY <2>1, <1>1, LastIdIs DEF LastId
<1>3. \A i \in 1..n : t[i] \in Id
  BY ElementOfSeq
<1>4. \A i \in 1..n : /\ r[i] \in Loose /\ r[i].id = nextId + i - 1
      /\ r[i].kind = "label"
                      /\ Points(r[i]) /\ r[i].ref \in Id
  <2> SUFFICES ASSUME NEW i \in 1..n
               PROVE  /\ r[i] \in Loose /\ r[i].id = nextId + i - 1
                         /\ r[i].kind = "label"
                      /\ Points(r[i]) /\ r[i].ref \in Id
    OBVIOUS
  <2> DEFINE p == IF i = 1 THEN LastId(b) ELSE nextId + i - 2
             d == nextId + i - 1
  <2>1. r[i] = [id |-> d, parent |-> p, kind |-> "label", ref |-> t[i]]
    BY DEF NewLabel
  <2>2. p \in Nat /\ d \in Nat /\ p < d
    BY <1>2
  <2> HIDE DEF p
  <2>3. d = nextId + i - 1
    OBVIOUS
  <2> HIDE DEF d
  <2>4. r[i].id = d /\ r[i].parent = p /\ r[i].kind = "label"
        /\ r[i].ref = t[i]
    BY <2>1
  <2>5. t[i] \in Id /\ "label" \in Kind
    BY <1>3 DEF Kind
  <2>6. r[i] \in Loose
    BY <2>1, <2>2, <2>5 DEF Loose
  <2>7. Points(r[i])
    BY <2>2, <2>4, <2>5 DEF Points
  <2> QED
    BY <2>3, <2>4, <2>5, <2>6, <2>7
<1>5. r \in Seq(Loose) /\ Len(r) = n /\ DOMAIN r = 1..n
  <2>1. DOMAIN r = 1..n /\ r = [i \in 1..n |-> r[i]]
    OBVIOUS
  <2>2. r \in [1..n -> Loose]
    BY <1>4, <2>1
  <2> QED
    BY <2>1, <2>2
<1>6. b \in Seq(Loose)
  BY <1>1, EntryIsLoose, SeqMonotonic
<1>7. /\ es \in Seq(Loose) /\ Len(es) = Len(b) + n
      /\ \A i \in 1..(Len(b) + n) : es[i] = IF i <= Len(b) THEN b[i]
           ELSE r[i - Len(b)]
  BY <1>5, <1>6, ConcatProperties
<1>u. { j \in Ids(es) : j >= nextId } \subseteq Id
  OBVIOUS
<1> HIDE DEF es
<1>8. \A i \in 1..Len(b) : es[i] = b[i] /\ i \in 1..(Len(b) + n)
  BY <1>1, <1>7
<1>9. \A i \in 1..n : es[Len(b) + i] = r[i] /\ Len(b) + i \in 1..(Len(b) + n)
  <2> TAKE i \in 1..n
  <2> DEFINE k == Len(b) + i
  <2>1. k \in 1..(Len(b) + n) /\ ~(k <= Len(b)) /\ k - Len(b) = i
    BY <1>1
  <2> HIDE DEF k
  <2>2. es[k] = IF k <= Len(b) THEN b[k] ELSE r[k - Len(b)]
    BY <2>1, <1>7
  <2>3. es[k] = r[i]
    BY <2>1, <2>2
  <2> QED
    BY <2>1, <2>3 DEF k
<1>10. \A k \in 1..Len(es) : \/ k \in 1..Len(b)
                             \/ k - Len(b) \in 1..n
                                  /\ Len(b) + (k - Len(b)) = k
  BY <1>1, <1>7
<1>11. DOMAIN es = 1..Len(es) /\ Len(es) = Len(b) + n
  BY <1>7
<1>12. { j \in Ids(es) : j >= nextId } = nextId..(nextId + n - 1)
  <2>1. ASSUME NEW j \in Ids(es), j >= nextId
        PROVE  j \in nextId..(nextId + n - 1)
    <3>1. PICK k \in 1..Len(es) : j = es[k].id
      BY <1>11 DEF Ids
    <3>2. k \notin 1..Len(b)
      BY <2>1, <3>1, <1>1, <1>8, SMTT(30)
    <3>3. k - Len(b) \in 1..n /\ es[k] = r[k - Len(b)]
      BY <3>2, <1>9, <1>10
    <3>4. j = nextId + (k - Len(b)) - 1
      BY <3>1, <3>3, <1>4
    <3> QED
      BY <3>3, <3>4
  <2>2. ASSUME NEW j \in nextId..(nextId + n - 1)
        PROVE  j \in Ids(es) /\ j >= nextId
    <3> DEFINE i == j - nextId + 1
    <3>1. i \in 1..n /\ nextId + i - 1 = j
      BY <2>2
    <3> HIDE DEF i
    <3>2. es[Len(b) + i].id = j /\ Len(b) + i \in DOMAIN es
      BY <3>1, <1>4, <1>9, <1>11
    <3>3. j \in Ids(es)
      BY <3>2 DEF Ids
    <3> QED
      BY <2>2, <3>3
  <2> QED
    BY <2>1, <2>2
<1>13. \A i \in 1..n : r[i].id \in Id /\ r[i].id \in nextId..(nextId + n - 1)
  <2> TAKE i \in 1..n
  <2>1. r[i].id \in nextId..(nextId + n - 1)
    BY <1>4
  <2> QED
    BY <2>1, <1>12, <1>u
<1>14. \A i \in 1..n : r[i] \in EntryOf({"label", "unlabel"}) /\ r[i] \in Entry
  <2> TAKE i \in 1..n
  <2> DEFINE p == r[i].parent
             d == r[i].id
             f == r[i].ref
  <2>1. /\ r[i] \in Loose /\ r[i].kind = "label" /\ d \in Id /\ p < d
           /\ f \in Id
    BY <1>4, <1>13 DEF Points
  <2>2. r[i] = [id |-> d, parent |-> p, kind |-> "label", ref |-> f]
        /\ p \in Nat
    BY <2>1 DEF Loose
  <2> HIDE DEF p, d, f
  <2>3. p \in {0} \union Id
    BY <2>1, <2>2, SessionManagerAssumption DEF SessionManagerAssumption, Id
  <2>4. [id |-> d, parent |-> p, kind |-> "label", ref |-> f]
        \in EntryOf({"label", "unlabel"})
    BY <2>1, <2>3 DEF EntryOf
  <2>5. [id |-> d, parent |-> p, kind |-> "label", ref |-> f] \in Entry
    BY <2>1, <2>3 DEF Entry, EntryOf, Kind
  <2> QED
    BY <2>2, <2>4, <2>5
<1>15. r \in Seq(EntryOf({"label", "unlabel"})) /\ es \in Seq(Entry)
  <2>1. r = [i \in 1..n |-> r[i]] /\ es = [i \in 1..Len(es) |-> es[i]]
    BY <1>5, <1>7
  <2>2. \A k \in 1..Len(es) : es[k] \in Entry
    <3> TAKE k \in 1..Len(es)
    <3>1. CASE k \in 1..Len(b)
      BY <3>1, <1>1, <1>8, ElementOfSeq
    <3>2. CASE k - Len(b) \in 1..n /\ Len(b) + (k - Len(b)) = k
      BY <3>2, <1>9, <1>14
    <3> QED
      BY <3>1, <3>2, <1>10
  <2>3. r \in [1..n -> EntryOf({"label", "unlabel"})]
    BY <2>1, <1>14
  <2>4. es \in [1..Len(es) -> Entry] /\ Len(es) \in Nat
    BY <2>1, <2>2, <1>1, <1>11
  <2> QED
    BY <2>3, <2>4
<1>16. \A k \in 1..Len(es) : Points(es[k])
  <2> TAKE k \in 1..Len(es)
  <2>1. CASE k \in 1..Len(b)
    BY <2>1, <1>1, <1>8
  <2>2. CASE k - Len(b) \in 1..n /\ Len(b) + (k - Len(b)) = k
    BY <2>2, <1>9, <1>4
  <2> QED
    BY <2>1, <2>2, <1>10
<1>17. \A i, j \in 1..Len(es) : i < j => es[i].id < es[j].id
  <2> SUFFICES ASSUME NEW i \in 1..Len(es), NEW j \in 1..Len(es), i < j
               PROVE  es[i].id < es[j].id
    OBVIOUS
  <2>1. CASE j \in 1..Len(b)
    <3>1. i \in 1..Len(b)
      BY <2>1
    <3> QED
      BY <2>1, <3>1, <1>1, <1>8
  <2>2. CASE j - Len(b) \in 1..n /\ Len(b) + (j - Len(b)) = j
    <3>1. es[j].id = nextId + (j - Len(b)) - 1
      BY <2>2, <1>9, <1>4
    <3>2. CASE i \in 1..Len(b)
      <4>1. es[i].id \in Nat /\ es[i].id < nextId
        BY <3>2, <1>1, <1>8
      <4> QED
        BY <4>1, <3>1, <2>2
    <3>3. CASE i - Len(b) \in 1..n /\ Len(b) + (i - Len(b)) = i
      <4>1. es[i].id = nextId + (i - Len(b)) - 1
        BY <3>3, <1>9, <1>4
      <4> QED
        BY <4>1, <3>1, <1>1
    <3> QED
      BY <3>2, <3>3, <1>10
  <2> QED
    BY <2>1, <2>2, <1>10
<1>18. Tree(es)
  BY <1>11, <1>15, <1>16, <1>17 DEF Tree, Ascending, EntriesPoint
<1>19. \A i \in 1..Len(es) : es[i].id < nextId + n
  <2> TAKE k \in 1..Len(es)
  <2>1. CASE k \in 1..Len(b)
    <3>1. es[k].id \in Nat /\ es[k].id < nextId
      BY <2>1, <1>1, <1>8
    <3> QED
      BY <3>1
  <2>2. CASE k - Len(b) \in 1..n /\ Len(b) + (k - Len(b)) = k
    <3>1. es[k].id = nextId + (k - Len(b)) - 1
      BY <2>2, <1>9, <1>4
    <3> QED
      BY <3>1, <2>2, <1>1
  <2> QED
    BY <2>1, <2>2, <1>10
<1>20. nextId + n <= MaxEntries + 1 \/ n = 0
  <2> SUFFICES ASSUME n # 0 PROVE nextId + n <= MaxEntries + 1
    OBVIOUS
  <2>1. nextId + n - 1 \in nextId..(nextId + n - 1)
    OBVIOUS
  <2>2. nextId + n - 1 \in Id
    BY <2>1, <1>12, <1>u
  <2> QED
    BY <2>2, SessionManagerAssumption DEF SessionManagerAssumption, Id
<1> QED
  BY <1>4, <1>8, <1>9, <1>11, <1>12, <1>15, <1>18, <1>19, <1>20 DEF es


\* All ids are in use.
Older(es, n) == \A i \in 1..Len(es) : es[i].id < n

\* The next fresh id after a branch.
NextOf(es) == Max({nextId - 1} \union { i \in Ids(es) : i >= nextId }) + 1

\* The entries of a branched session are a tree, with fresh ids.
LEMMA BranchEntriesAre ==
  ASSUME Tree(fileEntries), Older(fileEntries, nextId), labels \subseteq Id,
         nextId \in 1..(MaxEntries + 1), NEW id,
         { i \in Ids(BranchEntries(id)) : i >= nextId } \subseteq Id
  PROVE  LET es == BranchEntries(id)
         IN  /\ Tree(es) /\ Older(es, NextOf(es))
             /\ NextOf(es) \in 1..(MaxEntries + 1) /\ nextId <= NextOf(es)
<1> DEFINE b == PathWithoutLabels(id)
           r == Relabelled(b)
           es == BranchEntries(id)
           g == GetBranch(fileEntries, id)
           K == EntryOf(Kind \ {"label", "unlabel"})
<1>1. /\ Tree(g) /\ \A k \in 1..Len(g) : \E j \in 1..Len(fileEntries) : g[k]
         = fileEntries[j]
  BY GetBranchIs
<1>2. /\ Tree(b) /\ \A k \in 1..Len(b) : \E j \in 1..Len(g) : b[k] = g[j]
  <2> HIDE DEF g
  <2>1. K \subseteq Entry
    BY DEF EntryOf, Entry
  <2> HIDE DEF K
  <2>2. /\ Tree(Only(g, K))
        /\ \A k \in 1..Len(Only(g, K)) : \E j \in 1..Len(g) : Only(g, K)[k]
             = g[j]
    BY <1>1, <2>1, TreeOnly
  <2> QED
    BY <2>2 DEF PathWithoutLabels, g, K
<1>3. nextId \in Nat /\ nextId > 0 /\ MaxEntries \in Nat
  BY SessionManagerAssumption DEF SessionManagerAssumption
<1> HIDE DEF K
<1>4. \A i \in 1..Len(b) : b[i].id < nextId
  BY <1>1, <1>2, SMTT(30) DEF Older
<1> HIDE DEF g
<1>5. es = b \o r
  BY DEF BranchEntries
<1>h. { j \in Ids(es) : j >= nextId } \subseteq Id
  OBVIOUS
<1> HIDE DEF b, r, es
<1>6. PICK n \in Nat, t \in Seq(Id) : Len(t) = n
      /\ r = [i \in 1..n |-> NewLabel(b, t, i)]
  BY <1>2, RelabelledIs DEF r
<1>u. { j \in Ids(b \o r) : j >= nextId } \subseteq Id
  BY <1>h, <1>5
<1>t. Tree(b)
  BY <1>2
<1>7. /\ Tree(b \o r) /\ \A i \in 1..Len(b \o r) : (b \o r)[i].id < nextId + n
      /\ nextId + n <= MaxEntries + 1 \/ n = 0
      /\ { j \in Ids(b \o r) : j >= nextId } = nextId..(nextId + n - 1)
  BY <1>t, <1>3, <1>4, <1>6, <1>u, LabelsAtTheEnd, SMTT(30)
<1>8. { j \in Ids(es) : j >= nextId } = nextId..(nextId + n - 1)
  BY <1>5, <1>7
<1>9. Max({nextId - 1} \union nextId..(nextId + n - 1)) = nextId + n - 1
  <2> DEFINE S == {nextId - 1} \union nextId..(nextId + n - 1)
             m == nextId + n - 1
  <2>1. S \in SUBSET Nat /\ m \in S /\ \A s \in S : s <= m
    BY <1>3
  <2> HIDE DEF S, m
  <2>2. Max(S) = m
    BY <2>1, GreatestIs
  <2> QED
    BY <2>2 DEF S, m
<1>10. NextOf(es) = nextId + n - 1 + 1
  BY <1>8, <1>9 DEF NextOf
<1>11. NextOf(es) = nextId + n
  BY <1>3, <1>10
<1>12. NextOf(es) \in 1..(MaxEntries + 1) /\ nextId <= NextOf(es)
  BY <1>3, <1>7, <1>11
<1>13. Tree(es) /\ Older(es, NextOf(es))
  BY <1>5, <1>7, <1>11 DEF Older
<1> QED
  BY <1>12, <1>13 DEF es

\* How the labels follow from one more entry.
LEMMA LabelsAppend ==
  ASSUME NEW es \in Seq(Entry), NEW e \in Entry
  PROVE  LabelsOf(Append(es, e)) =
           IF e.kind = "label" THEN LabelsOf(es) \union {e.ref}
           ELSE IF e.kind = "unlabel" THEN LabelsOf(es) \ {e.ref}
               ELSE LabelsOf(es)
<1> DEFINE a == Append(es, e)
           n == Len(es) + 1
<1>1. /\ a \in Seq(Entry) /\ Len(a) = n /\ a[n] = e /\ Len(es) \in Nat
      /\ \A i \in 1..Len(es) : a[i] = es[i]
      /\ DOMAIN a = 1..n /\ DOMAIN es = 1..Len(es)
  BY AppendProperties
<1> HIDE DEF a
<1>2. \A i \in 1..n : i = n \/ (i \in 1..Len(es) /\ i < n)
  BY <1>1
<1>3. \A i \in 1..Len(es) : i \in 1..n /\ i < n /\ ~(i > n)
  BY <1>1
<1>n. n \in 1..n /\ ~(n > n)
  BY <1>1
<1> DEFINE Named(q, x) == \E i \in DOMAIN q :
             /\ q[i].kind = "label" /\ q[i].ref = x
             /\ \A j \in DOMAIN q : q[j].kind = "unlabel" /\ j > i =>
                  q[j].ref # q[i].ref
<1>4. \A x : x \in LabelsOf(a) <=> Named(a, x)
  BY DEF LabelsOf, OfKind
<1>5. \A x : x \in LabelsOf(es) <=> Named(es, x)
  BY DEF LabelsOf, OfKind
<1> HIDE DEF n
<1>6. ASSUME NEW x, Named(a, x), x \notin LabelsOf(es)
      PROVE  e.kind = "label" /\ x = e.ref
  <2>1. PICK i \in 1..n : /\ a[i].kind = "label" /\ a[i].ref = x
                          /\ \A j \in 1..n : a[j].kind = "unlabel" /\ j > i =>
                               a[j].ref # a[i].ref
    BY <1>1, <1>6
  <2>2. CASE i \in 1..Len(es)
    <3>1. \A j \in 1..Len(es) : es[j].kind = "unlabel" /\ j > i =>
          es[j].ref # es[i].ref
      BY <2>1, <2>2, <1>1, <1>3
    <3>2. Named(es, x)
      BY <3>1, <2>1, <2>2, <1>1
    <3> QED
      BY <3>2, <1>5, <1>6
  <2> QED
    BY <2>1, <2>2, <1>1, <1>2
<1>7. ASSUME e.kind = "label" PROVE Named(a, e.ref)
  <2>1. \A j \in 1..n : ~(j > n)
    BY <1>2, <1>3, <1>n
  <2> QED
    BY <2>1, <1>1, <1>7, <1>n
<1>8. ASSUME NEW x, Named(es, x), e.kind = "unlabel" => x # e.ref
      PROVE  Named(a, x)
  <2>1. PICK i \in 1..Len(es) : /\ es[i].kind = "label" /\ es[i].ref = x
            /\ \A j \in 1..Len(es) : es[j].kind = "unlabel" /\ j > i =>
                 es[j].ref # es[i].ref
    BY <1>1, <1>8
  <2>2. i \in 1..n /\ a[i] = es[i]
    BY <1>1, <1>3
  <2>3. \A j \in 1..n : a[j].kind = "unlabel" /\ j > i => a[j].ref # a[i].ref
    <3> TAKE j \in 1..n
    <3>1. CASE j = n
      BY <3>1, <1>1, <1>8, <2>1, <2>2
    <3>2. CASE j \in 1..Len(es)
      BY <3>2, <1>1, <2>1, <2>2
    <3> QED
      BY <3>1, <3>2, <1>2
  <2> QED
    BY <1>1, <2>1, <2>2, <2>3
<1>9. ASSUME NEW x, Named(a, x), e.kind = "unlabel" PROVE x # e.ref
  <2>1. PICK i \in 1..n : /\ a[i].kind = "label" /\ a[i].ref = x
                          /\ \A j \in 1..n : a[j].kind = "unlabel" /\ j > i =>
                               a[j].ref # a[i].ref
    BY <1>1, <1>9
  <2>2. i # n /\ n > i
    BY <1>1, <1>2, <1>3, <1>9, <2>1
  <2> QED
    BY <1>1, <1>n, <1>9, <2>1, <2>2
<1>10. \A x : x \in LabelsOf(a) <=>
             IF e.kind = "label" THEN x \in LabelsOf(es) \/ x = e.ref
             ELSE IF e.kind = "unlabel" THEN x \in LabelsOf(es) /\ x # e.ref
                  ELSE x \in LabelsOf(es)
  <2> HIDE DEF Named
  <2> QED
    BY <1>4, <1>5, <1>6, <1>7, <1>8, <1>9
<1> QED
  BY <1>10 DEF a

\* What is labelled.
LEMMA LabelsAreIds ==
  ASSUME NEW es \in Seq(Entry)
  PROVE  LabelsOf(es) \subseteq {0} \union Id
  BY ElementOfSeq, EntryIs DEF LabelsOf, OfKind

-----------------------------------------------------------------------------
(* One file, and what was reported as written to it *)

\* A file that no fault has touched.
Intact(lines) == \E es : Tree(es) /\ lines = WholeFile(es)

\* What was saved and is not loaded.
Missing(lines, ids) == ids \ Ids(Loaded(lines))

\* A file that ends in an open line has one write more to lose.
Counts(lines, ids, k) ==
    /\ Cardinality(Missing(lines, ids)) <= k
    /\ EndsOpen(lines) => Cardinality(Missing(lines, ids)) < k

\* The line that has not ended was never reported as written.
OpenIsUnsaved(lines, ids) ==
    EndsUnended(lines) /\ Last(lines).line \in Entry =>
        Last(lines).line.id \notin ids

\* The invariant of one file.
FileInv(lines, ids, f, gone, n, k) ==
    /\ Sound(lines, n)
    /\ ids \in SUBSET Id /\ \A i \in ids : i < n
    /\ f \notin gone => Counts(lines, ids, k) /\ OpenIsUnsaved(lines, ids)
    /\ k = 0 => Intact(lines)

\* Nothing readable is taken out of a file.
Grows(old, new) == IsPrefix(Loaded(Ended(old)), Loaded(new))

\* There are finitely many ids.
LEMMA IdsAreFinite ==
  ASSUME NEW S \in SUBSET Id
  PROVE  IsFiniteSet(S) /\ Cardinality(S) \in Nat
<1>1. IsFiniteSet(1..MaxEntries)
  BY SessionManagerAssumption, FS_Interval DEF SessionManagerAssumption
<1>2. IsFiniteSet(S)
  BY <1>1, FS_Subset DEF Id
<1> QED
  BY <1>2, FS_CardinalityType

\* So are those that a file has lost.
LEMMA MissingIs ==
  ASSUME NEW lines, NEW ids \in SUBSET Id
  PROVE  Missing(lines, ids) \in SUBSET Id
         /\ Cardinality(Missing(lines, ids)) \in Nat
<1>1. Missing(lines, ids) \in SUBSET Id
  BY DEF Missing
<1> QED
  BY <1>1, IdsAreFinite

\* More ids, more faults and more spoilt files take nothing from what is known
\* of a file.
LEMMA FileMore ==
  ASSUME NEW lines, NEW ids, NEW f, NEW gone, NEW gone2, NEW n \in Nat,
         NEW m \in Nat,
         NEW k \in Nat, NEW j \in Nat, FileInv(lines, ids, f, gone, n, k),
         n <= m, k <= j, f \notin gone2 => f \notin gone
  PROVE  FileInv(lines, ids, f, gone2, m, j)
<1>1. Sound(lines, m)
  BY SoundMore DEF FileInv
<1>2. ids \in SUBSET Id /\ \A i \in ids : i < m
  BY SessionManagerAssumption DEF FileInv, Id, SessionManagerAssumption
<1>3. f \notin gone2 => Counts(lines, ids, j) /\ OpenIsUnsaved(lines, ids)
  <2> SUFFICES ASSUME f \notin gone2
        PROVE Counts(lines, ids, j) /\ OpenIsUnsaved(lines, ids)
    OBVIOUS
  <2>1. Counts(lines, ids, k) /\ OpenIsUnsaved(lines, ids)
    BY DEF FileInv
  <2>2. Cardinality(Missing(lines, ids)) \in Nat
    BY <1>2, MissingIs
  <2> QED
    BY <2>1, <2>2 DEF Counts
<1>4. j = 0 => Intact(lines)
  BY DEF FileInv
<1> QED
  BY <1>1, <1>2, <1>3, <1>4 DEF FileInv

\* The ids of entries.
LEMMA IdsOf ==
  ASSUME NEW es \in Seq(Entry)
  PROVE  /\ Ids(es) \in SUBSET Id
         /\ \A x : x \in Ids(es) <=> \E i \in 1..Len(es) : x = es[i].id
<1>1. DOMAIN es = 1..Len(es)
  OBVIOUS
<1> QED
  BY <1>1, ElementOfSeq, EntryIs DEF Ids

\* A file that was written as a whole has everything that was saved.
LEMMA FileWhole ==
  ASSUME NEW es, Tree(es), NEW n \in Nat, Older(es, n), NEW f, NEW gone,
         NEW k \in Nat
  PROVE  FileInv(WholeFile(es), Ids(es), f, gone, n, k)
<1> DEFINE w == WholeFile(es)
<1>1. Sound(w, n) /\ Loaded(w) = es /\ ~EndsOpen(w)
  BY WholeFileSound DEF Older
<1>2. Intact(w)
  BY DEF Intact
<1> HIDE DEF w
<1>3. Missing(w, Ids(es)) = {}
  BY <1>1 DEF Missing
<1>4. Counts(w, Ids(es), k)
  BY <1>1, <1>3, FS_EmptySet DEF Counts
<1>5. ~EndsUnended(w)
  BY <1>1 DEF EndsUnended, EndsOpen
<1>6. es \in Seq(Entry)
  BY DEF Tree
<1>7. Ids(es) \in SUBSET Id /\ \A i \in Ids(es) : i < n
  BY <1>6, IdsOf DEF Older
<1>8. FileInv(w, Ids(es), f, gone, n, k)
  BY <1>1, <1>2, <1>4, <1>5, <1>7 DEF FileInv, OpenIsUnsaved
<1> QED
  BY <1>8 DEF w

\* Where nothing was saved, nothing is lost.
LEMMA NothingSaved ==
  ASSUME NEW lines, NEW n \in Nat, Sound(lines, n), NEW f, NEW gone,
         NEW k \in Nat, k > 0
  PROVE  FileInv(lines, {}, f, gone, n, k)
<1>1. Missing(lines, {}) = {}
  BY DEF Missing
<1>2. Counts(lines, {}, k)
  BY <1>1, FS_EmptySet DEF Counts
<1> QED
  BY <1>2 DEF FileInv, OpenIsUnsaved

\* That is so in a file whose first write was cut off.
LEMMA FileBegun ==
  ASSUME NEW es, Tree(es), NEW n \in Nat, Older(es, n), NEW f, NEW gone,
         NEW k \in Nat, k > 0,
         NEW b \in Beginnings(WholeFile(es))
  PROVE  FileInv(b, {}, f, gone, n, k)
BY BeginningsAre, NothingSaved DEF Older

-----------------------------------------------------------------------------
(* What a file gives back after one more write *)

\* Prefixes of a sequence.
LEMMA PrefixIs ==
  ASSUME NEW T, NEW s \in Seq(T), NEW e \in T
  PROVE  IsPrefix(<< >>, s) /\ IsPrefix(s, s) /\ IsPrefix(s, Append(s, e))
<1>1. Len(s) \in Nat /\ SubSeq(s, 1, Len(s)) = s
  OBVIOUS
<1>2. Len(<< >>) = 0 /\ SubSeq(<< >>, 1, 0) = << >> /\ SubSeq(s, 1, 0) = << >>
  BY SubSeqEmpty
<1>3. IsPrefix(<< >>, s)
  BY <1>1, <1>2 DEF IsPrefix
<1>4. Len(Append(s, e)) = Len(s) + 1
  BY AppendProperties
<1>5. SubSeq(Append(s, e), 1, Len(s)) = s
  OBVIOUS
<1> QED
  BY <1>1, <1>3, <1>4, <1>5 DEF IsPrefix

\* A file that gave nothing back has nothing to lose, ...
LEMMA NothingGrows ==
  ASSUME NEW old, NEW new \in Seq(Line), Loaded(Ended(old)) = << >>
  PROVE  Grows(old, new)
<1>1. Loaded(new) = << >> \/ Loaded(new) = Kept(new)
  BY LoadedIs
<1>e. << >> \in Seq(Entry) /\ Kept(new) \in Seq(Entry)
  BY KeptType
<1>2. Loaded(new) \in Seq(Entry)
  BY <1>1, <1>e
<1>3. Len(<< >>) = 0 /\ SubSeq(<< >>, 1, 0) = << >>
      /\ SubSeq(Loaded(new), 1, 0) = << >>
  BY SubSeqEmpty
<1>4. Len(Loaded(new)) \in Nat
  BY <1>2
<1> QED
  BY <1>3, <1>4 DEF Grows, IsPrefix

\* The lines that have ended.
LEMMA EndedIs ==
  ASSUME NEW lines, NEW n, Sound(lines, n)
  PROVE  /\ Sound(Ended(lines), n) /\ Ended(lines) \in Seq(Line)
         /\ EndsOpen(lines) => Kept(Ended(lines)) = Kept(Front(lines))
         /\ ~EndsOpen(lines) => Ended(lines) = lines
         /\ IsSession(Ended(lines)) => /\ IsSession(lines)
                                       /\ lines # << Unended(Header) >>
         /\ \/ Kept(lines) = Kept(Ended(lines))
            \/ \E e \in Entry : Kept(lines) = Append(Kept(Ended(lines)), e)
<1>0. lines \in Seq(Line) /\ Len(lines) \in Nat
  BY DEF Sound
<1>1. CASE EndsUnended(lines)
  <2>1. lines # << >> /\ EndsOpen(lines) /\ Ended(lines) = Front(lines)
    BY <1>1 DEF EndsUnended, EndsOpen, Ended
  <2>2. /\ Front(lines) \in Seq(Line) /\ Last(lines) \in Line
        /\ lines = Append(Front(lines), Last(lines))
        /\ Kept(lines) = OneMore(Kept(Front(lines)), Parsed(Last(lines)),
             Entry)
        /\ Sound(Front(lines), n)
    BY <2>1, SoundFront
  <2>3. ASSUME IsSession(Front(lines))
        PROVE  IsSession(lines) /\ lines # << Unended(Header) >>
    <3> DEFINE r == Front(lines)
    <3>1. r \in Seq(Line) /\ r # << >> /\ Parsed(r[1]) = Header
          /\ lines = Append(r, Last(lines))
      BY <2>2, <2>3, SessionIs
    <3> HIDE DEF r
    <3>2. 1 \in 1..Len(r)
      BY <3>1
    <3>3. lines[1] = r[1] /\ Len(lines) = Len(r) + 1
      BY <2>2, <3>1, <3>2, AppendProperties
    <3>4. IsSession(lines)
      BY <2>1, <3>1, <3>3, SessionIs
    <3>5. Len(<< Unended(Header) >>) = 1
      OBVIOUS
    <3>6. Len(lines) # 1
      BY <3>1, <3>2, <3>3
    <3> QED
      BY <3>4, <3>5, <3>6
  <2>4. \/ Kept(lines) = Kept(Front(lines))
        \/ \E e \in Entry : Kept(lines) = Append(Kept(Front(lines)), e)
    BY <2>2 DEF OneMore
  <2> QED
    BY <2>1, <2>2, <2>3, <2>4
<1>2. CASE ~EndsUnended(lines) /\ EndsOpen(lines)
  <2>1. lines # << >> /\ Last(lines).kind = "half" /\ Ended(lines) = lines
    BY <1>2 DEF EndsUnended, EndsOpen, Ended
  <2>2. Last(lines) \in Line
        /\ Kept(lines) = OneMore(Kept(Front(lines)), Parsed(Last(lines)),
        Entry)
    BY <2>1, SoundFront
  <2>3. Last(lines) = Half
    BY <2>1, <2>2, LineCases, LineKinds DEF Kind
  <2>4. Kept(lines) = Kept(Front(lines))
    BY <2>2, <2>3, ParsedIs DEF OneMore
  <2>5. lines # << Unended(Header) >>
    <3>1. Len(<< Unended(Header) >>) = 1
          /\ << Unended(Header) >>[1] = Unended(Header)
      OBVIOUS
    <3> QED
      BY <2>1, <3>1, LineKinds DEF Last
  <2> QED
    BY <1>0, <1>2, <2>1, <2>4, <2>5
<1>3. CASE ~EndsOpen(lines)
  <2>1. ~EndsUnended(lines)
    BY <1>3 DEF EndsUnended, EndsOpen
  <2>2. Ended(lines) = lines
    BY <2>1 DEF Ended
  <2>3. lines # << Unended(Header) >>
    <3>1. Len(<< Unended(Header) >>) = 1
          /\ << Unended(Header) >>[1] = Unended(Header)
          /\ << Unended(Header) >> # << >>
      OBVIOUS
    <3> QED
      BY <1>3, <3>1, LineKinds DEF Last, EndsOpen
  <2> QED
    BY <1>0, <1>3, <2>2, <2>3
<1> QED
  BY <1>1, <1>2, <1>3

\* ... one that keeps its entries, or gets one more, only grows, ...
LEMMA Regrows ==
  ASSUME NEW lines, NEW n, Sound(lines, n), NEW new \in Seq(Line),
         \/ Kept(new) = Kept(Ended(lines))
         \/ \E e \in Entry : Kept(new) = Append(Kept(Ended(lines)), e),
         IsSession(lines) /\ lines # << Unended(Header) >> => IsSession(new)
  PROVE  Grows(lines, new)
<1>1. CASE ~IsSession(Ended(lines))
  BY <1>1, LoadedIs, NothingGrows
<1>2. CASE IsSession(Ended(lines))
  <2>1. IsSession(new)
    BY <1>2, EndedIs
  <2>2. Loaded(new) = Kept(new) /\ Loaded(Ended(lines)) = Kept(Ended(lines))
    BY <1>2, <2>1, LoadedIs
  <2>3. Kept(Ended(lines)) \in Seq(Entry)
    BY EndedIs, KeptType
  <2>4. CASE Kept(new) = Kept(Ended(lines))
    <3> DEFINE s == Kept(Ended(lines))
    <3>1. SubSeq(s, 1, Len(s)) = SubSeq(s, 1, Len(s)) /\ Len(s) \in Nat
      BY <2>3
    <3> QED
      BY <2>2, <2>4, <3>1 DEF Grows, IsPrefix
  <2>5. CASE \E e \in Entry : Kept(new) = Append(Kept(Ended(lines)), e)
    BY <2>2, <2>3, <2>5, PrefixIs DEF Grows
  <2> QED
    BY <2>4, <2>5
<1> QED
  BY <1>1, <1>2

\* ... and so does one that is left alone.
LEMMA SameGrows ==
  ASSUME NEW lines, NEW n, Sound(lines, n)
  PROVE  Grows(lines, lines)
<1>1. lines \in Seq(Line)
  BY DEF Sound
<1> QED
  BY <1>1, EndedIs, Regrows

\* The line that has not ended holds nothing that was saved.
LEMMA OpenLast ==
  ASSUME NEW lines, NEW n, Sound(lines, n), EndsOpen(lines), NEW ids,
         OpenIsUnsaved(lines, ids)
  PROVE  ids \ Ids(Kept(Front(lines))) = ids \ Ids(Kept(lines))
<1>1. lines # << >> /\ Last(lines).kind \in {"half", "unended"}
  BY DEF EndsOpen
<1>2. /\ Last(lines) \in Line /\ Front(lines) \in Seq(Line)
      /\ Kept(lines) = OneMore(Kept(Front(lines)), Parsed(Last(lines)), Entry)
      /\ Tree(Kept(lines)) /\ Kept(Front(lines)) \in Seq(Entry)
  BY <1>1, SoundFront, KeptType DEF Sound
<1>3. CASE Parsed(Last(lines)) \notin Entry
  BY <1>2, <1>3 DEF OneMore
<1>4. CASE Parsed(Last(lines)) \in Entry
  <2>1. PICK w \in Lines : Last(lines) = Unended(w)
    BY <1>1, <1>2, <1>4, LineCases, LineKinds, ParsedIs DEF Kind
  <2>2. EndsUnended(lines) /\ Last(lines).line = Parsed(Last(lines))
    BY <1>1, <2>1, LineKinds, ParsedIs DEF EndsUnended
  <2>3. Parsed(Last(lines)).id \notin ids
    BY <1>4, <2>2 DEF OpenIsUnsaved
  <2>4. Kept(lines) = Append(Kept(Front(lines)), Parsed(Last(lines)))
    BY <1>2, <1>4 DEF OneMore
  <2>5. Ids(Kept(lines))
        = Ids(Kept(Front(lines))) \union {Parsed(Last(lines)).id}
    BY <1>2, <1>4, <2>4, TreeBefore
  <2> QED
    BY <2>3, <2>5
<1> QED
  BY <1>3, <1>4

\* One entry more is lost, ...
LEMMA OneMoreMissing ==
  ASSUME NEW S \in SUBSET Id, NEW x, NEW R, R \subseteq S \union {x}
  PROVE  IsFiniteSet(R) /\ Cardinality(R) <= Cardinality(S) + 1
<1>1. IsFiniteSet(S) /\ Cardinality(S) \in Nat
  BY IdsAreFinite
<1>2. IsFiniteSet(S \union {x})
      /\ Cardinality(S \union {x}) = IF x \in S THEN Cardinality(S)
           ELSE Cardinality(S) + 1
  BY <1>1, FS_AddElement
<1>3. IsFiniteSet(R) /\ Cardinality(R) <= Cardinality(S \union {x})
      /\ Cardinality(R) \in Nat
  BY <1>2, FS_Subset, FS_CardinalityType
<1> QED
  BY <1>1, <1>2, <1>3

\* ... or none.
LEMMA FewerMissing ==
  ASSUME NEW S \in SUBSET Id, NEW R, R \subseteq S
  PROVE  Cardinality(R) <= Cardinality(S)
<1>1. IsFiniteSet(S) /\ Cardinality(S) \in Nat
  BY IdsAreFinite
<1> QED
  BY <1>1, FS_Subset

\* A line added to a whole file.
LEMMA AppendToWhole ==
  ASSUME NEW es \in Seq(Entry), NEW lines, lines = WholeFile(es),
         NEW e \in Entry,
         NEW a, a = AppendLine(lines, e)
  PROVE  a = WholeFile(Append(es, e)) /\ Kept(a) = Append(es, e)
<1>1. ~EndsOpen(lines)
  <2>1. /\ Len(lines) = Len(es) + 1 /\ lines[1] = Header
        /\ \A i \in 2..(Len(es) + 1) : lines[i] \in Entry
    BY WholeFileIs
  <2>2. Len(es) \in Nat /\ (Len(lines) = 1 \/ Len(lines) \in 2..(Len(es) + 1))
    BY <2>1
  <2>3. Last(lines) = Header \/ Last(lines) \in Entry
    BY <2>1, <2>2 DEF Last
  <2> QED
    BY <2>3, LineKinds DEF EndsOpen, Kind
<1>2. a = Append(lines, e)
  BY <1>1 DEF AppendLine
<1>3. << Header >> \in Seq(Lines) /\ es \in Seq(Lines) /\ e \in Lines
      /\ << e >> \in Seq(Lines)
  BY SeqMonotonic DEF Lines
<1>4. Append(<< Header >> \o es, e) = << Header >> \o Append(es, e)
  <2> DEFINE h == << Header >>
  <2> HIDE DEF h
  <2>0. h \in Seq(Lines)
    BY <1>3 DEF h
  <2>1. Append(h \o es, e) = (h \o es) \o << e >>
        /\ Append(es, e) = es \o << e >>
    BY <1>3, <2>0, AppendIsConcat, ConcatProperties
  <2>2. (h \o es) \o << e >> = h \o (es \o << e >>)
    BY <1>3, <2>0, ConcatAssociative
  <2>3. Append(h \o es, e) = h \o Append(es, e)
    BY <2>1, <2>2
  <2> QED
    BY <2>3 DEF h
<1>5. Kept(lines) = es
  BY KeptWhole
<1>6. lines \in Seq(Line) /\ e \in Line /\ Parsed(e) = e
  BY WholeFileIs, ParsedIs DEF Line, Lines
<1>7. Kept(a) = Append(es, e)
  BY <1>2, <1>5, <1>6, KeptAppend DEF OneMore
<1> QED
  BY <1>2, <1>4, <1>7 DEF WholeFile

\* An entry is appended: it is lost if the line before was torn, and then that
\* line does not count any more.
LEMMA FileAppended ==
  ASSUME NEW lines, NEW ids, NEW f, NEW gone, NEW gone2, NEW n \in Nat,
         NEW k \in Nat,
         FileInv(lines, ids, f, gone, n, k),
         NEW e \in Entry, e.id = n, Points(e),
         IsSession(lines) \/ f \in gone,
         f \notin gone2 => f \notin gone /\ lines # << Unended(Header) >>,
         NEW a, a = AppendLine(lines, e)
  PROVE  /\ FileInv(a, ids \union {n}, f, gone2, n + 1, k)
         /\ Grows(lines, a)
         /\ IsSession(a) \/ f \in gone2
<1>0. /\ Sound(lines, n) /\ lines \in Seq(Line) /\ ids \in SUBSET Id
         /\ \A i \in ids : i < n
      /\ f \notin gone => Counts(lines, ids, k) /\ OpenIsUnsaved(lines, ids)
      /\ k = 0 => Intact(lines)
      /\ n + 1 \in Nat /\ n <= n + 1 /\ n <= e.id /\ e.id < n + 1
  BY DEF FileInv, Sound
<1>1. /\ Sound(a, n + 1) /\ a # << >> /\ ~EndsOpen(a)
      /\ EndsOpen(lines) => Kept(a) = Kept(Front(lines))
      /\ ~EndsOpen(lines) => Kept(a) = Append(Kept(lines), e)
      /\ IsSession(lines) /\ lines # << Unended(Header) >> => IsSession(a)
  BY <1>0, AppendLineIs
<1>2. f \notin gone2 => IsSession(lines) /\ IsSession(a)
  BY <1>1
<1>3. ASSUME f \notin gone2 PROVE Counts(a, ids \union {n}, k)
  <2>1. /\ Counts(lines, ids, k) /\ OpenIsUnsaved(lines, ids)
        /\ Loaded(lines) = Kept(lines) /\ Loaded(a) = Kept(a)
    BY <1>0, <1>2, <1>3, LoadedIs
  <2>2. Missing(lines, ids) \in SUBSET Id
        /\ Cardinality(Missing(lines, ids)) \in Nat
    BY <1>0, MissingIs
  <2>3. CASE EndsOpen(lines)
    <3>1. Missing(a, ids \union {n}) \subseteq Missing(lines, ids) \union {n}
      BY <1>0, <1>1, <2>1, <2>3, OpenLast DEF Missing
    <3>2. Cardinality(Missing(lines, ids)) < k
      BY <2>1, <2>3 DEF Counts
    <3>3. Cardinality(Missing(a, ids \union {n})) \in Nat
      BY <2>2, <3>1, OneMoreMissing, FS_CardinalityType
    <3>4. Cardinality(Missing(a, ids \union {n})) <= Cardinality(Missing(lines,
          ids)) + 1
      BY <2>2, <3>1, OneMoreMissing
    <3>5. Cardinality(Missing(a, ids \union {n})) <= k
      BY <2>2, <3>2, <3>3, <3>4
    <3> QED
      BY <1>1, <3>5 DEF Counts
  <2>4. CASE ~EndsOpen(lines)
    <3>1. Kept(lines) \in Seq(Entry) /\ Tree(Kept(a))
          /\ Kept(a) = Append(Kept(lines), e)
      BY <1>0, <1>1, <2>4, KeptType DEF Sound
    <3>2. Ids(Kept(a)) = Ids(Kept(lines)) \union {n}
      BY <3>1, TreeBefore
    <3>3. Missing(a, ids \union {n}) \subseteq Missing(lines, ids)
      BY <2>1, <3>2 DEF Missing
    <3>4. Cardinality(Missing(a, ids \union {n})) <= Cardinality(Missing(lines,
          ids))
      BY <2>2, <3>3, FewerMissing
    <3>5. Cardinality(Missing(a, ids \union {n})) \in Nat
      BY <2>2, <3>3, IdsAreFinite
    <3>6. Cardinality(Missing(lines, ids)) <= k
      BY <2>1 DEF Counts
    <3>7. Cardinality(Missing(a, ids \union {n})) <= k
      BY <2>2, <3>4, <3>5, <3>6
    <3> QED
      BY <1>1, <3>7 DEF Counts
  <2> QED
    BY <2>3, <2>4
<1>4. ~EndsUnended(a)
  BY <1>1 DEF EndsUnended, EndsOpen
<1>6. k = 0 => Intact(a)
  <2> SUFFICES ASSUME k = 0 PROVE Intact(a)
    OBVIOUS
  <2>1. PICK es : Tree(es) /\ lines = WholeFile(es)
    BY <1>0 DEF Intact
  <2>2. es \in Seq(Entry)
    BY <2>1 DEF Tree
  <2>3. a = WholeFile(Append(es, e)) /\ Kept(a) = Append(es, e)
    BY <2>1, <2>2, AppendToWhole
  <2>4. Tree(Append(es, e))
    BY <1>1, <2>3 DEF Sound
  <2> QED
    BY <2>3, <2>4 DEF Intact
<1>7. Grows(lines, a)
  <2>1. a \in Seq(Line)
    BY <1>1 DEF Sound
  <2>2. \/ Kept(a) = Kept(Ended(lines))
        \/ \E d \in Entry : Kept(a) = Append(Kept(Ended(lines)), d)
    BY <1>0, <1>1, EndedIs
  <2> QED
    BY <1>0, <1>1, <2>1, <2>2, Regrows
<1>8. ids \union {n} \in SUBSET Id /\ \A i \in ids \union {n} : i < n + 1
  <2>1. n \in Id /\ \A i \in Id : i \in Nat
    BY EntryIs, SessionManagerAssumption DEF SessionManagerAssumption, Id
  <2> QED
    BY <1>0, <2>1
<1>9. FileInv(a, ids \union {n}, f, gone2, n + 1, k)
  BY <1>1, <1>3, <1>4, <1>6, <1>8 DEF FileInv, OpenIsUnsaved
<1> QED
  BY <1>2, <1>7, <1>9

\* The write of an entry is cut off.
LEMMA FileTorn ==
  ASSUME NEW lines, NEW ids, NEW f, NEW gone, NEW gone2, NEW n \in Nat,
         NEW k \in Nat,
         FileInv(lines, ids, f, gone, n, k),
         NEW e \in Entry, e.id = n, Points(e),
         IsSession(lines) \/ f \in gone, NEW t \in Torn(lines, e),
         f \notin gone2 => f \notin gone, f \notin gone2 => t = lines
             \/ lines # << Unended(Header) >>
  PROVE  /\ FileInv(t, ids, f, gone2, n + 1, k + 1)
         /\ Grows(lines, t)
         /\ IsSession(t) \/ f \in gone2
<1>0. /\ Sound(lines, n) /\ lines \in Seq(Line) /\ ids \in SUBSET Id
         /\ \A i \in ids : i < n
      /\ f \notin gone => Counts(lines, ids, k) /\ OpenIsUnsaved(lines, ids)
      /\ n + 1 \in Nat /\ n <= n + 1 /\ n <= e.id /\ e.id < n + 1
      /\ e \in Lines /\ e # Header
  BY ParsedIs DEF FileInv, Sound, Lines
<1>1. /\ Sound(t, n + 1)
      /\ TornNothing(t, lines) \/ TornOpen(t, lines) \/ TornLine(t, lines, e)
      /\ IsSession(lines) /\ lines # << Unended(Header) >> => IsSession(t)
  BY <1>0, TornIs
<1>2. t \in Seq(Line)
  BY <1>1 DEF Sound
<1>3. f \notin gone2 => IsSession(lines) /\ IsSession(t)
  BY <1>1
<1>4. Kept(lines) \in Seq(Entry) /\ Tree(Kept(t)) /\ Kept(t) \in Seq(Entry)
  BY <1>0, <1>1, <1>2, KeptType DEF Sound
<1>5. ASSUME f \notin gone2
      PROVE  Counts(t, ids, k + 1) /\ OpenIsUnsaved(t, ids)
  <2>1. /\ Counts(lines, ids, k) /\ OpenIsUnsaved(lines, ids)
        /\ Loaded(lines) = Kept(lines) /\ Loaded(t) = Kept(t)
    BY <1>0, <1>3, <1>5, LoadedIs
  <2>2. Missing(lines, ids) \in SUBSET Id
        /\ Cardinality(Missing(lines, ids)) \in Nat
        /\ Cardinality(Missing(lines, ids)) <= k
    BY <1>0, <2>1, MissingIs DEF Counts
  <2>3. Missing(t, ids) \subseteq Missing(lines, ids) /\ OpenIsUnsaved(t, ids)
    <3>1. CASE TornNothing(t, lines)
      BY <3>1, <2>1 DEF TornNothing
    <3>2. CASE TornOpen(t, lines)
      <4>1. EndsOpen(lines) /\ ~EndsUnended(t) /\ Kept(t) = Kept(Front(lines))
        BY <3>2 DEF TornOpen
      <4>2. ids \ Ids(Kept(Front(lines))) = ids \ Ids(Kept(lines))
        BY <4>1, <2>1, <1>0, OpenLast
      <4> QED
        BY <4>1, <4>2, <2>1 DEF Missing, OpenIsUnsaved
    <3>3. CASE TornLine(t, lines, e)
      <4>1. CASE ~EndsUnended(t) /\ Kept(t) = Kept(lines)
        BY <4>1, <2>1 DEF Missing, OpenIsUnsaved
      <4>2. CASE Last(t).line = e /\ Kept(t) = OneMore(Kept(lines), e, Entry)
        <5>1. Kept(t) = Append(Kept(lines), e)
          BY <4>2 DEF OneMore
        <5>2. Ids(Kept(t)) = Ids(Kept(lines)) \union {n}
          BY <5>1, <1>4, TreeBefore
        <5>3. n \notin ids
          BY <1>0
        <5> QED
          BY <2>1, <4>2, <5>2, <5>3 DEF Missing, OpenIsUnsaved
      <4> QED
        BY <3>3, <4>1, <4>2 DEF TornLine
    <3> QED
      BY <1>1, <3>1, <3>2, <3>3
  <2>4. Cardinality(Missing(t, ids)) <= Cardinality(Missing(lines, ids))
        /\ Cardinality(Missing(t, ids)) \in Nat
    BY <2>2, <2>3, FewerMissing, IdsAreFinite
  <2>5. Cardinality(Missing(t, ids)) < k + 1
    BY <2>2, <2>4
  <2>6. Cardinality(Missing(t, ids)) <= k + 1
    BY <2>4, <2>5
  <2> QED
    BY <2>3, <2>5, <2>6 DEF Counts
<1>6. Grows(lines, t)
  <2>1. CASE TornNothing(t, lines)
    BY <2>1, <1>0, SameGrows DEF TornNothing
  <2>2. CASE TornOpen(t, lines)
    <3>1. Kept(t) = Kept(Ended(lines))
      BY <2>2, <1>0, EndedIs DEF TornOpen
    <3> QED
      BY <3>1, <1>0, <1>1, <1>2, Regrows
  <2>3. CASE TornLine(t, lines, e)
    <3>1. Ended(lines) = lines
      BY <2>3, <1>0, EndedIs DEF TornLine
    <3>2. \/ Kept(t) = Kept(Ended(lines))
          \/ \E d \in Entry : Kept(t) = Append(Kept(Ended(lines)), d)
      BY <2>3, <3>1 DEF TornLine, OneMore
    <3> QED
      BY <3>2, <1>0, <1>1, <1>2, Regrows
  <2> QED
    BY <1>1, <2>1, <2>2, <2>3
<1>7. ids \in SUBSET Id /\ \A i \in ids : i < n + 1
  <2>1. \A i \in Id : i \in Nat
    BY SessionManagerAssumption DEF SessionManagerAssumption, Id
  <2> QED
    BY <1>0, <2>1
<1>8. k + 1 # 0
  OBVIOUS
<1> QED
  BY <1>1, <1>3, <1>5, <1>6, <1>7, <1>8 DEF FileInv

\* A file without a header is begun again.
LEMMA FileTruncated ==
  ASSUME NEW lines, NEW ids, NEW f, NEW gone, NEW gone2, NEW n \in Nat,
         NEW k \in Nat,
         FileInv(lines, ids, f, gone, n, k), ~IsSession(lines),
             f \notin gone2 => f \notin gone
  PROVE  /\ FileInv(<< Header >>, ids, f, gone2, n, k)
            /\ Grows(lines, << Header >>)
         /\ \A b \in Beginnings(<< Header >>) :
              FileInv(b, ids, f, gone2, n, k + 1) /\ Grows(lines, b)
<1>0. /\ Sound(lines, n) /\ ids \in SUBSET Id /\ \A i \in ids : i < n
      /\ f \notin gone => Counts(lines, ids, k)
  BY DEF FileInv
<1>1. Loaded(lines) = << >> /\ Loaded(Ended(lines)) = << >>
  BY <1>0, LoadedIs, EndedIs
<1>2. Missing(lines, ids) = ids /\ Cardinality(ids) \in Nat
  BY <1>0, <1>1, TreeNil, IdsAreFinite DEF Missing
<1>3. << Header >> = WholeFile(<< >>)
  BY DEF WholeFile
<1>4. /\ Tree(<< >>) /\ Ids(<< >>) = {} /\ Len(<< >>) = 0
         /\ \A i \in 1..0 : FALSE
      /\ << >> \in Seq(Entry)
  BY TreeNil
<1> DEFINE h == << Header >>
<1>5. Sound(h, n) /\ Loaded(h) = << >> /\ ~EndsOpen(h) /\ Intact(h)
  BY <1>3, <1>4, WholeFileSound DEF Intact
<1> HIDE DEF h
<1>6. FileInv(h, ids, f, gone2, n, k) /\ Grows(lines, h)
  <2>1. Missing(h, ids) = Missing(lines, ids)
    BY <1>1, <1>5 DEF Missing
  <2>2. ~EndsUnended(h)
    BY <1>5 DEF EndsUnended, EndsOpen
  <2>3. Grows(lines, h)
    BY <1>1, <1>5, NothingGrows DEF Sound
  <2> QED
    BY <1>0, <1>5, <2>1, <2>2, <2>3 DEF FileInv, Counts, OpenIsUnsaved
<1>7. ASSUME NEW b \in Beginnings(<< Header >>)
      PROVE  FileInv(b, ids, f, gone2, n, k + 1) /\ Grows(lines, b)
  <2>1. Sound(b, n) /\ Kept(b) = << >>
        /\ (EndsUnended(b) => Last(b).line \notin Entry)
    <3>1. Sound(b, 0) /\ 0 <= n
      BY BeginningsOfHeader
    <3>2. Sound(b, n)
      BY <3>1, SoundMore
    <3> QED
      BY <3>2, BeginningsOfHeader
  <2>2. Loaded(b) = << >>
    BY <2>1, LoadedIs
  <2>3. Missing(b, ids) = Missing(lines, ids)
    BY <1>1, <2>2 DEF Missing
  <2>4. f \notin gone2 => Cardinality(Missing(b, ids)) <= k
        /\ Cardinality(Missing(b, ids)) \in Nat
    BY <1>0, <1>2, <2>3 DEF Counts
  <2>5. f \notin gone2 => Counts(b, ids, k + 1)
    BY <2>4 DEF Counts
  <2>6. Grows(lines, b)
    BY <1>1, <2>1, NothingGrows DEF Sound
  <2>7. k + 1 # 0
    OBVIOUS
  <2> QED
    BY <1>0, <2>1, <2>5, <2>6, <2>7 DEF FileInv, OpenIsUnsaved
<1> QED
  BY <1>6, <1>7 DEF h

-----------------------------------------------------------------------------
(* The invariant *)

\* The names are fresh, ...
Names ==
    /\ running \in BOOLEAN /\ flushed \in BOOLEAN
    /\ sessionFile \in {0} \union File /\ sessionFile < nextFile
    /\ running => sessionFile \in File
    /\ nextId \in 1..(MaxEntries + 1) /\ nextFile \in 1..(MaxFiles + 1)
    /\ faults \in 0..MaxFaults

\* ... the session in memory is a tree, ...
Memory ==
    /\ Tree(fileEntries) /\ Older(fileEntries, nextId)
    /\ leafId \in {0} \union Ids(fileEntries)
    /\ labels \subseteq Id

\* ... so is what every file holds, ...
Disk ==
    /\ DOMAIN files \subseteq File /\ spoilt \subseteq DOMAIN files
    /\ saved \in [File -> SUBSET Id]
    /\ \A f \in File : saved[f] # {} => f \in DOMAIN files
    /\ \A f \in DOMAIN files : f < nextFile
    /\ \A f \in DOMAIN files :
         FileInv(files[f], saved[f], f, spoilt, nextId, faults)

\* ... the file of a session has a header, ...
Headed ==
    running /\ flushed => /\ sessionFile \in DOMAIN files
                          /\ IsSession(files[sessionFile])
                               \/ sessionFile \in spoilt

\* ... and as long as there was no fault it has the session.
InStep ==
    running /\ faults = 0 =>
      /\ labels = LabelsOf(fileEntries)
      /\ flushed => files[sessionFile] = WholeFile(fileEntries)
      /\ ~flushed => sessionFile \notin DOMAIN files /\ ~HasReply(fileEntries)

\* The inductive invariant.
SInv == Names /\ Memory /\ Disk /\ Headed /\ InStep

\* What every step does to the files.
FilesGrow == \A f \in DOMAIN files : f \in DOMAIN files'
    /\ Grows(files[f], files'[f])

\* What a write does to the disk.
LEMMA WriteFileIs ==
  ASSUME spoilt \subseteq DOMAIN files, NEW f \in File, NEW lines,
         WriteFile(f, lines)
  PROVE  /\ DOMAIN files' = DOMAIN files \union {f} /\ files'[f] = lines
         /\ \A g \in DOMAIN files : g # f => files'[g] = files[g]
         /\ spoilt \subseteq spoilt' /\ spoilt' \subseteq DOMAIN files'
         /\ f \in DOMAIN files /\ f \notin spoilt' =>
              lines = files[f] \/ files[f] # << Unended(Header) >>
<1>1. /\ DOMAIN files' = DOMAIN files \union {f} /\ files'[f] = lines
      /\ \A g \in DOMAIN files : g # f => files'[g] = files[g]
  BY DEF WriteFile
<1>2. spoilt' = spoilt \union { g \in DOMAIN files :
      /\ files[g] = << Unended(Header) >>
                                                     /\ files'[g] # files[g] }
  BY DEF WriteFile
<1> QED
  BY <1>1, <1>2

\* The disk after a write to one file.
LEMMA Written ==
  ASSUME SInv, NEW f \in File, NEW lines, WriteFile(f, lines), f < nextFile',
         saved' \in [File -> SUBSET Id],
         \A g \in File : g # f => saved'[g] = saved[g],
         nextId' \in Nat, nextId <= nextId', faults' \in Nat,
             faults <= faults',
         nextFile' \in Nat, nextFile <= nextFile',
         FileInv(lines, saved'[f], f, spoilt', nextId', faults'),
         f \in DOMAIN files => Grows(files[f], lines)
  PROVE  Disk' /\ FilesGrow
<1>1. /\ DOMAIN files \subseteq File /\ spoilt \subseteq DOMAIN files
      /\ \A g \in File : saved[g] # {} => g \in DOMAIN files
      /\ \A g \in DOMAIN files : g < nextFile
      /\ nextId \in Nat /\ faults \in Nat /\ nextFile \in Nat
  BY SessionManagerAssumption DEF SessionManagerAssumption, SInv, Disk, Names
<1>2. /\ DOMAIN files' = DOMAIN files \union {f} /\ files'[f] = lines
      /\ \A g \in DOMAIN files : g # f => files'[g] = files[g]
      /\ spoilt \subseteq spoilt' /\ spoilt' \subseteq DOMAIN files'
  BY <1>1, WriteFileIs
<1>3. \A g \in DOMAIN files' : g < nextFile'
  <2> TAKE g \in DOMAIN files'
  <2>1. g = f \/ g \in DOMAIN files
    BY <1>2
  <2>2. \A h \in File : h \in Nat
    BY SessionManagerAssumption DEF SessionManagerAssumption, File
  <2> QED
    BY <2>1, <2>2, <1>1
<1>4. ASSUME NEW g \in DOMAIN files'
      PROVE  FileInv(files'[g], saved'[g], g, spoilt', nextId', faults')
  <2>1. CASE g = f
    BY <2>1, <1>2
  <2>2. CASE g # f
    <3>1. g \in DOMAIN files /\ files'[g] = files[g] /\ saved'[g] = saved[g]
      BY <2>2, <1>1, <1>2
    <3>2. FileInv(files[g], saved[g], g, spoilt, nextId, faults)
      BY <3>1 DEF SInv, Disk
    <3>3. ~(g \in spoilt') => ~(g \in spoilt)
      BY <1>2
    <3>4. FileInv(files[g], saved[g], g, spoilt', nextId', faults')
      BY <3>2, <3>3, <1>1, FileMore
    <3> QED
      BY <3>1, <3>4
  <2> QED
    BY <2>1, <2>2
<1>5. Disk'
  BY <1>1, <1>2, <1>3, <1>4 DEF Disk
<1>6. FilesGrow
  <2> SUFFICES ASSUME NEW g \in DOMAIN files
               PROVE  g \in DOMAIN files' /\ Grows(files[g], files'[g])
    BY DEF FilesGrow
  <2>1. CASE g = f
    BY <2>1, <1>2
  <2>2. CASE g # f
    <3>1. files'[g] = files[g] /\ g \in DOMAIN files'
      BY <2>2, <1>2
    <3>2. Sound(files[g], nextId)
      BY DEF SInv, Disk, FileInv
    <3> QED
      BY <3>1, <3>2, SameGrows
  <2> QED
    BY <2>1, <2>2
<1> QED
  BY <1>5, <1>6

\* The disk after a step that writes nothing.
LEMMA NotWritten ==
  ASSUME SInv, UNCHANGED << disk, saved >>,
         nextId' \in Nat, nextId <= nextId', faults' \in Nat,
             faults <= faults',
         nextFile' \in Nat, nextFile <= nextFile'
  PROVE  Disk' /\ FilesGrow
<1>1. /\ DOMAIN files \subseteq File /\ spoilt \subseteq DOMAIN files
      /\ saved \in [File -> SUBSET Id]
      /\ \A g \in File : saved[g] # {} => g \in DOMAIN files
      /\ \A g \in DOMAIN files : g < nextFile
      /\ nextId \in Nat /\ faults \in Nat /\ nextFile \in Nat
      /\ files' = files /\ spoilt' = spoilt /\ saved' = saved
  BY SessionManagerAssumption DEF SessionManagerAssumption, SInv, Disk, Names,
       disk
<1>2. ASSUME NEW g \in DOMAIN files
      PROVE  FileInv(files[g], saved[g], g, spoilt, nextId', faults')
  <2>1. FileInv(files[g], saved[g], g, spoilt, nextId, faults)
    BY DEF SInv, Disk
  <2>2. ~(g \in spoilt) => ~(g \in spoilt)
    OBVIOUS
  <2> QED
    BY <2>1, <2>2, <1>1, FileMore
<1>3. \A g \in DOMAIN files : g < nextFile'
  <2>1. \A h \in File : h \in Nat
    BY SessionManagerAssumption DEF SessionManagerAssumption, File
  <2> QED
    BY <2>1, <1>1
<1>4. Disk'
  BY <1>1, <1>2, <1>3 DEF Disk
<1>5. \A g \in DOMAIN files : Sound(files[g], nextId)
  BY DEF SInv, Disk, FileInv
<1>6. FilesGrow
  BY <1>1, <1>5, SameGrows DEF FilesGrow
<1> QED
  BY <1>4, <1>6

\* The invariant holds before there is a manager.
LEMMA InitInv == Init => SInv
<1> SUFFICES ASSUME Init PROVE SInv
  OBVIOUS
<1>1. DOMAIN files = {}
  BY DEF Init
<1>2. Names
  <2>1. running \in BOOLEAN /\ flushed \in BOOLEAN /\ ~running
    BY DEF Init
  <2>2. /\ sessionFile \in {0} \union File /\ sessionFile < nextFile
        /\ nextId \in 1..(MaxEntries + 1) /\ nextFile \in 1..(MaxFiles + 1)
        /\ faults \in 0..MaxFaults
    BY SessionManagerAssumption DEF SessionManagerAssumption, Init
  <2> QED
    BY <2>1, <2>2 DEF Names
<1>3. Memory
  BY TreeNil DEF Init, Memory, Older
<1>4. Disk
  BY <1>1 DEF Init, Disk
<1> QED
  BY <1>2, <1>3, <1>4 DEF SInv, Headed, InStep, Init

-----------------------------------------------------------------------------
(* A new entry *)

\* The entry that AppendEntry appends.
NewEntry(parent, kind, ref) ==
    [id |-> nextId, parent |-> parent, kind |-> kind, ref |-> ref]

\* The entry of AppendEntry is the newest one of the tree.
LEMMA NewEntryIs ==
  ASSUME SInv, nextId \in Id, NEW parent \in {0} \union Ids(fileEntries),
         NEW kind \in Kind, NEW ref \in {0} \union Id, kind = "label" =>
             ref \in Id
  PROVE  LET e == NewEntry(parent, kind, ref)
             entries == Append(fileEntries, e)
         IN  /\ e \in Entry /\ e.id = nextId /\ e.kind = kind /\ e.ref = ref
             /\ Points(e) /\ nextId \in Nat
             /\ Tree(entries) /\ Older(entries, nextId + 1)
             /\ entries \in Seq(Entry) /\ fileEntries \in Seq(Entry)
             /\ entries # << >> /\ Last(entries) = e
             /\ nextId \in Ids(entries)
<1> DEFINE e == NewEntry(parent, kind, ref)
           entries == Append(fileEntries, e)
<1>1. /\ Tree(fileEntries) /\ Older(fileEntries, nextId) /\ nextId \in Nat
         /\ nextId > 0
      /\ fileEntries \in Seq(Entry) /\ Len(fileEntries) \in Nat
  BY SessionManagerAssumption DEF SessionManagerAssumption, SInv, Memory,
       Names, Tree
<1>2. parent \in {0} \union Id /\ parent \in Nat /\ parent < nextId
  <2>1. \A x \in Ids(fileEntries) : x \in Id /\ x < nextId
    BY <1>1, IdsOf DEF Older
  <2>2. \A x \in Id : x \in Nat
    BY SessionManagerAssumption DEF SessionManagerAssumption, Id
  <2> QED
    BY <1>1, <2>1, <2>2
<1>3. /\ e \in Entry /\ e.id = nextId /\ e.kind = kind /\ e.ref = ref
         /\ e.parent = parent
  BY <1>2 DEF NewEntry, Entry, EntryOf
<1>4. Points(e)
  BY <1>2, <1>3 DEF Points
<1> HIDE DEF e
<1>5. Tree(entries) /\ Ids(entries) = Ids(fileEntries) \union {nextId}
  BY <1>1, <1>3, <1>4, TreeAppend DEF Older
<1>6. /\ entries \in Seq(Entry) /\ Len(entries) = Len(fileEntries) + 1
      /\ entries[Len(fileEntries) + 1] = e
      /\ \A i \in 1..Len(fileEntries) : entries[i] = fileEntries[i]
  BY <1>1, <1>3, AppendProperties
<1> HIDE DEF entries
<1>7. entries # << >> /\ Last(entries) = e
  BY <1>1, <1>6 DEF Last
<1>8. Older(entries, nextId + 1)
  <2> SUFFICES ASSUME NEW i \in 1..Len(entries)
        PROVE entries[i].id < nextId + 1
    BY DEF Older
  <2>1. CASE i = Len(fileEntries) + 1
    BY <2>1, <1>1, <1>3, <1>6
  <2>2. CASE i \in 1..Len(fileEntries)
    <3>1. fileEntries[i].id \in Nat /\ fileEntries[i].id < nextId
      BY <2>2, <1>1, TreeIs DEF Older
    <3> QED
      BY <3>1, <2>2, <1>1, <1>6
  <2> QED
    BY <2>1, <2>2, <1>1, <1>6
<1> QED
  BY <1>1, <1>3, <1>4, <1>5, <1>6, <1>7, <1>8 DEF e, entries

\* The new state of the session in memory.
LEMMA NewMemory ==
  ASSUME NEW es, Tree(es), NEW n \in 1..(MaxEntries + 1), Older(es, n),
         NEW l \in {0} \union Ids(es), NEW s, s \subseteq Id,
         fileEntries' = es, leafId' = l, labels' = s, nextId' = n
  PROVE  Memory'
BY DEF Memory

\* The manager is gone.
LEMMA Gone ==
  ASSUME Nowhere, nextId' \in 1..(MaxEntries + 1),
         nextFile' \in 1..(MaxFiles + 1),
         faults' \in 0..MaxFaults
  PROVE  Names' /\ Memory' /\ Headed' /\ InStep'
<1>1. Memory'
  BY TreeNil DEF Nowhere, Memory, Older
<1>2. Names'
  <2>1. running' = FALSE /\ flushed' = FALSE /\ sessionFile' = 0
    BY DEF Nowhere
  <2>2. sessionFile' \in {0} \union File /\ sessionFile' < nextFile'
    BY <2>1, SessionManagerAssumption DEF SessionManagerAssumption
  <2> QED
    BY <2>1, <2>2 DEF Names
<1> QED
  BY <1>1, <1>2 DEF Headed, InStep, Nowhere

\* The ranges of the numbers.
LEMMA NumbersAre ==
  ASSUME SInv
  PROVE  /\ nextId \in Nat /\ nextId > 0 /\ nextFile \in Nat /\ faults \in Nat
         /\ nextId \in 1..(MaxEntries + 1) /\ nextFile \in 1..(MaxFiles + 1)
         /\ faults \in 0..MaxFaults /\ faults <= faults /\ nextId <= nextId
         /\ nextFile <= nextFile
BY SessionManagerAssumption DEF SessionManagerAssumption, SInv, Names

\* The entry is persisted.
LEMMA Persisted ==
  ASSUME SInv, running, NEW e \in Entry, e.id = nextId, Points(e),
         NEW entries, entries = Append(fileEntries, e), Tree(entries),
         Older(entries, nextId + 1), Last(entries) = e,
         nextId' = nextId + 1, nextFile' = nextFile, Persist(entries),
         running' = running, sessionFile' = sessionFile, fileEntries' = entries
  PROVE  /\ Disk' /\ FilesGrow /\ Headed'
         /\ flushed' \in BOOLEAN /\ faults' = faults
         /\ running' /\ faults' = 0 =>
              /\ flushed' => files'[sessionFile'] = WholeFile(fileEntries')
              /\ ~flushed' => sessionFile' \notin DOMAIN files'
                   /\ ~HasReply(fileEntries')
<1> DEFINE f == sessionFile
<1>1. /\ f \in File /\ f < nextFile /\ flushed \in BOOLEAN /\ faults' = faults
      /\ saved \in [File -> SUBSET Id] /\ spoilt \subseteq DOMAIN files
      /\ nextId' \in Nat /\ nextId <= nextId' /\ nextFile' \in Nat
           /\ nextFile <= nextFile'
      /\ faults' \in Nat /\ faults <= faults' /\ f < nextFile'
  BY NumbersAre DEF SInv, Names, Disk, Persist
<1>2. CASE Deferred(entries) /\ UNCHANGED << disk, flushed, saved >>
  <2>1. UNCHANGED << disk, saved >> /\ files' = files
    BY <1>2 DEF disk
  <2>2. Disk' /\ FilesGrow
    BY <1>1, <2>1, NotWritten
  <2>3. ~flushed /\ flushed' = flushed /\ ~HasReply(entries)
    BY <1>2 DEF Deferred
  <2>4. faults = 0 => sessionFile \notin DOMAIN files
    BY <2>3 DEF SInv, InStep
  <2> QED
    BY <1>1, <2>1, <2>2, <2>3, <2>4 DEF Headed
<1>3. CASE /\ FirstFlush(entries) /\ f \notin DOMAIN files
           /\ WriteFile(f, << Header >> \o entries)
           /\ flushed' = TRUE
           /\ saved' = [saved EXCEPT ![f] = Ids(entries)]
  <2>1. WriteFile(f, WholeFile(entries)) /\ entries \in Seq(Entry)
    BY <1>3 DEF WholeFile, Tree
  <2>2. /\ saved' \in [File -> SUBSET Id] /\ saved'[f] = Ids(entries)
        /\ \A g \in File : g # f => saved'[g] = saved[g]
    BY <1>1, <1>3, <2>1, IdsOf
  <2>3. FileInv(WholeFile(entries), saved'[f], f, spoilt', nextId', faults')
    <3>1. FileInv(WholeFile(entries), Ids(entries), f, spoilt', nextId',
          faults')
      BY <1>1, FileWhole
    <3> QED
      BY <3>1, <2>2
  <2>4. Disk' /\ FilesGrow
    BY <1>1, <1>3, <2>1, <2>2, <2>3, Written
  <2>5. f \in DOMAIN files' /\ files'[f] = WholeFile(entries)
    BY <1>1, <2>1, WriteFileIs
  <2>6. IsSession(files'[f])
    BY <2>5, WholeFileSound DEF Older
  <2> QED
    BY <1>1, <1>3, <2>4, <2>5, <2>6 DEF Headed
<1>4. CASE /\ flushed
           /\ WriteFile(f, AppendLine(files[f], e))
           /\ saved' = [saved EXCEPT ![f] = @ \union {e.id}]
           /\ flushed' = flushed
  <2> DEFINE old == files[f]
             new == AppendLine(files[f], e)
  <2>1. f \in DOMAIN files /\ (IsSession(old) \/ f \in spoilt)
    BY <1>4 DEF SInv, Headed
  <2>2. FileInv(old, saved[f], f, spoilt, nextId, faults)
    BY <2>1 DEF SInv, Disk
  <2>3. /\ f \in DOMAIN files' /\ files'[f] = new /\ spoilt \subseteq spoilt'
        /\ f \notin spoilt' => new = old \/ old # << Unended(Header) >>
    BY <1>1, <1>4, <2>1, WriteFileIs
  <2>4. f \notin spoilt' => old # << Unended(Header) >>
    <3> SUFFICES ASSUME old = << Unended(Header) >>, new = old PROVE FALSE
      BY <2>3
    <3>1. old # << >> /\ Last(old) = Unended(Header) /\ EndsOpen(old)
      BY LineKinds DEF Last, EndsOpen
    <3>2. new = Append(Front(old), Garbage)
          /\ old = Append(Front(old), Last(old))
          /\ Front(old) \in Seq(Line)
      BY <2>2, <3>1, SoundFront DEF AppendLine, FileInv
    <3>g. Garbage \in Line
      BY DEF Line
    <3>a. Last(Append(Front(old), Garbage)) = Garbage
      BY <3>2, <3>g, LineEnds
    <3> HIDE DEF new, old
    <3>3. Last(new) = Garbage
      BY <3>2, <3>a
    <3> QED
      BY <3>1, <3>3, LineKinds
  <2>5. FileInv(old, saved[f], f, spoilt, nextId, faults)
        /\ (IsSession(old) \/ f \in spoilt)
        /\ (f \notin spoilt' => f \notin spoilt /\ old # << Unended(Header) >>)
    BY <2>1, <2>2, <2>3, <2>4
  <2>6. old = files[f] /\ new = AppendLine(old, e)
    OBVIOUS
  <2> HIDE DEF old, new
  <2>7. /\ FileInv(new, saved[f] \union {nextId}, f, spoilt', nextId + 1,
           faults)
        /\ Grows(old, new) /\ (IsSession(new) \/ f \in spoilt')
    <3>1. nextId \in Nat /\ faults \in Nat
      BY NumbersAre
    <3> HIDE DEF f
    <3>2. FileInv(old, saved[f], f, spoilt, nextId, faults)
      BY <2>5
    <3>3. IsSession(old) \/ f \in spoilt
      BY <2>5
    <3>4. f \notin spoilt' => f \notin spoilt /\ old # << Unended(Header) >>
      BY <2>5
    <3>5. new = AppendLine(old, e)
      BY <2>6
    <3>6. FileInv(new, saved[f] \union {nextId}, f, spoilt', nextId + 1,
          faults)
      BY <3>1, <3>2, <3>3, <3>4, <3>5, FileAppended
    <3>7. Grows(old, new)
      BY <3>1, <3>2, <3>3, <3>4, <3>5, FileAppended
    <3>8. IsSession(new) \/ f \in spoilt'
      BY <3>1, <3>2, <3>3, <3>4, <3>5, FileAppended
    <3> QED
      BY <3>6, <3>7, <3>8
  <2>8. /\ saved' \in [File -> SUBSET Id]
           /\ saved'[f] = saved[f] \union {nextId}
        /\ \A g \in File : g # f => saved'[g] = saved[g]
    BY <1>1, <1>4, EntryIs
  <2>9. FileInv(new, saved'[f], f, spoilt', nextId', faults')
    BY <1>1, <2>7, <2>8
  <2>10. Disk' /\ FilesGrow
    BY <1>1, <1>4, <2>6, <2>7, <2>8, <2>9, Written
  <2>11. Headed'
    BY <2>3, <2>7 DEF Headed
  <2>12. faults = 0 => files'[f] = WholeFile(entries)
    <3>1. faults = 0 => old = WholeFile(fileEntries)
      BY <1>4, <2>6 DEF SInv, InStep
    <3>2. fileEntries \in Seq(Entry)
      BY DEF SInv, Memory, Tree
    <3> QED
      BY <2>3, <2>6, <3>1, <3>2, AppendToWhole
  <2> QED
    BY <1>1, <1>4, <2>10, <2>11, <2>12
<1> QED
  BY <1>2, <1>3, <1>4 DEF Persist

\* The write of the entry is cut off.
LEMMA WriteCutOff ==
  ASSUME SInv, running, NEW e \in Entry, e.id = nextId, Points(e),
         NEW entries, entries = Append(fileEntries, e), Tree(entries),
         Older(entries, nextId + 1), Last(entries) = e,
         nextId' = nextId + 1, nextFile' = nextFile, CutOff(entries)
  PROVE  /\ Disk' /\ FilesGrow
         /\ flushed => /\ sessionFile \in DOMAIN files'
                       /\ IsSession(files'[sessionFile])
                            \/ sessionFile \in spoilt'
         /\ faults' \in 1..MaxFaults
<1> DEFINE f == sessionFile
<1>1. /\ f \in File /\ f < nextFile /\ flushed \in BOOLEAN
         /\ faults' = faults + 1
      /\ saved \in [File -> SUBSET Id] /\ spoilt \subseteq DOMAIN files
      /\ \A g \in File : saved[g] # {} => g \in DOMAIN files
      /\ nextId' \in Nat /\ nextId <= nextId' /\ nextFile' \in Nat
           /\ nextFile <= nextFile'
      /\ faults' \in Nat /\ faults <= faults' /\ f < nextFile' /\ faults' > 0
      /\ saved' = saved
  BY NumbersAre DEF SInv, Names, Disk, CutOff, Fault
<1>2. faults' \in 1..MaxFaults
  BY NumbersAre, SessionManagerAssumption DEF SessionManagerAssumption, CutOff,
       Fault
<1>3. ASSUME FirstFlush(entries), f \notin DOMAIN files,
             NEW b \in Beginnings(WholeFile(entries)), WriteFile(f, b)
      PROVE  Disk' /\ FilesGrow /\ ~flushed
  <2>1. saved'[f] = {}
    BY <1>1, <1>3
  <2>2. FileInv(b, saved'[f], f, spoilt', nextId', faults')
    <3>1. FileInv(b, {}, f, spoilt', nextId', faults')
      BY <1>1, FileBegun
    <3> QED
      BY <3>1, <2>1
  <2>3. Disk' /\ FilesGrow
    BY <1>1, <1>3, <2>2, Written
  <2> QED
    BY <1>3, <2>3 DEF FirstFlush
<1>4. ASSUME flushed, NEW t \in Torn(files[f], e), WriteFile(f, t)
      PROVE  /\ Disk' /\ FilesGrow /\ f \in DOMAIN files'
             /\ IsSession(files'[f]) \/ f \in spoilt'
  <2> DEFINE old == files[f]
  <2>1. f \in DOMAIN files /\ (IsSession(old) \/ f \in spoilt)
    BY <1>4 DEF SInv, Headed
  <2>2. FileInv(old, saved[f], f, spoilt, nextId, faults)
    BY <2>1 DEF SInv, Disk
  <2>3. /\ f \in DOMAIN files' /\ files'[f] = t
           /\ (f \notin spoilt' => f \notin spoilt)
        /\ f \notin spoilt' => t = old \/ old # << Unended(Header) >>
    BY <1>1, <1>4, <2>1, WriteFileIs
  <2>4. t \in Torn(old, e)
    BY <1>4
  <2>5. old = files[f]
    OBVIOUS
  <2> HIDE DEF old
  <2>6. /\ FileInv(t, saved[f], f, spoilt', nextId + 1, faults + 1)
        /\ Grows(old, t) /\ (IsSession(t) \/ f \in spoilt')
    <3>1. nextId \in Nat /\ faults \in Nat
      BY NumbersAre
    <3> HIDE DEF f
    <3> QED
      BY <2>1, <2>2, <2>3, <2>4, <3>1, FileTorn
  <2>7. FileInv(t, saved'[f], f, spoilt', nextId', faults')
    BY <1>1, <2>6
  <2>8. Disk' /\ FilesGrow
    BY <1>1, <1>4, <2>5, <2>6, <2>7, Written
  <2> QED
    BY <2>3, <2>6, <2>8
<1> QED
  BY <1>2, <1>3, <1>4 DEF CutOff, WholeFile

\* A new entry preserves the invariant, if the labels follow it, ...
LEMMA AppendEntryStep ==
  ASSUME SInv, NEW parent \in {0} \union Ids(fileEntries), NEW kind \in Kind,
         NEW ref \in {0} \union Id, kind = "label" => ref \in Id,
         NEW named, named \subseteq Id,
         labels = LabelsOf(fileEntries) =>
           named = LabelsOf(Append(fileEntries, NewEntry(parent, kind, ref))),
         AppendEntry(parent, kind, ref, named)
  PROVE  SInv' /\ FilesGrow
<1> DEFINE e == NewEntry(parent, kind, ref)
           entries == Append(fileEntries, e)
           Remember == /\ fileEntries' = entries /\ leafId' = nextId
                       /\ UNCHANGED << running, sessionFile >>
<1>0. /\ running /\ nextId \in Id /\ nextId' = nextId + 1
         /\ nextFile' = nextFile
      /\ \/ Persist(entries) /\ Remember /\ labels' = named
         \/ /\ CutOff(entries) \/ FileExists(entries)
            /\ Remember /\ UNCHANGED << labels, flushed >>
         \/ CutOff(entries) /\ Nowhere
  BY DEF AppendEntry, NewEntry
<1>a. labels = LabelsOf(fileEntries) => named = LabelsOf(entries)
  OBVIOUS
<1>1. /\ e \in Entry /\ e.id = nextId /\ Points(e) /\ nextId \in Nat
      /\ Tree(entries) /\ Older(entries, nextId + 1) /\ entries \in Seq(Entry)
      /\ Last(entries) = e /\ nextId \in Ids(entries)
  BY <1>0, NewEntryIs
<1>2. entries = Append(fileEntries, e)
  OBVIOUS
<1> HIDE DEF e, entries
<1>3. /\ nextId' \in 1..(MaxEntries + 1) /\ nextFile' \in 1..(MaxFiles + 1)
      /\ nextId' \in Nat /\ nextId <= nextId' /\ nextFile' \in Nat
           /\ nextFile <= nextFile'
      /\ sessionFile \in File /\ sessionFile < nextFile /\ flushed \in BOOLEAN
      /\ labels \subseteq Id /\ faults \in Nat
  BY <1>0, NumbersAre, SessionManagerAssumption
  DEF SessionManagerAssumption, Id, SInv, Names, Memory
<1>4. ASSUME Remember, labels' \subseteq Id, flushed' \in BOOLEAN,
      faults' \in 0..MaxFaults
      PROVE  Names' /\ Memory' /\ running'
  <2>1. /\ running' = running /\ sessionFile' = sessionFile
        /\ fileEntries' = entries /\ leafId' = nextId
    BY <1>4
  <2>2. Memory'
    BY <1>0, <1>1, <1>3, <1>4, <2>1, NewMemory
  <2>3. Names'
    BY <1>0, <1>3, <1>4, <2>1 DEF Names, SInv
  <2> QED
    BY <1>0, <2>1, <2>2, <2>3
<1>5. CASE Persist(entries) /\ Remember /\ labels' = named
  <2>1. /\ running' = running /\ sessionFile' = sessionFile
           /\ fileEntries' = entries
    BY <1>5
  <2>2. /\ Disk' /\ FilesGrow /\ Headed'
        /\ flushed' \in BOOLEAN /\ faults' = faults
        /\ running' /\ faults' = 0 =>
             /\ flushed' => files'[sessionFile'] = WholeFile(fileEntries')
             /\ ~flushed' => sessionFile' \notin DOMAIN files'
                  /\ ~HasReply(fileEntries')
    BY <1>0, <1>1, <1>2, <1>5, <2>1, Persisted
  <2>3. faults' \in 0..MaxFaults
    BY <2>2, NumbersAre
  <2>4. Names' /\ Memory' /\ running'
    BY <1>4, <1>5, <2>2, <2>3
  <2>5. faults = 0 => labels' = LabelsOf(fileEntries')
    <3>1. faults = 0 => labels = LabelsOf(fileEntries)
      BY <1>0 DEF SInv, InStep
    <3> QED
      BY <1>5, <1>a, <2>1, <3>1
  <2>6. InStep'
    BY <2>2, <2>5 DEF InStep
  <2> QED
    BY <2>2, <2>4, <2>6 DEF SInv
<1>6. CASE CutOff(entries) /\ Remember /\ UNCHANGED << labels, flushed >>
  <2>1. /\ Disk' /\ FilesGrow
        /\ flushed => /\ sessionFile \in DOMAIN files'
                      /\ IsSession(files'[sessionFile])
                           \/ sessionFile \in spoilt'
        /\ faults' \in 1..MaxFaults
    BY <1>0, <1>1, <1>2, <1>6, WriteCutOff
  <2>2. faults' \in 0..MaxFaults /\ faults' # 0
    BY <2>1
  <2>3. Names' /\ Memory' /\ running'
    BY <1>3, <1>4, <1>6, <2>2
  <2>4. Headed' /\ InStep'
    BY <1>6, <2>1, <2>2 DEF Headed, InStep
  <2> QED
    BY <2>1, <2>3, <2>4 DEF SInv
<1>7. CASE FileExists(entries) /\ Remember /\ UNCHANGED << labels, flushed >>
  <2>1. /\ UNCHANGED << disk, saved >> /\ faults' = faults /\ ~flushed
        /\ sessionFile \in DOMAIN files
    BY <1>7 DEF FileExists, FirstFlush, history
  <2>2. Disk' /\ FilesGrow
    BY <1>3, <2>1, NumbersAre, NotWritten
  <2>3. faults' \in 0..MaxFaults
    BY <2>1, NumbersAre
  <2>4. Names' /\ Memory' /\ running'
    BY <1>3, <1>4, <1>7, <2>3
  <2>5. faults # 0
    BY <1>0, <2>1 DEF SInv, InStep
  <2>6. Headed' /\ InStep'
    BY <1>7, <2>1, <2>5 DEF Headed, InStep
  <2> QED
    BY <2>2, <2>4, <2>6 DEF SInv
<1>8. CASE CutOff(entries) /\ Nowhere
  <2>1. Disk' /\ FilesGrow /\ faults' \in 1..MaxFaults
    BY <1>0, <1>1, <1>2, <1>8, WriteCutOff
  <2>2. faults' \in 0..MaxFaults
    BY <2>1
  <2>3. Names' /\ Memory' /\ Headed' /\ InStep'
    BY <1>3, <1>8, <2>2, Gone
  <2> QED
    BY <2>1, <2>3 DEF SInv
<1> QED
  BY <1>0, <1>5, <1>6, <1>7, <1>8

\* ... and every operation that appends one takes care of that.
LEMMA AppendSteps ==
  ASSUME SInv, AppendMessage \/ AppendCompaction \/ AppendLabelChange
         \/ BranchWithSummary
  PROVE  SInv' /\ FilesGrow
<1>0. /\ labels \subseteq Id /\ leafId \in {0} \union Ids(fileEntries)
      /\ Tree(fileEntries) /\ fileEntries \in Seq(Entry)
           /\ 0 \in {0} \union Ids(fileEntries)
  BY DEF SInv, Memory, Tree
<1>1. Ids(fileEntries) \subseteq Id
  BY <1>0, IdsOf
<1>2. ASSUME NEW parent \in {0} \union Ids(fileEntries), NEW kind \in Kind,
             NEW ref \in {0} \union Id, kind = "label" => ref \in Id,
                 nextId \in Id
      PROVE  LET entries == Append(fileEntries, NewEntry(parent, kind, ref))
             IN  LabelsOf(entries) =
                   IF kind = "label" THEN LabelsOf(fileEntries) \union {ref}
                   ELSE IF kind = "unlabel" THEN LabelsOf(fileEntries) \ {ref}
                        ELSE LabelsOf(fileEntries)
  <2> DEFINE e == NewEntry(parent, kind, ref)
  <2>1. e \in Entry /\ e.kind = kind /\ e.ref = ref
    BY <1>2, NewEntryIs
  <2> HIDE DEF e
  <2>2. LabelsOf(Append(fileEntries, e)) =
          IF e.kind = "label" THEN LabelsOf(fileEntries) \union {e.ref}
          ELSE IF e.kind = "unlabel" THEN LabelsOf(fileEntries) \ {e.ref}
               ELSE LabelsOf(fileEntries)
    BY <1>0, <2>1, LabelsAppend
  <2> QED
    BY <2>1, <2>2 DEF e
<1>3. ASSUME NEW parent \in {0} \union Ids(fileEntries), NEW kind \in Kind,
             NEW ref \in {0} \union Id, kind \notin {"label", "unlabel"},
             AppendEntry(parent, kind, ref, labels)
      PROVE  SInv' /\ FilesGrow
  <2>1. nextId \in Id
    BY <1>3 DEF AppendEntry
  <2>2. labels = LabelsOf(fileEntries) =>
          labels = LabelsOf(Append(fileEntries, NewEntry(parent, kind, ref)))
    BY <1>2, <1>3, <2>1
  <2> QED
    BY <1>0, <1>3, <2>2, AppendEntryStep
<1>4. CASE AppendMessage
  <2>1. PICK kind \in {"user", "assistant", "setting"} : AppendEntry(leafId,
        kind, 0, labels)
    BY <1>4 DEF AppendMessage
  <2>2. kind \in Kind /\ kind \notin {"label", "unlabel"}
        /\ 0 \in {0} \union Id
    BY DEF Kind
  <2> QED
    BY <1>0, <1>3, <2>1, <2>2
<1>5. CASE AppendCompaction
  <2>1. PICK first \in Ids(GetBranch(fileEntries, leafId)) :
          AppendEntry(leafId, "compaction", first, labels)
    BY <1>5 DEF AppendCompaction
  <2>2. Ids(GetBranch(fileEntries, leafId)) \subseteq Ids(fileEntries)
    BY <1>0, GetBranchIs
  <2>3. first \in {0} \union Id /\ "compaction" \in Kind
    BY <1>1, <2>2 DEF Kind
  <2> QED
    BY <1>0, <1>3, <2>1, <2>3
<1>6. CASE AppendLabelChange
  <2>1. PICK target \in Ids(fileEntries) :
          \/ AppendEntry(leafId, "label", target, labels \union {target})
          \/ AppendEntry(leafId, "unlabel", target, labels \ {target})
    BY <1>6 DEF AppendLabelChange
  <2>2. target \in Id /\ target \in {0} \union Id /\ "label" \in Kind
        /\ "unlabel" \in Kind
        /\ labels \union {target} \subseteq Id
             /\ labels \ {target} \subseteq Id
        /\ nextId \in Id
    BY <1>0, <1>1, <2>1 DEF Kind, AppendEntry
  <2>3. CASE AppendEntry(leafId, "label", target, labels \union {target})
    <3>1. LabelsOf(Append(fileEntries, NewEntry(leafId, "label", target)))
            = LabelsOf(fileEntries) \union {target}
      BY <1>0, <1>2, <2>2
    <3> QED
      BY <1>0, <2>2, <2>3, <3>1, AppendEntryStep
  <2>4. CASE AppendEntry(leafId, "unlabel", target, labels \ {target})
    <3>1. LabelsOf(Append(fileEntries, NewEntry(leafId, "unlabel", target)))
            = LabelsOf(fileEntries) \ {target}
      BY <1>0, <1>2, <2>2
    <3> QED
      BY <1>0, <2>2, <2>4, <3>1, AppendEntryStep
  <2> QED
    BY <2>1, <2>3, <2>4
<1>7. CASE BranchWithSummary
  <2>1. PICK from \in {0} \union Ids(fileEntries) :
          AppendEntry(from, "branch_summary", from, labels)
    BY <1>7 DEF BranchWithSummary
  <2>2. from \in {0} \union Id /\ "branch_summary" \in Kind
    BY <1>1 DEF Kind
  <2> QED
    BY <1>3, <2>1, <2>2
<1> QED
  BY <1>4, <1>5, <1>6, <1>7

-----------------------------------------------------------------------------
(* Sessions are opened and left *)

\* The entries with a label in a tree.
LEMMA TreeLabels ==
  ASSUME NEW es, Tree(es)
  PROVE  LabelsOf(es) \subseteq Id
<1>1. \A i \in DOMAIN es : Points(es[i])
  BY TreeIs
<1> QED
  BY <1>1 DEF LabelsOf, OfKind, Points

\* An empty session has no labels.
LEMMA LabelsNil == LabelsOf(<< >>) = {}
<1>1. DOMAIN << >> = {}
  OBVIOUS
<1> QED
  BY <1>1 DEF LabelsOf, OfKind

\* A session that was loaded, or made from a branch.
LEMMA Started ==
  ASSUME NEW f \in File, f < nextFile', NEW es, Tree(es), Older(es, nextId'),
         nextId' \in 1..(MaxEntries + 1), nextFile' \in 1..(MaxFiles + 1),
         faults' \in 0..MaxFaults,
         running' = TRUE, sessionFile' = f, flushed' \in BOOLEAN,
         fileEntries' = es, leafId' = LastId(es), labels' = LabelsOf(es)
  PROVE  Names' /\ Memory'
<1>1. LastId(es) \in {0} \union Ids(es)
  BY LastIdIs
<1>2. Memory'
  BY <1>1, TreeLabels DEF Memory
<1> QED
  BY <1>2 DEF Names

\* A session is written to a file of its own.
LEMMA NewFile ==
  ASSUME SInv, nextFile \in File, nextFile' = nextFile + 1,
         NEW es, Tree(es), Older(es, nextId'),
         nextId' \in 1..(MaxEntries + 1), nextId <= nextId',
         \/ /\ WriteFile(nextFile, WholeFile(es)) /\ Load(nextFile, es)
            /\ saved' = [saved EXCEPT ![nextFile] = Ids(es)]
            /\ faults' = faults
         \/ Interrupted(nextFile, WholeFile(es))
  PROVE  SInv' /\ FilesGrow
<1> DEFINE f == nextFile
<1>1. /\ f \in File /\ f \in Nat /\ f < nextFile'
         /\ nextFile' \in 1..(MaxFiles + 1)
      /\ nextFile' \in Nat /\ nextFile <= nextFile' /\ nextId' \in Nat
      /\ saved \in [File -> SUBSET Id] /\ spoilt \subseteq DOMAIN files
      /\ \A g \in File : saved[g] # {} => g \in DOMAIN files
      /\ f \notin DOMAIN files
  <2>1. \A g \in DOMAIN files : g < f
    BY DEF SInv, Disk
  <2>2. f \in Nat /\ ~(f < f)
    BY NumbersAre
  <2>3. f \notin DOMAIN files
    BY <2>1, <2>2
  <2> QED
    BY <2>2, <2>3, SessionManagerAssumption
    DEF SessionManagerAssumption, File, SInv, Disk
<1>2. CASE /\ WriteFile(f, WholeFile(es)) /\ Load(f, es)
           /\ saved' = [saved EXCEPT ![f] = Ids(es)] /\ faults' = faults
  <2>0. faults' \in Nat /\ faults <= faults' /\ faults' \in 0..MaxFaults
    BY <1>2, NumbersAre
  <2>1. Ids(es) \in SUBSET Id
    BY IdsOf DEF Tree
  <2>2. /\ saved' \in [File -> SUBSET Id] /\ saved'[f] = Ids(es)
        /\ \A g \in File : g # f => saved'[g] = saved[g]
    BY <1>1, <1>2, <2>1
  <2>3. FileInv(WholeFile(es), saved'[f], f, spoilt', nextId', faults')
    BY <1>1, <2>0, <2>2, FileWhole
  <2>4. Disk' /\ FilesGrow
    BY <1>1, <1>2, <2>0, <2>2, <2>3, Written
  <2>5. Names' /\ Memory'
    BY <1>1, <1>2, <2>0, Started DEF Load
  <2>6. f \in DOMAIN files' /\ files'[f] = WholeFile(es)
    BY <1>1, <1>2, WriteFileIs
  <2>7. IsSession(WholeFile(es))
    BY WholeFileSound DEF Older
  <2>8. Headed' /\ InStep'
    BY <1>2, <2>6, <2>7 DEF Headed, InStep, Load
  <2> QED
    BY <2>4, <2>5, <2>8 DEF SInv
<1>3. CASE Interrupted(f, WholeFile(es))
  <2>0. /\ faults' = faults + 1 /\ faults' \in 0..MaxFaults /\ faults' \in Nat
        /\ faults <= faults' /\ faults' > 0 /\ saved' = saved /\ Nowhere
    BY <1>3, NumbersAre, SessionManagerAssumption
    DEF SessionManagerAssumption, Interrupted, Fault
  <2>1. PICK b \in Beginnings(WholeFile(es)) : WriteFile(f, b)
    BY <1>3 DEF Interrupted
  <2>2. FileInv(b, {}, f, spoilt', nextId', faults')
    BY <1>1, <2>0, FileBegun
  <2>3. FileInv(b, saved'[f], f, spoilt', nextId', faults')
    <3>1. saved'[f] = {}
      BY <1>1, <2>0
    <3> QED
      BY <2>2, <3>1
  <2>4. Disk' /\ FilesGrow
    BY <1>1, <2>0, <2>1, <2>3, Written
  <2>5. Names' /\ Memory' /\ Headed' /\ InStep'
    BY <1>1, <2>0, Gone
  <2> QED
    BY <2>4, <2>5 DEF SInv
<1> QED
  BY <1>2, <1>3

\* What is loaded from a file.
LEMMA LoadedFile ==
  ASSUME SInv, NEW f \in DOMAIN files, IsSession(files[f])
  PROVE  LET es == Loaded(files[f])
         IN  /\ Tree(es) /\ Older(es, nextId)
             /\ faults = 0 => files[f] = WholeFile(es)
<1>1. /\ FileInv(files[f], saved[f], f, spoilt, nextId, faults) /\ f \in File
  BY DEF SInv, Disk
<1>2. Loaded(files[f]) = Kept(files[f])
  BY LoadedIs
<1>3. Tree(Kept(files[f])) /\ Older(Kept(files[f]), nextId)
  BY <1>1 DEF FileInv, Sound, Older
<1>4. ASSUME faults = 0 PROVE files[f] = WholeFile(Loaded(files[f]))
  <2>1. PICK es : Tree(es) /\ files[f] = WholeFile(es)
    BY <1>1, <1>4 DEF FileInv, Intact
  <2>2. Kept(files[f]) = es
    BY <2>1, KeptWhole DEF Tree
  <2> QED
    BY <1>2, <2>1, <2>2
<1> QED
  BY <1>2, <1>3, <1>4

\* A session is opened, ...
LEMMA OpenStep ==
  ASSUME SInv, NEW f \in File, Open(f)
  PROVE  SInv' /\ FilesGrow
<1> DEFINE es == Loaded(files[f])
<1>1. /\ f \in DOMAIN files /\ IsSession(files[f]) /\ Load(f, es)
      /\ files' = files /\ spoilt' = spoilt /\ saved' = saved
           /\ faults' = faults
      /\ nextId' = nextId /\ nextFile' = nextFile /\ UNCHANGED << disk,
           saved >>
  BY DEF Open, disk, history
<1>2. Tree(es) /\ Older(es, nextId) /\ (faults = 0 => files[f] = WholeFile(es))
  BY <1>1, LoadedFile
<1>3. f < nextFile
  BY <1>1 DEF SInv, Disk
<1>4. Disk' /\ FilesGrow
  BY <1>1, NumbersAre, NotWritten
<1> HIDE DEF es
<1>5. Names' /\ Memory'
  BY <1>1, <1>2, <1>3, NumbersAre, Started DEF Load
<1>6. Headed' /\ InStep'
  BY <1>1, <1>2 DEF Headed, InStep, Load
<1> QED
  BY <1>4, <1>5, <1>6 DEF SInv

\* ... or begun again because its header is missing, ...
LEMMA OpenCorruptedStep ==
  ASSUME SInv, NEW f \in File, OpenCorrupted(f)
  PROVE  SInv' /\ FilesGrow
<1>1. /\ f \in DOMAIN files /\ ~IsSession(files[f])
      /\ nextId' = nextId /\ nextFile' = nextFile
      /\ f < nextFile /\ FileInv(files[f], saved[f], f, spoilt, nextId, faults)
      /\ saved \in [File -> SUBSET Id] /\ spoilt \subseteq DOMAIN files
  BY DEF OpenCorrupted, SInv, Disk
<1>2. CASE WriteFile(f, << Header >>) /\ Load(f, << >>) /\ UNCHANGED history
  <2>0. saved' = saved /\ faults' = faults
    BY <1>2 DEF history
  <2>1. f \notin spoilt' => f \notin spoilt
    BY <1>1, <1>2, WriteFileIs
  <2>2. FileInv(<< Header >>, saved[f], f, spoilt', nextId, faults)
        /\ Grows(files[f], << Header >>)
    BY <1>1, <2>1, NumbersAre, FileTruncated
  <2>3. Disk' /\ FilesGrow
    BY <1>1, <1>2, <2>0, <2>2, NumbersAre, Written
  <2>4. Tree(<< >>) /\ Len(<< >>) = 0 /\ Older(<< >>, nextId)
        /\ << Header >> = WholeFile(<< >>)
    BY TreeNil DEF Older, WholeFile
  <2>5. Names' /\ Memory'
    <3>1. /\ running' = TRUE /\ sessionFile' = f /\ flushed' \in BOOLEAN
          /\ fileEntries' = << >> /\ leafId' = LastId(<< >>)
               /\ labels' = LabelsOf(<< >>)
      BY <1>2 DEF Load
    <3>2. /\ nextId' \in 1..(MaxEntries + 1) /\ nextFile' \in 1..(MaxFiles + 1)
          /\ faults' \in 0..MaxFaults /\ f < nextFile' /\ Older(<< >>, nextId')
      BY <1>1, <2>0, <2>4, NumbersAre
    <3> QED
      BY <2>4, <3>1, <3>2, Started
  <2>6. f \in DOMAIN files' /\ files'[f] = WholeFile(<< >>)
    BY <1>1, <1>2, <2>4, WriteFileIs
  <2>7. IsSession(WholeFile(<< >>))
    BY <2>4, WholeFileSound DEF Older
  <2>8. Headed' /\ InStep'
    BY <1>2, <2>6, <2>7 DEF Headed, InStep, Load
  <2> QED
    BY <2>3, <2>5, <2>8 DEF SInv
<1>3. CASE Interrupted(f, << Header >>)
  <2>0. /\ faults' = faults + 1 /\ faults' \in 0..MaxFaults /\ faults' \in Nat
        /\ faults <= faults' /\ saved' = saved /\ Nowhere
    BY <1>3, NumbersAre, SessionManagerAssumption
    DEF SessionManagerAssumption, Interrupted, Fault
  <2>1. PICK b \in Beginnings(<< Header >>) : WriteFile(f, b)
    BY <1>3 DEF Interrupted
  <2>2. f \notin spoilt' => f \notin spoilt
    BY <1>1, <2>1, WriteFileIs
  <2>3. FileInv(b, saved[f], f, spoilt', nextId, faults + 1)
        /\ Grows(files[f], b)
    BY <1>1, <2>2, NumbersAre, FileTruncated
  <2>4. Disk' /\ FilesGrow
    BY <1>1, <2>0, <2>1, <2>3, NumbersAre, Written
  <2>5. Names' /\ Memory' /\ Headed' /\ InStep'
    BY <1>1, <2>0, NumbersAre, Gone
  <2> QED
    BY <2>4, <2>5 DEF SInv
<1> QED
  BY <1>2, <1>3 DEF OpenCorrupted

\* ... or copied, ...
LEMMA ForkFromStep ==
  ASSUME SInv, NEW f \in File, ForkFrom(f)
  PROVE  SInv' /\ FilesGrow
<1> DEFINE es == Loaded(files[f])
<1>1. /\ f \in DOMAIN files /\ IsSession(files[f])
      /\ nextFile \in File /\ nextFile' = nextFile + 1 /\ nextId' = nextId
      /\ \/ /\ WriteFile(nextFile, WholeFile(es)) /\ Load(nextFile, es)
            /\ saved' = [saved EXCEPT ![nextFile] = Ids(es)]
            /\ faults' = faults
         \/ Interrupted(nextFile, WholeFile(es))
  BY DEF ForkFrom, WholeFile
<1>2. Tree(es) /\ Older(es, nextId)
  BY <1>1, LoadedFile
<1> HIDE DEF es
<1> QED
  BY <1>1, <1>2, NumbersAre, NewFile

\* ... or made from a branch.
LEMMA CreateBranchedSessionStep ==
  ASSUME SInv, NEW id \in Id, CreateBranchedSession(id)
  PROVE  SInv' /\ FilesGrow
<1> DEFINE es == BranchEntries(id)
<1>1. /\ nextFile \in File /\ nextFile' = nextFile + 1
      /\ { i \in Ids(es) : i >= nextId } \subseteq Id /\ nextId' = NextOf(es)
      /\ \/ /\ WriteFile(nextFile, WholeFile(es)) /\ Load(nextFile, es)
            /\ saved' = [saved EXCEPT ![nextFile] = Ids(es)]
            /\ faults' = faults
         \/ /\ ~HasReply(es)
            /\ running' = TRUE /\ sessionFile' = nextFile /\ flushed' = FALSE
            /\ fileEntries' = es /\ leafId' = LastId(es)
                 /\ labels' = LabelsOf(es)
            /\ UNCHANGED << disk, history >>
         \/ Interrupted(nextFile, WholeFile(es))
  BY DEF CreateBranchedSession, WholeFile, NextOf
<1>2. /\ Tree(es) /\ Older(es, NextOf(es))
      /\ NextOf(es) \in 1..(MaxEntries + 1) /\ nextId <= NextOf(es)
  BY <1>1, NumbersAre, BranchEntriesAre DEF SInv, Memory
<1> HIDE DEF es
<1>3. CASE \/ /\ WriteFile(nextFile, WholeFile(es)) /\ Load(nextFile, es)
              /\ saved' = [saved EXCEPT ![nextFile] = Ids(es)]
              /\ faults' = faults
           \/ Interrupted(nextFile, WholeFile(es))
  BY <1>1, <1>2, <1>3, NewFile
<1>4. CASE /\ ~HasReply(es)
           /\ running' = TRUE /\ sessionFile' = nextFile /\ flushed' = FALSE
           /\ fileEntries' = es /\ leafId' = LastId(es)
                /\ labels' = LabelsOf(es)
           /\ UNCHANGED << disk, history >>
  <2>1. /\ files' = files /\ saved' = saved /\ faults' = faults
        /\ UNCHANGED << disk, saved >>
    BY <1>4 DEF disk, history
  <2>2. /\ nextFile \in Nat /\ nextFile' \in 1..(MaxFiles + 1)
           /\ nextFile < nextFile'
        /\ nextFile <= nextFile' /\ nextFile' \in Nat /\ nextId' \in Nat
        /\ faults' \in 0..MaxFaults /\ faults <= faults' /\ faults' \in Nat
    BY <1>1, <1>2, <2>1, NumbersAre, SessionManagerAssumption
    DEF SessionManagerAssumption, File
  <2>3. Disk' /\ FilesGrow
    BY <1>1, <1>2, <2>1, <2>2, NotWritten
  <2>4. Names' /\ Memory'
    BY <1>1, <1>2, <1>4, <2>2, Started
  <2>5. nextFile \notin DOMAIN files
    <3>1. \A g \in DOMAIN files : g < nextFile
      BY DEF SInv, Disk
    <3> QED
      BY <2>2, <3>1
  <2>6. Headed' /\ InStep'
    BY <1>4, <2>1, <2>5 DEF Headed, InStep
  <2> QED
    BY <2>3, <2>4, <2>6 DEF SInv
<1> QED
  BY <1>1, <1>3, <1>4

\* The steps that write nothing and create no entry.
LEMMA QuietSteps ==
  ASSUME SInv, Exit \/ NewSession \/ MoveLeaf \/ UNCHANGED vars
  PROVE  SInv' /\ FilesGrow
<1>1. UNCHANGED << disk, saved, nextId, faults >> /\ files' = files
      /\ spoilt' = spoilt
  BY DEF Exit, NewSession, MoveLeaf, vars, history, disk
<1>2. CASE Exit
  <2>1. nextFile' = nextFile /\ Nowhere
    BY <1>2 DEF Exit
  <2>2. Disk' /\ FilesGrow
    BY <1>1, <2>1, NumbersAre, NotWritten
  <2>3. Names' /\ Memory' /\ Headed' /\ InStep'
    BY <1>1, <2>1, NumbersAre, Gone
  <2> QED
    BY <2>2, <2>3 DEF SInv
<1>3. CASE NewSession
  <2>1. /\ nextFile \in File /\ nextFile' = nextFile + 1
        /\ running' = TRUE /\ sessionFile' = nextFile /\ flushed' = FALSE
        /\ fileEntries' = << >> /\ leafId' = 0 /\ labels' = {}
    BY <1>3 DEF NewSession
  <2>2. /\ nextFile \in Nat /\ nextFile' \in 1..(MaxFiles + 1)
           /\ nextFile < nextFile'
        /\ nextFile <= nextFile' /\ nextFile' \in Nat
    BY <2>1, SessionManagerAssumption DEF SessionManagerAssumption, File
  <2>3. Disk' /\ FilesGrow
    BY <1>1, <2>2, NumbersAre, NotWritten
  <2>4. Tree(<< >>) /\ Len(<< >>) = 0 /\ Older(<< >>, nextId')
        /\ DOMAIN << >> = {}
    BY TreeNil DEF Older
  <2>5. Memory'
    BY <1>1, <2>1, <2>4, NumbersAre, NewMemory
  <2>6. Names'
    BY <1>1, <2>1, <2>2, NumbersAre DEF Names
  <2>7. nextFile \notin DOMAIN files
    <3>1. \A g \in DOMAIN files : g < nextFile
      BY DEF SInv, Disk
    <3> QED
      BY <2>2, <3>1
  <2>8. ~HasReply(<< >>)
    BY <2>4 DEF HasReply, OfKind
  <2>9. Headed' /\ InStep'
    BY <1>1, <2>1, <2>7, <2>8, LabelsNil DEF Headed, InStep
  <2> QED
    BY <2>3, <2>5, <2>6, <2>9 DEF SInv
<1>4. CASE MoveLeaf
  <2>1. /\ leafId' \in {0} \union Ids(fileEntries) /\ nextFile' = nextFile
        /\ UNCHANGED << running, sessionFile, fileEntries, labels, flushed >>
    BY <1>4 DEF MoveLeaf
  <2>2. Disk' /\ FilesGrow
    BY <1>1, <2>1, NumbersAre, NotWritten
  <2>3. Names' /\ Memory' /\ Headed' /\ InStep'
    BY <1>1, <2>1 DEF SInv, Names, Memory, Headed, InStep
  <2> QED
    BY <2>2, <2>3 DEF SInv
<1>5. CASE UNCHANGED vars
  <2>1. /\ nextFile' = nextFile
        /\ UNCHANGED << running, sessionFile, fileEntries, leafId, labels,
             flushed >>
    BY <1>5 DEF vars, memory
  <2>2. Disk' /\ FilesGrow
    BY <1>1, <2>1, NumbersAre, NotWritten
  <2>3. Names' /\ Memory' /\ Headed' /\ InStep'
    BY <1>1, <2>1 DEF SInv, Names, Memory, Headed, InStep
  <2> QED
    BY <2>2, <2>3 DEF SInv
<1> QED
  BY <1>2, <1>3, <1>4, <1>5

\* Every step preserves the invariant and lets the files only grow.
LEMMA Steps ==
  ASSUME SInv, [Next]_vars
  PROVE  SInv' /\ FilesGrow
BY AppendSteps, OpenStep, OpenCorruptedStep, ForkFromStep,
   CreateBranchedSessionStep, QuietSteps DEF Next

-----------------------------------------------------------------------------
(* What a branched session shows the model *)

\* A session whose entries follow each other is the branch of its last entry.
LEMMA ChainIsItsBranch ==
  ASSUME NEW es, Tree(es), es # << >>,
         \A k \in 2..Len(es) : es[k].parent = es[k - 1].id
  PROVE  GetBranch(es, LastId(es)) = es
<1> DEFINE n == Len(es)
<1>1. /\ es \in Seq(Entry) /\ n \in Nat /\ n > 0
      /\ \A i \in 1..n : es[i] \in Entry /\ es[i].id \in Nat
      /\ \A i \in 1..n : es[i].parent \in Nat /\ es[i].parent < es[i].id
      /\ \A i, j \in 1..n : i < j => es[i].id < es[j].id
  BY TreeIs DEF Tree, Points
<1>2. PICK f : IsBranch(f, es, n)
      /\ GetBranch(es, LastId(es)) = f[Position(es, LastId(es))]
  BY BranchIs
<1>3. Position(es, LastId(es)) = n
  <2>1. n \in 1..n /\ LastId(es) = es[n].id
    BY <1>1, LastIdIs
  <2>2. \A i \in 1..n : es[i].id = LastId(es) => Position(es, LastId(es)) = i
    BY PositionIs
  <2> QED
    BY <2>1, <2>2
<1>4. ASSUME NEW i \in 1..n PROVE Position(es, es[i].parent) = i - 1
  <2>1. CASE i = 1
    <3>1. ASSUME NEW j \in 1..n PROVE es[j].id # es[1].parent
      <4>1. j = 1 \/ 1 < j
        OBVIOUS
      <4>2. 1 \in 1..n /\ es[1].parent < es[1].id
        BY <1>1
      <4>3. 1 < j => es[1].id < es[j].id
        BY <1>1, <4>2
      <4>4. es[1].parent \in Nat /\ es[1].id \in Nat /\ es[j].id \in Nat
        BY <1>1, <4>2
      <4> QED
        BY <4>1, <4>2, <4>3, <4>4
    <3>2. /\ Position(es, es[1].parent) \in 0..n
          /\ Position(es, es[1].parent) # 0
               => es[Position(es, es[1].parent)].id = es[1].parent
      BY PositionIs
    <3>3. Position(es, es[1].parent) = 0
      BY <3>1, <3>2
    <3> QED
      BY <2>1, <3>3
  <2>2. CASE i # 1
    <3>1. i \in 2..n /\ i - 1 \in 1..n
      BY <1>1, <2>2
    <3>2. es[i].parent = es[i - 1].id
      BY <3>1
    <3>3. \A j \in 1..n : es[j].id = es[i].parent =>
          Position(es, es[i].parent) = j
      BY PositionIs
    <3> QED
      BY <3>1, <3>2, <3>3
  <2> QED
    BY <2>1, <2>2
<1>5. /\ f[0] = << >>
      /\ \A i \in 1..n : f[i] = Append(f[i - 1], es[i])
  BY <1>2, <1>4 DEF IsBranch
<1> DEFINE T == { i \in 0..n : f[i] # SubSeq(es, 1, i) }
<1>6. T = {}
  <2> SUFFICES ASSUME T # {} PROVE FALSE
    OBVIOUS
  <2>1. T \in SUBSET Nat
    BY <1>1
  <2>2. PICK m \in T : \A i \in T : m <= i
    <3> HIDE DEF T
    <3> QED
      BY <2>1, Least
  <2>3. SubSeq(es, 1, 0) = << >>
    BY SubSeqEmpty
  <2>4. m \in 1..n /\ f[m] # SubSeq(es, 1, m)
    <3>1. m \in 0..n /\ f[m] # SubSeq(es, 1, m)
      BY <2>2
    <3>2. m # 0
      BY <3>1, <2>3, <1>5
    <3> QED
      BY <3>1, <3>2, <1>1
  <2>5. m - 1 \in 0..n /\ ~(m <= m - 1)
    BY <2>4, <1>1
  <2>6. f[m - 1] = SubSeq(es, 1, m - 1)
    BY <2>2, <2>5
  <2>7. SubSeq(es, 1, m) = SubSeq(es, 1, m - 1) \o << es[m] >>
    <3>1. 1 \in 1..n /\ m \in 1..n /\ es \in Seq(Entry)
      BY <1>1, <2>4
    <3> HIDE DEF T
    <3> QED
      BY <3>1, <2>4, SubSeqRecursiveSecond
  <2>8. SubSeq(es, 1, m - 1) \in Seq(Entry)
    <3>1. \A i \in 1..(m - 1) : es[i] \in Entry
      BY <1>1, <2>4
    <3>2. m - 1 \in Int
      BY <2>4
    <3> HIDE DEF T
    <3> QED
      BY <3>1, <3>2, SubSeqProperties
  <2>9. Append(SubSeq(es, 1, m - 1), es[m]) = SubSeq(es, 1,
        m - 1) \o << es[m] >>
    <3>1. es[m] \in Entry
      BY <1>1, <2>4
    <3> HIDE DEF T
    <3> QED
      BY <3>1, <2>8, AppendIsConcat
  <2> QED
    BY <2>4, <2>6, <2>7, <2>9, <1>5
<1>7. f[n] = SubSeq(es, 1, n)
  BY <1>6, <1>1
<1>8. SubSeq(es, 1, n) = es
  BY <1>1, SubSeqFull
<1> QED
  BY <1>2, <1>3, <1>7, <1>8



\* Labels, set or taken away.
Labels == EntryOf({"label", "unlabel"})

\* Labels are not messages.
LEMMA NoMessages ==
  ASSUME NEW r \in Seq(Labels)
  PROVE  Messages(r) = << >>
<1> DEFINE M == EntryOf({"user", "assistant", "branch_summary"})
           U == { s \in Seq(Labels) : Only(s, M) = << >> }
<1>1. << >> \in U
  BY OnlyNil
<1>2. ASSUME NEW s \in Seq(Labels), NEW e \in Labels, s \in U
      PROVE  Append(s, e) \in U
  <2>1. Append(s, e) \in Seq(Labels)
        /\ Only(Append(s, e), M) = OneMore(Only(s, M), e, M)
    BY OnlyAppend, AppendProperties
  <2>2. e \notin M
    BY DEF Labels, EntryOf
  <2> QED
    BY <1>2, <2>1, <2>2 DEF OneMore
<1> HIDE DEF U
<1>3. Seq(Labels) \subseteq U
  BY <1>1, <1>2, SeqInduct
<1> QED
  BY <1>3 DEF U, Messages

\* Labels at the end of a branch change nothing for the model.
LEMMA LabelsAreNotShown ==
  ASSUME NEW b, Tree(b), NEW r \in Seq(Labels)
  PROVE  ContextOf(b \o r) = ContextOf(b)
<1> DEFINE es == b \o r
           C == OfKind(b, {"compaction"})
<1>1. /\ b \in Seq(Entry) /\ Len(b) \in Nat /\ DOMAIN b = 1..Len(b)
      /\ \A i \in 1..Len(b) : b[i] \in Entry
  BY TreeIs DEF Tree
<1>2. /\ r \in Seq(Entry) /\ Len(r) \in Nat
      /\ \A i \in 1..Len(r) : r[i] \in Labels
  <2>1. Labels \subseteq Entry
    BY DEF Labels, Entry, EntryOf, Kind
  <2>2. \A i \in 1..Len(r) : r[i] \in Labels
    BY ElementOfSeq
  <2> QED
    BY <2>1, <2>2, SeqMonotonic
<1>3. /\ es \in Seq(Entry) /\ Len(es) = Len(b) + Len(r)
         /\ DOMAIN es = 1..(Len(b) + Len(r))
      /\ \A i \in 1..Len(b) : es[i] = b[i]
      /\ \A i \in (Len(b) + 1)..(Len(b) + Len(r)) : es[i] = r[i - Len(b)]
  <2>1. /\ es \in Seq(Entry) /\ Len(es) = Len(b) + Len(r)
        /\ \A i \in 1..(Len(b) + Len(r)) :
             es[i] = IF i <= Len(b) THEN b[i] ELSE r[i - Len(b)]
    BY <1>1, <1>2, ConcatProperties
  <2> HIDE DEF es
  <2> QED
    BY <2>1, <1>1, <1>2
<1>4. Messages(es) = Messages(b)
  <2> DEFINE M == EntryOf({"user", "assistant", "branch_summary"})
  <2>1. Only(es, M) = Only(b, M) \o Only(r, M)
    <3> HIDE DEF M
    <3> QED
      BY <1>1, <1>2, OnlyConcat
  <2>2. Only(r, M) = << >>
    BY NoMessages DEF Messages
  <2>3. Only(b, M) \in Seq(M)
    BY <1>1, OnlyType
  <2>4. Only(b, M) \o << >> = Only(b, M)
    <3> HIDE DEF M
    <3> QED
      BY <2>3, ConcatEmptySeq
  <2> QED
    BY <2>1, <2>2, <2>4 DEF Messages
<1>5. OfKind(es, {"compaction"}) = C
  <2>1. \A i \in 1..Len(r) : r[i].kind # "compaction"
    BY <1>2 DEF Labels, EntryOf
  <2>2. \A i \in 1..(Len(b) + Len(r)) : i \in 1..Len(b)
        \/ i - Len(b) \in 1..Len(r)
    BY <1>1, <1>2
  <2>3. \A i \in (Len(b) + 1)..(Len(b) + Len(r)) : es[i].kind # "compaction"
    <3> HIDE DEF es
    <3> QED
      BY <2>1, <1>1, <1>2, <1>3, SMTT(30)
  <2> HIDE DEF es
  <2>4. ASSUME NEW i PROVE i \in OfKind(es, {"compaction"}) <=> i \in C
    <3>1. CASE i \in 1..Len(b)
      BY <3>1, <1>1, <1>2, <1>3 DEF OfKind
    <3>2. CASE i \in (Len(b) + 1)..(Len(b) + Len(r))
      BY <3>2, <2>3, <1>1, <1>2, <1>3 DEF OfKind
    <3>3. CASE i \notin 1..(Len(b) + Len(r))
      BY <3>3, <1>1, <1>2, <1>3 DEF OfKind
    <3> QED
      BY <3>1, <3>2, <3>3, <1>1, <1>2
  <2> QED
    BY <2>4
<1>6. CASE C = {}
  BY <1>4, <1>5, <1>6 DEF ContextOf
<1>7. CASE C # {}
  <2> DEFINE c == Max(C)
             kept == { i \in 1..(c - 1) : \E j \in 1..i : b[j].id = b[c].ref }
             keptEs == { i \in 1..(c - 1) : \E j \in 1..i : es[j].id
                 = es[c].ref }
  <2>1. c \in 1..Len(b)
    <3>1. C \in SUBSET (1..Len(b))
      BY <1>1 DEF OfKind
    <3> HIDE DEF C
    <3> QED
      BY <3>1, <1>1, <1>7, MaxIsOne
  <2> HIDE DEF c, C, es
  <2>2. es[c] = b[c]
    BY <2>1, <1>3
  <2>3. keptEs = kept
    <3>1. \A i \in 1..(c - 1) : \A j \in 1..i : es[j] = b[j]
      BY <2>1, <1>1, <1>3
    <3> QED
      BY <2>2, <3>1
  <2>4. kept # {} => SubSeq(es, Min(kept), c - 1) = SubSeq(b, Min(kept), c - 1)
    <3> SUFFICES ASSUME kept # {}
                 PROVE  SubSeq(es, Min(kept), c - 1) = SubSeq(b, Min(kept),
                        c - 1)
      OBVIOUS
    <3>1. kept \in SUBSET Nat /\ kept \subseteq 1..(c - 1)
      BY <2>1
    <3> HIDE DEF kept
    <3>2. Min(kept) \in 1..(c - 1)
      BY <3>1, MinIsOne
    <3>3. Min(kept) \in 1..Len(b) /\ c - 1 \in 1..Len(b)
      BY <3>2, <2>1, <1>1
    <3> QED
      BY <3>3, <1>1, <1>2, SubSeqOfConcat1 DEF es
  <2>5. Messages(SubSeq(es, c + 1, Len(es)))
        = Messages(SubSeq(b, c + 1, Len(b)))
    <3> DEFINE M == EntryOf({"user", "assistant", "branch_summary"})
               t == SubSeq(b, c + 1, Len(b))
    <3>1. t \in Seq(Entry)
      <4>1. \A i \in (c + 1)..Len(b) : b[i] \in Entry
        BY <1>1, <2>1
      <4>2. c + 1 \in Int /\ Len(b) \in Int
        BY <1>1, <2>1
      <4> QED
        BY <4>1, <4>2, SubSeqProperties
    <3>2. SubSeq(es, c + 1, Len(es)) = t \o r
      <4>1. SubSeq(es, c + 1, Len(b)) = t
        <5>1. CASE c = Len(b)
          <6>1. Len(b) < c + 1 /\ c + 1 \in Int /\ Len(b) \in Int
            BY <5>1, <1>1
          <6> QED
            BY <6>1, SubSeqEmpty
        <5>2. CASE c # Len(b)
          <6>0. Len(b) \in Nat
            BY <1>1
          <6>1. c + 1 \in 1..Len(b) /\ Len(b) \in 1..Len(b)
            BY <5>2, <2>1, <6>0
          <6> QED
            BY <6>1, <1>1, <1>2, SubSeqOfConcat1 DEF es
        <5> QED
          BY <5>1, <5>2
      <4>2. SubSeq(es, Len(b) + 1, Len(es)) = r
        <5>1. CASE Len(r) = 0
          <6>1. Len(es) < Len(b) + 1 /\ Len(es) \in Int /\ Len(b) + 1 \in Int
            BY <5>1, <1>1, <1>3
          <6>2. r = << >>
            BY <5>1, <1>2
          <6> QED
            BY <6>1, <6>2, SubSeqEmpty
        <5>2. CASE Len(r) # 0
          <6>1. /\ Len(b) + 1 \in (Len(b) + 1)..(Len(b) + Len(r))
                /\ Len(es) \in (Len(b) + 1)..(Len(b) + Len(r))
                /\ Len(b) + 1 - Len(b) = 1 /\ Len(es) - Len(b) = Len(r)
            BY <5>2, <1>1, <1>2, <1>3
          <6>2. SubSeq(es, Len(b) + 1, Len(es))
                  = SubSeq(r, Len(b) + 1 - Len(b), Len(es) - Len(b))
            BY <6>1, <1>1, <1>2, SubSeqOfConcat2 DEF es
          <6>3. SubSeq(r, 1, Len(r)) = r
            BY <1>2, SubSeqFull
          <6> QED
            BY <6>1, <6>2, <6>3
        <5> QED
          BY <5>1, <5>2
      <4>3. SubSeq(es, c + 1, Len(b)) \o SubSeq(es, Len(b) + 1, Len(es))
              = SubSeq(es, c + 1, Len(es))
        <5>1. /\ c + 1 \in 1..(Len(es) + 1) /\ Len(b) \in (c + 1 - 1)..Len(es)
              /\ Len(es) \in Len(b)..Len(es)
          BY <1>1, <1>2, <1>3, <2>1
        <5>2. es \in Seq(Entry)
          BY <1>3
        <5> DEFINE m == c + 1
                   k == Len(b)
                   n == Len(es)
        <5>3. m \in 1..(Len(es) + 1) /\ k \in (m - 1)..Len(es)
              /\ n \in k..Len(es)
          BY <1>1, <1>2, <1>3, <2>1
        <5> HIDE DEF m, k, n
        <5>4. SubSeq(es, m, k) \o SubSeq(es, k + 1, n) = SubSeq(es, m, n)
          BY <5>2, <5>3, ConcatAdjacentSubSeq
        <5> QED
          BY <5>4 DEF m, k, n
      <4> QED
        BY <4>1, <4>2, <4>3
    <3> HIDE DEF t
    <3>3. Only(t \o r, M) = Only(t, M) \o Only(r, M)
      <4> HIDE DEF M
      <4> QED
        BY <3>1, <1>2, OnlyConcat
    <3>4. Only(r, M) = << >>
      BY NoMessages DEF Messages
    <3>5. Only(t, M) \in Seq(M)
      BY <3>1, OnlyType
    <3>6. Only(t, M) \o << >> = Only(t, M)
      <4> HIDE DEF M
      <4> QED
        BY <3>5, ConcatEmptySeq
    <3>7. Messages(t \o r) = Messages(t)
      BY <3>3, <3>4, <3>6 DEF Messages
    <3> QED
      BY <3>2, <3>7 DEF t
  <2> DEFINE x == IF keptEs = {} THEN << >> ELSE SubSeq(es, Min(keptEs), c - 1)
             y == IF kept = {} THEN << >> ELSE SubSeq(b, Min(kept), c - 1)
             v == Messages(SubSeq(es, c + 1, Len(es)))
             w == Messages(SubSeq(b, c + 1, Len(b)))
  <2>6. ContextOf(es) = << es[c] >> \o Messages(x) \o v
    BY <1>5, <1>7 DEF ContextOf, c
  <2>7. ContextOf(b) = << b[c] >> \o Messages(y) \o w
    BY <1>7 DEF ContextOf, c, C
  <2>8. x = y
    BY <2>3, <2>4
  <2>9. v = w
    BY <2>5
  <2> HIDE DEF x, y, v, w
  <2>10. ContextOf(es) = ContextOf(b)
    BY <2>2, <2>6, <2>7, <2>8, <2>9
  <2> QED
    BY <2>10 DEF es
<1> QED
  BY <1>6, <1>7

\* A branch without labels is kept as it is.
LEMMA NoLabelsToTakeOut ==
  ASSUME NEW g, Tree(g), OfKind(g, {"label", "unlabel"}) = {}
  PROVE  Only(g, EntryOf(Kind \ {"label", "unlabel"})) = g
<1> DEFINE K == EntryOf(Kind \ {"label", "unlabel"})
<1>1. g \in Seq(Entry) /\ DOMAIN g = 1..Len(g)
      /\ \A i \in 1..Len(g) : g[i] \in Entry
  BY TreeIs DEF Tree
<1>2. \A i \in 1..Len(g) : g[i] \in K
  BY <1>1 DEF OfKind, Entry, EntryOf
<1>3. g \in Seq(K)
  <2> HIDE DEF K
  <2> QED
    BY <1>1, <1>2
<1> HIDE DEF K
<1>4. Only(g, K) = g
  BY <1>3, OnlyAll
<1> QED
  BY <1>4 DEF K

\* Each entry is the parent of the next one.
Chained(es) == \A k \in 2..Len(es) : es[k].parent = es[k - 1].id

\* A branch with new labels at its end.
Labelled(es, b, t, n) ==
    /\ Len(es) = Len(b) + n
    /\ \A i \in 1..Len(b) : es[i] = b[i]
    /\ \A i \in 1..n : es[Len(b) + i] = NewLabel(b, t, i)

\* A chain with new labels at its end is one chain.
LEMMA LabelledChain ==
  ASSUME nextId \in Nat, nextId > 0, NEW b, Tree(b), b # << >>, Chained(b),
         NEW n \in Nat, NEW t, NEW es, Labelled(es, b, t, n)
  PROVE  Chained(es)
<1> SUFFICES ASSUME NEW k \in 2..Len(es) PROVE es[k].parent = es[k - 1].id
  BY DEF Chained
<1>0. /\ Len(es) = Len(b) + n
      /\ \A i \in 1..Len(b) : es[i] = b[i]
      /\ \A i \in 1..n : es[Len(b) + i] = NewLabel(b, t, i)
      /\ \A j \in 2..Len(b) : b[j].parent = b[j - 1].id
  BY DEF Labelled, Chained
<1>1. Len(b) \in Nat /\ Len(b) > 0
  <2>1. b \in Seq(Entry)
    BY DEF Tree
  <2> QED
    BY <2>1
<1>2. \A i \in 1..n :
        /\ es[Len(b) + i].id = nextId + i - 1
        /\ es[Len(b) + i].parent = IF i = 1 THEN LastId(b) ELSE nextId + i - 2
  <2> SUFFICES ASSUME NEW i \in 1..n
               PROVE  /\ es[Len(b) + i].id = nextId + i - 1
                      /\ es[Len(b) + i].parent
                           = IF i = 1 THEN LastId(b) ELSE nextId + i - 2
    OBVIOUS
  <2>1. es[Len(b) + i] = NewLabel(b, t, i)
    BY <1>0
  <2> QED
    BY <2>1 DEF NewLabel
<1>3. CASE k \in 2..Len(b)
  <2>1. k \in 1..Len(b) /\ k - 1 \in 1..Len(b)
    BY <1>1, <1>3
  <2> QED
    BY <2>1, <1>3, <1>0
<1>4. CASE k = Len(b) + 1
  <2>1. 1 \in 1..n /\ Len(b) \in 1..Len(b) /\ k - 1 = Len(b)
    BY <1>1, <1>4, <1>0
  <2>2. es[k].parent = LastId(b) /\ es[k - 1] = b[Len(b)]
    BY <2>1, <1>2, <1>4, <1>0
  <2>3. LastId(b) = b[Len(b)].id
    BY LastIdIs
  <2> QED
    BY <2>2, <2>3
<1>5. CASE k > Len(b) + 1
  <2> DEFINE i == k - Len(b)
  <2>1. i \in 1..n /\ i - 1 \in 1..n /\ i # 1 /\ k = Len(b) + i
        /\ k - 1 = Len(b) + (i - 1)
    BY <1>1, <1>5, <1>0
  <2> HIDE DEF i
  <2>2. /\ es[Len(b) + i].parent = nextId + i - 2
        /\ es[Len(b) + (i - 1)].id = nextId + (i - 1) - 1
    BY <2>1, <1>2
  <2> QED
    BY <2>1, <2>2
<1>6. k \in 2..Len(b) \/ k = Len(b) + 1 \/ k > Len(b) + 1
  BY <1>1, <1>0
<1> QED
  BY <1>3, <1>4, <1>5, <1>6

\* The session made from a branch without labels shows what the branch showed.
LEMMA UnlabelledBranch ==
  ASSUME Tree(fileEntries), Older(fileEntries, nextId), labels \subseteq Id,
         nextId \in 1..(MaxEntries + 1), NEW id \in Ids(fileEntries),
         { i \in Ids(BranchEntries(id)) : i >= nextId } \subseteq Id,
         OfKind(GetBranch(fileEntries, id), {"label", "unlabel"}) = {}
  PROVE  BuildSessionContext(BranchEntries(id), LastId(BranchEntries(id)))
           = BuildSessionContext(fileEntries, id)
<1> DEFINE b == GetBranch(fileEntries, id)
           r == Relabelled(b)
           es == BranchEntries(id)
<1>1. /\ Tree(b) /\ \A k \in 1..Len(b) : \E j \in 1..Len(fileEntries) : b[k]
         = fileEntries[j]
      /\ BranchOf(b, fileEntries, Position(fileEntries, id))
  BY GetBranchIs
<1>2. PathWithoutLabels(id) = b
  BY <1>1, NoLabelsToTakeOut DEF PathWithoutLabels
<1>3. es = b \o r
  BY <1>2 DEF BranchEntries
<1>4. \A i \in 1..Len(b) : b[i].id < nextId
  BY <1>1 DEF Older
<1>5. nextId \in Nat /\ nextId > 0
  BY SessionManagerAssumption DEF SessionManagerAssumption
<1>u. { j \in Ids(es) : j >= nextId } \subseteq Id
  OBVIOUS
<1>6. id # 0
  <2>1. \A i \in 1..Len(fileEntries) : fileEntries[i] \in Entry
        /\ DOMAIN fileEntries = 1..Len(fileEntries)
    BY TreeIs
  <2>2. PICK i \in DOMAIN fileEntries : fileEntries[i].id = id
    BY DEF Ids
  <2>3. fileEntries[i].id \in Id
    BY <2>1, <2>2, TreeIs, EntryIs
  <2> QED
    BY <2>2, <2>3, SessionManagerAssumption DEF SessionManagerAssumption, Id
<1>7. BuildSessionContext(fileEntries, id) = ContextOf(b)
  BY <1>6 DEF BuildSessionContext
<1> HIDE DEF b, r, es
<1>8. PICK n \in Nat, t \in Seq(Id) : Len(t) = n
      /\ r = [i \in 1..n |-> NewLabel(b, t, i)]
  BY <1>1, RelabelledIs DEF r
<1>9. { j \in Ids(b \o r) : j >= nextId } \subseteq Id
  BY <1>u, <1>3
<1>10. Tree(b)
  BY <1>1
<1>11. /\ Tree(b \o r) /\ Len(b \o r) = Len(b) + n
       /\ \A i \in 1..Len(b) : (b \o r)[i] = b[i]
       /\ \A i \in 1..n : (b \o r)[Len(b) + i] = r[i]
       /\ r \in Seq(EntryOf({"label", "unlabel"}))
  BY <1>10, <1>5, <1>4, <1>8, <1>9, LabelsAtTheEnd
<1>12. Tree(es) /\ Len(es) = Len(b) + n
  BY <1>3, <1>11
<1>13. b # << >> /\ \A k \in 2..Len(b) : b[k].parent = b[k - 1].id
  BY <1>1 DEF BranchOf
<1>14. /\ \A i \in 1..Len(b) : es[i] = b[i]
       /\ \A i \in 1..n : es[Len(b) + i] = r[i]
  BY <1>3, <1>11
<1>15. Chained(es)
  <2>1. Labelled(es, b, t, n)
    BY <1>8, <1>12, <1>14 DEF Labelled
  <2>2. Chained(b) /\ b # << >>
    BY <1>13 DEF Chained
  <2> QED
    BY <1>5, <1>10, <2>1, <2>2, LabelledChain
<1>16. es # << >> /\ Len(es) \in 1..Len(es)
  <2>1. b \in Seq(Entry) /\ es \in Seq(Entry)
    BY <1>10, <1>12 DEF Tree
  <2>2. Len(b) \in Nat /\ Len(b) > 0
    BY <2>1, <1>13
  <2> QED
    BY <2>1, <2>2, <1>12
<1>17. GetBranch(es, LastId(es)) = es
  BY <1>12, <1>15, <1>16, ChainIsItsBranch DEF Chained
<1>18. LastId(es) # 0 /\ LastId(es) \in Ids(es)
  <2>1. es[Len(es)] \in Entry /\ LastId(es) = es[Len(es)].id
        /\ DOMAIN es = 1..Len(es)
    BY <1>12, <1>16, TreeIs, LastIdIs
  <2>2. LastId(es) \in Id
    BY <2>1, EntryIs
  <2> QED
    BY <2>1, <2>2, <1>16, SessionManagerAssumption
         DEF SessionManagerAssumption, Id, Ids
<1>19. BuildSessionContext(es, LastId(es)) = ContextOf(es)
  BY <1>17, <1>18 DEF BuildSessionContext
<1>20. ContextOf(b \o r) = ContextOf(b)
  BY <1>10, <1>11, LabelsAreNotShown DEF Labels
<1> QED
  BY <1>3, <1>7, <1>19, <1>20 DEF es

\* That is what the step does.
LEMMA BranchIsShown ==
  ASSUME SInv, NEW id \in Id,
         OfKind(GetBranch(fileEntries, id), {"label", "unlabel"}) = {}
  PROVE  ShowsTheBranch(id)
<1> SUFFICES ASSUME CreateBranchedSession(id), running'
             PROVE  BuildSessionContext(fileEntries', leafId')
                      = BuildSessionContext(fileEntries, id)
  BY DEF ShowsTheBranch
<1>1. /\ id \in Ids(fileEntries)
         /\ { i \in Ids(BranchEntries(id)) : i >= nextId } \subseteq Id
      /\ fileEntries' = BranchEntries(id)
           /\ leafId' = LastId(BranchEntries(id))
  BY DEF CreateBranchedSession, Load, Interrupted, Nowhere
<1>2. /\ Tree(fileEntries) /\ Older(fileEntries, nextId) /\ labels \subseteq Id
      /\ nextId \in 1..(MaxEntries + 1)
  BY NumbersAre DEF SInv, Memory, Names
<1>3. BuildSessionContext(BranchEntries(id), LastId(BranchEntries(id)))
        = BuildSessionContext(fileEntries, id)
  BY <1>1, <1>2, UnlabelledBranch
<1>4. BuildSessionContext(fileEntries', leafId')
        = BuildSessionContext(BranchEntries(id), LastId(BranchEntries(id)))
  BY <1>1 DEF BuildSessionContext
<1> QED
  BY <1>3, <1>4

-----------------------------------------------------------------------------
(* The theorems *)

\* Every reachable state satisfies the invariant.
THEOREM Invariance == Spec => []SInv
<1>1. Init => SInv
  BY InitInv
<1>2. SInv /\ [Next]_vars => SInv'
  BY Steps
<1> QED
  BY <1>1, <1>2, PTL DEF Spec

\* Every variable has its type, and the leaf is an entry of the session.
THEOREM TypeCorrect == Spec => []TypeOK
<1>1. ASSUME SInv PROVE TypeOK
  <2>1. \A f \in DOMAIN files : files[f] \in Seq(Line)
    BY <1>1 DEF SInv, Disk, FileInv, Sound
  <2>2. fileEntries \in Seq(Entry)
    BY <1>1 DEF SInv, Memory, Tree
  <2> QED
    BY <1>1, <2>1, <2>2 DEF SInv, Names, Memory, Disk, TypeOK
<1> QED
  BY <1>1, Invariance, PTL

\* No two entries have one id, and no entry stands before its parent, in every
\* session that is loaded, branched or written on after a fault: getBranch and
\* buildSessionContext, which walk from an entry to its parent, end.
THEOREM ParentsStandFirst == Spec => []ParentsComeFirst
<1>1. ASSUME SInv PROVE ParentsComeFirst
  <2>1. Tree(fileEntries)
    BY <1>1 DEF SInv, Memory
  <2>2. /\ Len(fileEntries) \in Nat /\ DOMAIN fileEntries = 1..Len(fileEntries)
        /\ \A i \in 1..Len(fileEntries) :
             fileEntries[i].id \in Nat
                 /\ fileEntries[i].parent < fileEntries[i].id
        /\ \A i, j \in 1..Len(fileEntries) :
             i < j => fileEntries[i].id < fileEntries[j].id
    BY <2>1, TreeIs DEF Points
  <2>3. ASSUME NEW i \in 1..Len(fileEntries), NEW j \in 1..Len(fileEntries)
        PROVE  /\ fileEntries[i].parent = fileEntries[j].id => j < i
               /\ fileEntries[i].id = fileEntries[j].id => i = j
    <3>1. i < j \/ i = j \/ j < i
      BY <2>2
    <3>2. i < j => fileEntries[i].id < fileEntries[j].id
      BY <2>2
    <3>3. j < i => fileEntries[j].id < fileEntries[i].id
      BY <2>2
    <3>4. /\ fileEntries[i].id \in Nat /\ fileEntries[j].id \in Nat
          /\ fileEntries[i].parent < fileEntries[i].id
      BY <2>2
    <3> QED
      BY <3>1, <3>2, <3>3, <3>4
  <2> QED
    BY <2>2, <2>3 DEF ParentsComeFirst
<1> QED
  BY <1>1, Invariance, PTL

\* A session with a reply is on the disk once a call has returned without a
\* fault (_persist defers only what has no reply), the file that entries are
\* appended to is a session or was spoilt by a torn header, and no file ever has
\* a second header.
THEOREM RepliesAreKept == Spec => []RepliesAreInASession
<1>1. ASSUME SInv PROVE RepliesAreInASession
  <2>1. running /\ HasReply(fileEntries) /\ faults = 0 => flushed
    BY <1>1 DEF SInv, InStep
  <2>2. running /\ flushed => /\ sessionFile \in DOMAIN files
                              /\ \/ IsSession(files[sessionFile])
                                 \/ sessionFile \in spoilt
    BY <1>1 DEF SInv, Headed
  <2>3. ASSUME NEW f \in DOMAIN files, NEW i \in DOMAIN files[f],
        files[f][i] = Header
        PROVE  i = 1
    <3>1. Sound(files[f], nextId)
      BY <1>1 DEF SInv, Disk, FileInv
    <3>2. files[f] \in Seq(Line) /\ i \in 1..Len(files[f])
          /\ Parsed(files[f][i]) = Header
      BY <2>3, <3>1, ParsedIs DEF Sound
    <3> QED
      BY <3>1, <3>2 DEF Sound
  <2> QED
    BY <2>1, <2>2, <2>3 DEF RepliesAreInASession
<1> QED
  BY <1>1, Invariance, PTL

\* As long as no write was cut off, setSessionFile and _buildIndex read back the
\* entries and labels that the manager has in memory.
THEOREM ReloadGivesTheSession == Spec => []ReloadIsTheSession
<1>1. ASSUME SInv PROVE ReloadIsTheSession
  <2> SUFFICES ASSUME running, flushed, faults = 0
               PROVE  Loaded(files[sessionFile]) = fileEntries
                      /\ LabelsOf(fileEntries) = labels
    BY DEF ReloadIsTheSession
  <2>1. files[sessionFile] = WholeFile(fileEntries)
        /\ labels = LabelsOf(fileEntries)
    BY <1>1 DEF SInv, InStep
  <2>2. Loaded(WholeFile(fileEntries)) = fileEntries
    BY <1>1, WholeFileSound DEF SInv, Memory, Older
  <2> QED
    BY <2>1, <2>2
<1> QED
  BY <1>1, Invariance, PTL

\* An interrupted write costs at most one of the entries that were reported as
\* written: the line that _persist appends after the torn one.  Only a file
\* whose header lost its newline (spoilt) loses all.
THEOREM OneEntryIsLost == Spec => []TornLinesLoseOneEntry
<1>1. ASSUME SInv PROVE TornLinesLoseOneEntry
  <2> SUFFICES ASSUME NEW f \in DOMAIN files \ spoilt
               PROVE  Cardinality(saved[f] \ Ids(Loaded(files[f]))) <= faults
    BY DEF TornLinesLoseOneEntry
  <2>1. FileInv(files[f], saved[f], f, spoilt, nextId, faults)
    BY <1>1 DEF SInv, Disk
  <2>2. Counts(files[f], saved[f], faults)
    BY <2>1 DEF FileInv
  <2> QED
    BY <2>2 DEF Counts, Missing
<1> QED
  BY <1>1, Invariance, PTL

\* No operation takes a readable entry whose line has ended out of a file, a
\* parent session included.
THEOREM FilesAreAppendedTo == Spec => FilesOnlyGrow
<1>1. ASSUME SInv, [Next]_vars
      PROVE  [\A f \in DOMAIN files :
                /\ f \in DOMAIN files'
                /\ IsPrefix(Loaded(Ended(files[f])), Loaded(files'[f]))]_vars
  BY <1>1, Steps DEF FilesGrow, Grows
<1> QED
  BY <1>1, Invariance, PTL DEF FilesOnlyGrow, Spec

\* createBranchedSession, for a branch without labels on it, makes a session
\* that shows the model what the branch showed it (buildSessionContext).
THEOREM BranchesAreShown == Spec => UnlabelledBranchIsKept
<1>1. ASSUME SInv, [Next]_vars
      PROVE  [\A id \in Id :
                OfKind(GetBranch(fileEntries, id), {"label", "unlabel"}) = {}
                  => ShowsTheBranch(id)]_vars
  BY <1>1, BranchIsShown
<1> QED
  BY <1>1, Invariance, PTL DEF UnlabelledBranchIsKept, Spec

=============================================================================
