-------------------------- MODULE SourceGraphProofs --------------------------
(* The source layer of the search graph: for every set of trees, every budget  *)
(* and every point at which time runs out, the live source is that of the tree *)
(* at hand, and what was observed keeps the text it was observed on.           *)
EXTENDS SourceGraph, FiniteSetTheorems, WellFoundedInduction, TLAPS

-----------------------------------------------------------------------------
(* Folds.  The library's folds run through a sequence in order; this is stated *)
(* for each operator the graph is built with.                                  *)

\* What holds at 0 and passes on to each next number up to n.
LEMMA PrefixInduction ==
  ASSUME NEW n \in Nat, NEW Good, 0 \in Good, \A k \in 1 .. n : k - 1 \in Good => k \in Good
  PROVE  \A k \in 0 .. n : k \in Good
<1> DEFINE Less == {pair \in Nat \X Nat : pair[1] < pair[2]}
           T    == {k \in 0 .. n : k \notin Good}
<1>1. SUFFICES T = {}  OBVIOUS
<1>2. SUFFICES ASSUME T # {} PROVE FALSE  OBVIOUS
<1>3. IsWellFoundedOn(Less, Nat)  BY NatLessThanWellFounded DEF OpToRel
<1>4. T \in SUBSET Nat  OBVIOUS
<1>5. PICK k \in T : \A m \in T : <<m, k>> \notin Less  BY <1>2, <1>3, <1>4, WFMin
<1>6. k \in Nat /\ k # 0 /\ k \in 1 .. n  BY <1>5
<1>7. k - 1 \in Nat /\ k - 1 < k /\ k - 1 \in 0 .. n  BY <1>6
<1>8. k - 1 \notin T  BY <1>5, <1>6, <1>7
<1> QED  BY <1>5, <1>6, <1>7, <1>8

LEMMA MaxOfPrefix ==
  ASSUME NEW k \in Nat, NEW s \in SUBSET (1 .. k), k \in s
  PROVE  Max(s) = k
<1>1. \A y \in s : k >= y  OBVIOUS
<1>2. \A x \in s : (\A y \in s : x >= y) => x = k  OBVIOUS
<1> QED  BY <1>1, <1>2 DEF Max

LEMMA MaxExists ==
  ASSUME NEW n \in Nat, NEW s \in SUBSET (0 .. n), s # {}
  PROVE  Max(s) \in s /\ \A y \in s : y <= Max(s)
<1> DEFINE Good == {k \in 0 .. n : \A r \in SUBSET (0 .. k) :
                      r # {} => \E x \in r : \A y \in r : x >= y}
<1>1. 0 \in Good
  <2>1. 0 .. 0 = {0}  OBVIOUS
  <2>2. ASSUME NEW r \in SUBSET {0}, r # {}  PROVE 0 \in r /\ \A y \in r : 0 >= y
    <3>1. \A y \in r : y = 0  OBVIOUS
    <3>2. PICK x \in r : TRUE  BY <2>2
    <3>3. 0 \in r  BY <3>1, <3>2
    <3> QED  BY <3>1, <3>3
  <2> QED  BY <2>1, <2>2
<1>2. ASSUME NEW k \in 1 .. n, k - 1 \in Good  PROVE k \in Good
  <2>1. SUFFICES ASSUME NEW r \in SUBSET (0 .. k), r # {}
                 PROVE  \E x \in r : \A y \in r : x >= y
    OBVIOUS
  <2>2. CASE k \in r  BY <2>2
  <2>3. CASE k \notin r
    <3>1. r \in SUBSET (0 .. k - 1)  BY <2>3
    <3> QED  BY <3>1, <2>1, <1>2
  <2> QED  BY <2>2, <2>3
<1>3. n \in Good  
  <2> HIDE DEF Good
  <2> QED BY <1>1, <1>2, PrefixInduction
<1>4. \E x \in s : \A y \in s : x >= y  BY <1>3
<1> QED  BY <1>4 DEF Max

LEMMA MaxInPrefix ==
  ASSUME NEW n \in Nat, NEW s \in SUBSET (1 .. n), s # {}
  PROVE  Max(s) \in 1 .. n
<1>1. s \in SUBSET (0 .. n)  OBVIOUS
<1> QED  BY <1>1, MaxExists

\* g folds F over every subset of the places 1 .. n; h is the run along the places.
IsFold(g, n, A, base, F) ==
  /\ g \in [SUBSET (1 .. n) -> A]
  /\ \A s \in SUBSET (1 .. n) :
       g[s] = IF s = {} THEN base ELSE F[<<g[s \ {Max(s)}], Max(s)>>]

IsRun(h, n, A, base, F) ==
  /\ h \in [0 .. n -> A] /\ h[0] = base
  /\ \A k \in 1 .. n : h[k] = F[<<h[k - 1], k>>]

Along(g, n) == [k \in 0 .. n |-> g[1 .. k]]

IsFoldFrom(g, n, A, base, F) ==
  /\ g[{}] = base
  /\ \A s \in SUBSET (1 .. n) :
       s # {} /\ g[s \ {Max(s)}] \in A => g[s] = F[<<g[s \ {Max(s)}], Max(s)>>]

\* A fold is well defined.
LEMMA FoldExists ==
  ASSUME NEW n \in Nat, NEW A, NEW base \in A, NEW F \in [A \X (1 .. n) -> A]
  PROVE  \E g : IsFold(g, n, A, base, F)
<1> DEFINE Good == {k \in 0 .. n : \E g : IsFold(g, k, A, base, F)}
<1>1. 0 \in Good
  <2> DEFINE h == [s \in SUBSET (1 .. 0) |-> base]
  <2>1. 1 .. 0 = {}  OBVIOUS
  <2>2. IsFold(h, 0, A, base, F)  BY <2>1 DEF IsFold
  <2> QED  BY <2>2
<1>2. ASSUME NEW k \in 1 .. n, k - 1 \in Good  PROVE k \in Good
  <2>1. PICK g : IsFold(g, k - 1, A, base, F)  BY <1>2
  <2> DEFINE h == [s \in SUBSET (1 .. k) |-> IF k \in s THEN F[<<g[s \ {k}], k>>] ELSE g[s]]
  <2>2. \A s \in SUBSET (1 .. k) : s \ {k} \in SUBSET (1 .. k - 1)  OBVIOUS
  <2>3. h \in [SUBSET (1 .. k) -> A]
    <3>1. ASSUME NEW s \in SUBSET (1 .. k)
          PROVE  (IF k \in s THEN F[<<g[s \ {k}], k>>] ELSE g[s]) \in A
      <4>1. CASE k \in s
        <5>1. g[s \ {k}] \in A  BY <2>1, <2>2 DEF IsFold
        <5> QED  BY <4>1, <5>1
      <4>2. CASE k \notin s
        <5>1. s = s \ {k}  BY <4>2
        <5>2. g[s] \in A  BY <2>1, <2>2, <5>1 DEF IsFold
        <5> QED  BY <4>2, <5>2
      <4> QED  BY <4>1, <4>2
    <3> QED  BY <3>1
  <2>4. ASSUME NEW s \in SUBSET (1 .. k)
        PROVE  h[s] = IF s = {} THEN base ELSE F[<<h[s \ {Max(s)}], Max(s)>>]
    <3>1. CASE k \in s
      <4>1. Max(s) = k /\ s # {}  BY <3>1, MaxOfPrefix
      <4>2. h[s \ {k}] = g[s \ {k}]  OBVIOUS
      <4> QED  BY <3>1, <4>1, <4>2
    <3>2. CASE k \notin s
      <4>1. s \in SUBSET (1 .. k - 1)  BY <3>2
      <4>2. h[s] = g[s] /\ h[s \ {Max(s)}] = g[s \ {Max(s)}]  BY <3>2
      <4>3. g[s] = IF s = {} THEN base ELSE F[<<g[s \ {Max(s)}], Max(s)>>]  BY <2>1, <4>1 DEF IsFold
      <4> QED  BY <4>2, <4>3
    <3> QED  BY <3>1, <3>2
  <2> HIDE DEF h
  <2>5. IsFold(h, k, A, base, F)  BY <2>3, <2>4 DEF IsFold
  <2> QED  BY <2>5
<1>3. n \in Good
  <2> HIDE DEF Good
  <2> QED  BY <1>1, <1>2, PrefixInduction
<1> QED  BY <1>3

\* A fold over all places runs through them in order.
LEMMA FoldIsRun ==
  ASSUME NEW n \in Nat, NEW A, NEW base \in A, NEW F \in [A \X (1 .. n) -> A],
         NEW g, IsFoldFrom(g, n, A, base, F)
  PROVE  IsRun(Along(g, n), n, A, base, F)
<1> DEFINE h == Along(g, n)
<1>1. h[0] = base
  <2>1. 1 .. 0 = {}  OBVIOUS
  <2> QED  BY <2>1 DEF IsFoldFrom, Along
<1>2. ASSUME NEW k \in 1 .. n, h[k - 1] \in A  PROVE h[k] = F[<<h[k - 1], k>>]
  <2>1. k \in 1 .. k /\ Max(1 .. k) = k  BY MaxOfPrefix
  <2>2. (1 .. k) \ {k} = 1 .. k - 1 /\ 1 .. k \in SUBSET (1 .. n)  OBVIOUS
  <2>3. h[k - 1] = g[1 .. k - 1] /\ h[k] = g[1 .. k]  BY DEF Along
  <2> HIDE DEF h
  <2>4. g[(1 .. k) \ {k}] \in A  BY <1>2, <2>2, <2>3
  <2> QED  BY <2>1, <2>2, <2>3, <2>4 DEF IsFoldFrom
<1> HIDE DEF h
<1>3. \A k \in 0 .. n : h[k] \in A
  <2> DEFINE Good == {k \in 0 .. n : h[k] \in A}
  <2>1. 0 \in Good  BY <1>1
  <2>2. ASSUME NEW k \in 1 .. n, k - 1 \in Good  PROVE k \in Good
    <3>1. h[k] = F[<<h[k - 1], k>>]  BY <1>2, <2>2
    <3> QED  BY <2>2, <3>1
  <2>3. \A k \in 0 .. n : k \in Good
    <3> HIDE DEF Good
    <3> QED  BY <2>1, <2>2, PrefixInduction
  <2> QED  BY <2>3
<1>4. \A k \in 1 .. n : h[k] = F[<<h[k - 1], k>>]
  <2> TAKE k \in 1 .. n
  <2>1. h[k - 1] \in A  BY <1>3
  <2> QED  BY <1>2, <2>1
<1>5. h \in [0 .. n -> A]  BY <1>3 DEF h, Along
<1> QED  BY <1>1, <1>4, <1>5 DEF IsRun, h

-----------------------------------------------------------------------------
(* The folds of the graph.                                                     *)

Filtered(S, base, seq) == FoldLeft(LAMBDA kept, p : AddIf(S, kept, p), base, seq)
\* Files are filtered one by one;
MayAddIf(S, A, seq) == \A x \in A, k \in 1 .. Len(seq) : AddIf(S, x, seq[k]) \in A
RunsAddIf(h, S, A, base, seq) ==
  /\ h \in [0 .. Len(seq) -> A] /\ h[0] = base
  /\ h[Len(seq)] = Filtered(S, base, seq)
  /\ \A k \in 1 .. Len(seq) : h[k] = AddIf(S, h[k - 1], seq[k])

LEMMA AddIfSteps ==
  ASSUME NEW S, NEW A, NEW base \in A, NEW seq, seq \in Seq(Range(seq)), MayAddIf(S, A, seq)
  PROVE  \E h : RunsAddIf(h, S, A, base, seq)
<1> DEFINE n == Len(seq)
           F == [x \in A \X (1 .. n) |-> AddIf(S, x[1], seq[x[2]])]
           Folded(f) == [s \in SUBSET (1 .. n) |->
             IF s = {} THEN base ELSE AddIf(S, f[s \ {Max(s)}], seq[Max(s)])]
           iter == CHOOSE f : f = Folded(f)
<1>1. n \in Nat /\ DOMAIN seq = 1 .. n /\ F \in [A \X (1 .. n) -> A]  BY DEF MayAddIf
<1>2. \A x \in A, k \in 1 .. n : F[<<x, k>>] = AddIf(S, x, seq[k])  OBVIOUS
<1> HIDE DEF F
<1>3. PICK g : IsFold(g, n, A, base, F)
  <2> HIDE DEF n
  <2> QED  BY <1>1, FoldExists
<1>4. g = Folded(g)
  <2>1. ASSUME NEW s \in SUBSET (1 .. n), s # {}
        PROVE  g[s] = AddIf(S, g[s \ {Max(s)}], seq[Max(s)])
    <3>1. Max(s) \in 1 .. n  BY <1>1, <2>1, MaxInPrefix
    <3>2. g[s \ {Max(s)}] \in A /\ g[s] = F[<<g[s \ {Max(s)}], Max(s)>>]
      BY <1>3, <2>1 DEF IsFold
    <3> QED  BY <1>2, <3>1, <3>2
  <2> QED  BY <1>3, <2>1 DEF IsFold
<1>5. iter = Folded(iter)  BY <1>4
<1>6. iter[1 .. n] = Filtered(S, base, seq)  BY <1>1 DEF Filtered, FoldLeft, MapThenFoldSet
<1> HIDE DEF iter
<1>7. IsFoldFrom(iter, n, A, base, F)
  <2>1. ASSUME NEW s \in SUBSET (1 .. n), s # {}, iter[s \ {Max(s)}] \in A
        PROVE  iter[s] = F[<<iter[s \ {Max(s)}], Max(s)>>]
    <3>1. Max(s) \in 1 .. n  BY <1>1, <2>1, MaxInPrefix
    <3> QED  BY <1>2, <1>5, <2>1, <3>1
  <2> QED  BY <1>5, <2>1 DEF IsFoldFrom
<1> DEFINE h == Along(iter, n)
<1>8. IsRun(h, n, A, base, F)
  <2> HIDE DEF n
  <2> QED  BY <1>1, <1>7, FoldIsRun
<1>9. h[n] = iter[1 .. n]  BY <1>1 DEF Along
<1> HIDE DEF h
<1>10. ASSUME NEW k \in 1 .. n  PROVE h[k] = AddIf(S, h[k - 1], seq[k])
  <2>1. k - 1 \in 0 .. n  BY <1>1
  <2> QED  BY <1>2, <1>8, <2>1 DEF IsRun
<1> QED  BY <1>6, <1>8, <1>9, <1>10 DEF IsRun, RunsAddIf

\* files are admitted,
MayAdmit(A, seq) == \A x \in A, k \in 1 .. Len(seq) : Admit(x, seq[k]) \in A
RunsAdmit(h, A, base, seq) ==
  /\ h \in [0 .. Len(seq) -> A] /\ h[0] = base
  /\ h[Len(seq)] = FoldLeft(Admit, base, seq)
  /\ \A k \in 1 .. Len(seq) : h[k] = Admit(h[k - 1], seq[k])

LEMMA AdmitSteps ==
  ASSUME NEW A, NEW base \in A, NEW seq, seq \in Seq(Range(seq)), MayAdmit(A, seq)
  PROVE  \E h : RunsAdmit(h, A, base, seq)
<1> DEFINE n == Len(seq)
           F == [x \in A \X (1 .. n) |-> Admit(x[1], seq[x[2]])]
           Folded(f) == [s \in SUBSET (1 .. n) |->
             IF s = {} THEN base ELSE Admit(f[s \ {Max(s)}], seq[Max(s)])]
           iter == CHOOSE f : f = Folded(f)
<1>1. n \in Nat /\ DOMAIN seq = 1 .. n /\ F \in [A \X (1 .. n) -> A]  BY DEF MayAdmit
<1>2. \A x \in A, k \in 1 .. n : F[<<x, k>>] = Admit(x, seq[k])  OBVIOUS
<1> HIDE DEF F
<1>3. PICK g : IsFold(g, n, A, base, F)
  <2> HIDE DEF n
  <2> QED  BY <1>1, FoldExists
<1>4. g = Folded(g)
  <2>1. ASSUME NEW s \in SUBSET (1 .. n), s # {}
        PROVE  g[s] = Admit(g[s \ {Max(s)}], seq[Max(s)])
    <3>1. Max(s) \in 1 .. n  BY <1>1, <2>1, MaxInPrefix
    <3>2. g[s \ {Max(s)}] \in A /\ g[s] = F[<<g[s \ {Max(s)}], Max(s)>>]
      BY <1>3, <2>1 DEF IsFold
    <3> QED  BY <1>2, <3>1, <3>2
  <2> QED  BY <1>3, <2>1 DEF IsFold
<1>5. iter = Folded(iter)  BY <1>4
<1>6. iter[1 .. n] = FoldLeft(Admit, base, seq)  BY <1>1 DEF FoldLeft, MapThenFoldSet
<1> HIDE DEF iter
<1>7. IsFoldFrom(iter, n, A, base, F)
  <2>1. ASSUME NEW s \in SUBSET (1 .. n), s # {}, iter[s \ {Max(s)}] \in A
        PROVE  iter[s] = F[<<iter[s \ {Max(s)}], Max(s)>>]
    <3>1. Max(s) \in 1 .. n  BY <1>1, <2>1, MaxInPrefix
    <3> QED  BY <1>2, <1>5, <2>1, <3>1
  <2> QED  BY <1>5, <2>1 DEF IsFoldFrom
<1> DEFINE h == Along(iter, n)
<1>8. IsRun(h, n, A, base, F)
  <2> HIDE DEF n
  <2> QED  BY <1>1, <1>7, FoldIsRun
<1>9. h[n] = iter[1 .. n]  BY <1>1 DEF Along
<1> HIDE DEF h
<1>10. ASSUME NEW k \in 1 .. n  PROVE h[k] = Admit(h[k - 1], seq[k])
  <2>1. k - 1 \in 0 .. n  BY <1>1
  <2> QED  BY <1>2, <1>8, <2>1 DEF IsRun
<1> QED  BY <1>6, <1>8, <1>9, <1>10 DEF IsRun, RunsAdmit

\* calls are linked,
MayLink(how, A, seq) == \A x \in A, k \in 1 .. Len(seq) : Link(how, x, seq[k]) \in A
RunsLink(h, how, A, base, seq) ==
  /\ h \in [0 .. Len(seq) -> A] /\ h[0] = base
  /\ h[Len(seq)] = Linked(how, base, seq)
  /\ \A k \in 1 .. Len(seq) : h[k] = Link(how, h[k - 1], seq[k])

LEMMA LinkSteps ==
  ASSUME NEW how, NEW A, NEW base \in A, NEW seq, seq \in Seq(Range(seq)), MayLink(how, A, seq)
  PROVE  \E h : RunsLink(h, how, A, base, seq)
<1> DEFINE n == Len(seq)
           F == [x \in A \X (1 .. n) |-> Link(how, x[1], seq[x[2]])]
           Folded(f) == [s \in SUBSET (1 .. n) |->
             IF s = {} THEN base ELSE Link(how, f[s \ {Max(s)}], seq[Max(s)])]
           iter == CHOOSE f : f = Folded(f)
<1>1. n \in Nat /\ DOMAIN seq = 1 .. n /\ F \in [A \X (1 .. n) -> A]  BY DEF MayLink
<1>2. \A x \in A, k \in 1 .. n : F[<<x, k>>] = Link(how, x, seq[k])  OBVIOUS
<1> HIDE DEF F
<1>3. PICK g : IsFold(g, n, A, base, F)
  <2> HIDE DEF n
  <2> QED  BY <1>1, FoldExists
<1>4. g = Folded(g)
  <2>1. ASSUME NEW s \in SUBSET (1 .. n), s # {}
        PROVE  g[s] = Link(how, g[s \ {Max(s)}], seq[Max(s)])
    <3>1. Max(s) \in 1 .. n  BY <1>1, <2>1, MaxInPrefix
    <3>2. g[s \ {Max(s)}] \in A /\ g[s] = F[<<g[s \ {Max(s)}], Max(s)>>]
      BY <1>3, <2>1 DEF IsFold
    <3> QED  BY <1>2, <3>1, <3>2
  <2> QED  BY <1>3, <2>1 DEF IsFold
<1>5. iter = Folded(iter)  BY <1>4
<1>6. iter[1 .. n] = Linked(how, base, seq)  BY <1>1 DEF Linked, FoldLeft, MapThenFoldSet
<1> HIDE DEF iter
<1>7. IsFoldFrom(iter, n, A, base, F)
  <2>1. ASSUME NEW s \in SUBSET (1 .. n), s # {}, iter[s \ {Max(s)}] \in A
        PROVE  iter[s] = F[<<iter[s \ {Max(s)}], Max(s)>>]
    <3>1. Max(s) \in 1 .. n  BY <1>1, <2>1, MaxInPrefix
    <3> QED  BY <1>2, <1>5, <2>1, <3>1
  <2> QED  BY <1>5, <2>1 DEF IsFoldFrom
<1> DEFINE h == Along(iter, n)
<1>8. IsRun(h, n, A, base, F)
  <2> HIDE DEF n
  <2> QED  BY <1>1, <1>7, FoldIsRun
<1>9. h[n] = iter[1 .. n]  BY <1>1 DEF Along
<1> HIDE DEF h
<1>10. ASSUME NEW k \in 1 .. n  PROVE h[k] = Link(how, h[k - 1], seq[k])
  <2>1. k - 1 \in 0 .. n  BY <1>1
  <2> QED  BY <1>2, <1>8, <2>1 DEF IsRun
<1> QED  BY <1>6, <1>8, <1>9, <1>10 DEF IsRun, RunsLink

LastRead(how, p, wanted, base, seq) ==
  FoldLeft(LAMBDA s, def : ReadNext(how, p, wanted, s, def), base, seq)
\* definitions are read,
MayRead(how, p, wanted, A, seq) ==
  \A x \in A, k \in 1 .. Len(seq) : ReadNext(how, p, wanted, x, seq[k]) \in A
RunsRead(h, how, p, wanted, A, base, seq) ==
  /\ h \in [0 .. Len(seq) -> A] /\ h[0] = base
  /\ h[Len(seq)] = LastRead(how, p, wanted, base, seq)
  /\ \A k \in 1 .. Len(seq) : h[k] = ReadNext(how, p, wanted, h[k - 1], seq[k])

LEMMA ReadSteps ==
  ASSUME NEW how, NEW p, NEW wanted, NEW A, NEW base \in A,
         NEW seq, seq \in Seq(Range(seq)), MayRead(how, p, wanted, A, seq)
  PROVE  \E h : RunsRead(h, how, p, wanted, A, base, seq)
<1> DEFINE n == Len(seq)
           F == [x \in A \X (1 .. n) |-> ReadNext(how, p, wanted, x[1], seq[x[2]])]
           Folded(f) == [s \in SUBSET (1 .. n) |->
             IF s = {} THEN base ELSE ReadNext(how, p, wanted, f[s \ {Max(s)}], seq[Max(s)])]
           iter == CHOOSE f : f = Folded(f)
<1>1. n \in Nat /\ DOMAIN seq = 1 .. n /\ F \in [A \X (1 .. n) -> A]  BY DEF MayRead
<1>2. \A x \in A, k \in 1 .. n : F[<<x, k>>] = ReadNext(how, p, wanted, x, seq[k])  OBVIOUS
<1> HIDE DEF F
<1>3. PICK g : IsFold(g, n, A, base, F)
  <2> HIDE DEF n
  <2> QED  BY <1>1, FoldExists
<1>4. g = Folded(g)
  <2>1. ASSUME NEW s \in SUBSET (1 .. n), s # {}
        PROVE  g[s] = ReadNext(how, p, wanted, g[s \ {Max(s)}], seq[Max(s)])
    <3>1. Max(s) \in 1 .. n  BY <1>1, <2>1, MaxInPrefix
    <3>2. g[s \ {Max(s)}] \in A /\ g[s] = F[<<g[s \ {Max(s)}], Max(s)>>]
      BY <1>3, <2>1 DEF IsFold
    <3> QED  BY <1>2, <3>1, <3>2
  <2> QED  BY <1>3, <2>1 DEF IsFold
<1>5. iter = Folded(iter)  BY <1>4
<1>6. iter[1 .. n] = LastRead(how, p, wanted, base, seq)
  BY <1>1 DEF LastRead, FoldLeft, MapThenFoldSet
<1> HIDE DEF iter
<1>7. IsFoldFrom(iter, n, A, base, F)
  <2>1. ASSUME NEW s \in SUBSET (1 .. n), s # {}, iter[s \ {Max(s)}] \in A
        PROVE  iter[s] = F[<<iter[s \ {Max(s)}], Max(s)>>]
    <3>1. Max(s) \in 1 .. n  BY <1>1, <2>1, MaxInPrefix
    <3> QED  BY <1>2, <1>5, <2>1, <3>1
  <2> QED  BY <1>5, <2>1 DEF IsFoldFrom
<1> DEFINE h == Along(iter, n)
<1>8. IsRun(h, n, A, base, F)
  <2> HIDE DEF n
  <2> QED  BY <1>1, <1>7, FoldIsRun
<1>9. h[n] = iter[1 .. n]  BY <1>1 DEF Along
<1> HIDE DEF h
<1>10. ASSUME NEW k \in 1 .. n  PROVE h[k] = ReadNext(how, p, wanted, h[k - 1], seq[k])
  <2>1. k - 1 \in 0 .. n  BY <1>1
  <2> QED  BY <1>2, <1>8, <2>1 DEF IsRun
<1> QED  BY <1>6, <1>8, <1>9, <1>10 DEF IsRun, RunsRead

\* files are refreshed,
MayRefresh(t, A, seq) == \A x \in A, k \in 1 .. Len(seq) : RefreshFile(x, t, seq[k]) \in A
RunsRefresh(h, t, A, base, seq) ==
  /\ h \in [0 .. Len(seq) -> A] /\ h[0] = base
  /\ h[Len(seq)] = RefreshAll(base, t, seq)
  /\ \A k \in 1 .. Len(seq) : h[k] = RefreshFile(h[k - 1], t, seq[k])

LEMMA RefreshSteps ==
  ASSUME NEW t, NEW A, NEW base \in A, NEW seq, seq \in Seq(Range(seq)), MayRefresh(t, A, seq)
  PROVE  \E h : RunsRefresh(h, t, A, base, seq)
<1> DEFINE n == Len(seq)
           F == [x \in A \X (1 .. n) |-> RefreshFile(x[1], t, seq[x[2]])]
           Folded(f) == [s \in SUBSET (1 .. n) |->
             IF s = {} THEN base ELSE RefreshFile(f[s \ {Max(s)}], t, seq[Max(s)])]
           iter == CHOOSE f : f = Folded(f)
<1>1. n \in Nat /\ DOMAIN seq = 1 .. n /\ F \in [A \X (1 .. n) -> A]  BY DEF MayRefresh
<1>2. \A x \in A, k \in 1 .. n : F[<<x, k>>] = RefreshFile(x, t, seq[k])  OBVIOUS
<1> HIDE DEF F
<1>3. PICK g : IsFold(g, n, A, base, F)
  <2> HIDE DEF n
  <2> QED  BY <1>1, FoldExists
<1>4. g = Folded(g)
  <2>1. ASSUME NEW s \in SUBSET (1 .. n), s # {}
        PROVE  g[s] = RefreshFile(g[s \ {Max(s)}], t, seq[Max(s)])
    <3>1. Max(s) \in 1 .. n  BY <1>1, <2>1, MaxInPrefix
    <3>2. g[s \ {Max(s)}] \in A /\ g[s] = F[<<g[s \ {Max(s)}], Max(s)>>]
      BY <1>3, <2>1 DEF IsFold
    <3> QED  BY <1>2, <3>1, <3>2
  <2> QED  BY <1>3, <2>1 DEF IsFold
<1>5. iter = Folded(iter)  BY <1>4
<1>6. iter[1 .. n] = RefreshAll(base, t, seq)  BY <1>1 DEF RefreshAll, FoldLeft, MapThenFoldSet
<1> HIDE DEF iter
<1>7. IsFoldFrom(iter, n, A, base, F)
  <2>1. ASSUME NEW s \in SUBSET (1 .. n), s # {}, iter[s \ {Max(s)}] \in A
        PROVE  iter[s] = F[<<iter[s \ {Max(s)}], Max(s)>>]
    <3>1. Max(s) \in 1 .. n  BY <1>1, <2>1, MaxInPrefix
    <3> QED  BY <1>2, <1>5, <2>1, <3>1
  <2> QED  BY <1>5, <2>1 DEF IsFoldFrom
<1> DEFINE h == Along(iter, n)
<1>8. IsRun(h, n, A, base, F)
  <2> HIDE DEF n
  <2> QED  BY <1>1, <1>7, FoldIsRun
<1>9. h[n] = iter[1 .. n]  BY <1>1 DEF Along
<1> HIDE DEF h
<1>10. ASSUME NEW k \in 1 .. n  PROVE h[k] = RefreshFile(h[k - 1], t, seq[k])
  <2>1. k - 1 \in 0 .. n  BY <1>1
  <2> QED  BY <1>2, <1>8, <2>1 DEF IsRun
<1> QED  BY <1>6, <1>8, <1>9, <1>10 DEF IsRun, RunsRefresh

\* give the seed
MaySeed(A, seq) == \A x \in A, k \in 1 .. Len(seq) : SeedFile(x, seq[k]) \in A
RunsSeed(h, A, base, seq) ==
  /\ h \in [0 .. Len(seq) -> A] /\ h[0] = base
  /\ h[Len(seq)] = FoldLeft(SeedFile, base, seq)
  /\ \A k \in 1 .. Len(seq) : h[k] = SeedFile(h[k - 1], seq[k])

LEMMA SeedSteps ==
  ASSUME NEW A, NEW base \in A, NEW seq, seq \in Seq(Range(seq)), MaySeed(A, seq)
  PROVE  \E h : RunsSeed(h, A, base, seq)
<1> DEFINE n == Len(seq)
           F == [x \in A \X (1 .. n) |-> SeedFile(x[1], seq[x[2]])]
           Folded(f) == [s \in SUBSET (1 .. n) |->
             IF s = {} THEN base ELSE SeedFile(f[s \ {Max(s)}], seq[Max(s)])]
           iter == CHOOSE f : f = Folded(f)
<1>1. n \in Nat /\ DOMAIN seq = 1 .. n /\ F \in [A \X (1 .. n) -> A]  BY DEF MaySeed
<1>2. \A x \in A, k \in 1 .. n : F[<<x, k>>] = SeedFile(x, seq[k])  OBVIOUS
<1> HIDE DEF F
<1>3. PICK g : IsFold(g, n, A, base, F)
  <2> HIDE DEF n
  <2> QED  BY <1>1, FoldExists
<1>4. g = Folded(g)
  <2>1. ASSUME NEW s \in SUBSET (1 .. n), s # {}
        PROVE  g[s] = SeedFile(g[s \ {Max(s)}], seq[Max(s)])
    <3>1. Max(s) \in 1 .. n  BY <1>1, <2>1, MaxInPrefix
    <3>2. g[s \ {Max(s)}] \in A /\ g[s] = F[<<g[s \ {Max(s)}], Max(s)>>]
      BY <1>3, <2>1 DEF IsFold
    <3> QED  BY <1>2, <3>1, <3>2
  <2> QED  BY <1>3, <2>1 DEF IsFold
<1>5. iter = Folded(iter)  BY <1>4
<1>6. iter[1 .. n] = FoldLeft(SeedFile, base, seq)  BY <1>1 DEF FoldLeft, MapThenFoldSet
<1> HIDE DEF iter
<1>7. IsFoldFrom(iter, n, A, base, F)
  <2>1. ASSUME NEW s \in SUBSET (1 .. n), s # {}, iter[s \ {Max(s)}] \in A
        PROVE  iter[s] = F[<<iter[s \ {Max(s)}], Max(s)>>]
    <3>1. Max(s) \in 1 .. n  BY <1>1, <2>1, MaxInPrefix
    <3> QED  BY <1>2, <1>5, <2>1, <3>1
  <2> QED  BY <1>5, <2>1 DEF IsFoldFrom
<1> DEFINE h == Along(iter, n)
<1>8. IsRun(h, n, A, base, F)
  <2> HIDE DEF n
  <2> QED  BY <1>1, <1>7, FoldIsRun
<1>9. h[n] = iter[1 .. n]  BY <1>1 DEF Along
<1> HIDE DEF h
<1>10. ASSUME NEW k \in 1 .. n  PROVE h[k] = SeedFile(h[k - 1], seq[k])
  <2>1. k - 1 \in 0 .. n  BY <1>1
  <2> QED  BY <1>2, <1>8, <2>1 DEF IsRun
<1> QED  BY <1>6, <1>8, <1>9, <1>10 DEF IsRun, RunsSeed

\* and are expanded.
MayExpand(t, around, A, seq) ==
  \A x \in A, k \in 1 .. Len(seq) : ExpandFile(t, around, x, seq[k]) \in A
RunsExpand(h, t, around, A, base, seq) ==
  /\ h \in [0 .. Len(seq) -> A] /\ h[0] = base
  /\ h[Len(seq)] = ExpandAll(t, around, base, seq)
  /\ \A k \in 1 .. Len(seq) : h[k] = ExpandFile(t, around, h[k - 1], seq[k])

LEMMA ExpandSteps ==
  ASSUME NEW t, NEW around, NEW A, NEW base \in A,
         NEW seq, seq \in Seq(Range(seq)), MayExpand(t, around, A, seq)
  PROVE  \E h : RunsExpand(h, t, around, A, base, seq)
<1> DEFINE n == Len(seq)
           F == [x \in A \X (1 .. n) |-> ExpandFile(t, around, x[1], seq[x[2]])]
           Folded(f) == [s \in SUBSET (1 .. n) |->
             IF s = {} THEN base ELSE ExpandFile(t, around, f[s \ {Max(s)}], seq[Max(s)])]
           iter == CHOOSE f : f = Folded(f)
<1>1. n \in Nat /\ DOMAIN seq = 1 .. n /\ F \in [A \X (1 .. n) -> A]  BY DEF MayExpand
<1>2. \A x \in A, k \in 1 .. n : F[<<x, k>>] = ExpandFile(t, around, x, seq[k])  OBVIOUS
<1> HIDE DEF F
<1>3. PICK g : IsFold(g, n, A, base, F)
  <2> HIDE DEF n
  <2> QED  BY <1>1, FoldExists
<1>4. g = Folded(g)
  <2>1. ASSUME NEW s \in SUBSET (1 .. n), s # {}
        PROVE  g[s] = ExpandFile(t, around, g[s \ {Max(s)}], seq[Max(s)])
    <3>1. Max(s) \in 1 .. n  BY <1>1, <2>1, MaxInPrefix
    <3>2. g[s \ {Max(s)}] \in A /\ g[s] = F[<<g[s \ {Max(s)}], Max(s)>>]
      BY <1>3, <2>1 DEF IsFold
    <3> QED  BY <1>2, <3>1, <3>2
  <2> QED  BY <1>3, <2>1 DEF IsFold
<1>5. iter = Folded(iter)  BY <1>4
<1>6. iter[1 .. n] = ExpandAll(t, around, base, seq)
  BY <1>1 DEF ExpandAll, FoldLeft, MapThenFoldSet
<1> HIDE DEF iter
<1>7. IsFoldFrom(iter, n, A, base, F)
  <2>1. ASSUME NEW s \in SUBSET (1 .. n), s # {}, iter[s \ {Max(s)}] \in A
        PROVE  iter[s] = F[<<iter[s \ {Max(s)}], Max(s)>>]
    <3>1. Max(s) \in 1 .. n  BY <1>1, <2>1, MaxInPrefix
    <3> QED  BY <1>2, <1>5, <2>1, <3>1
  <2> QED  BY <1>5, <2>1 DEF IsFoldFrom
<1> DEFINE h == Along(iter, n)
<1>8. IsRun(h, n, A, base, F)
  <2> HIDE DEF n
  <2> QED  BY <1>1, <1>7, FoldIsRun
<1>9. h[n] = iter[1 .. n]  BY <1>1 DEF Along
<1> HIDE DEF h
<1>10. ASSUME NEW k \in 1 .. n  PROVE h[k] = ExpandFile(t, around, h[k - 1], seq[k])
  <2>1. k - 1 \in 0 .. n  BY <1>1
  <2> QED  BY <1>2, <1>8, <2>1 DEF IsRun
<1> QED  BY <1>6, <1>8, <1>9, <1>10 DEF IsRun, RunsExpand

-----------------------------------------------------------------------------
(* Well-formed graphs.                                                         *)

Kinds == {"STATIC_CALLS", "TRACE_REACHES", "DYNAMIC_CALLS"}
EdgeIds == [kind : Kinds, from : Nat, to : Nat]
EdgeStates == [to : Nat, active : BOOLEAN]
EdgeMaps == UNION {[D -> EdgeStates] : D \in SUBSET EdgeIds}
Graphs ==
  [files : SUBSET Files, hash : [Files -> Contents \cup {NoHash}],
   nodes : Seq(NodeType), edges : EdgeMaps,
   frontiers : SUBSET Reasons, expansions : Nat]
DefType == [name : Names, span : Spans, line : Nat]

\* Versions, and only they, are history, and come after what they are of;
\* functions with a text are in admitted files.
NodeIsKept(g, i) ==
  LET node == g.nodes[i]
  IN /\ node.of # 0 => node.of \in 1 .. (i - 1) /\ g.nodes[node.of].name = node.name
     /\ node.status = "HISTORICAL_SOURCE" <=> node.of # 0
     /\ node.span # NoSpan => node.file \in g.files

EdgeIsKept(g, e) ==
  /\ e.to \in Nodes(g) /\ g.edges[e].to \in Nodes(g)
  /\ e.kind # "TRACE_REACHES" => e.from \in Nodes(g)
  /\ e.kind = "STATIC_CALLS" => g.nodes[e.from].span # NoSpan

IsWellFormed(g) ==
  /\ g \in Graphs
  /\ Cardinality(g.files) <= MaxFiles
  /\ \A i \in Nodes(g) : NodeIsKept(g, i)
  /\ IsFiniteSet(DOMAIN g.edges) /\ Cardinality(DOMAIN g.edges) <= MaxEdges
  /\ \A e \in DOMAIN g.edges : EdgeIsKept(g, e)
  /\ \A p \in Files \ g.files : g.hash[p] = NoHash

LEMMA Limits ==
  MaxFiles \in Nat /\ MaxSymbols \in Nat /\ MaxEdges \in Nat /\ MaxExpansions \in Nat
BY LimitsAreNatural

LEMMA FilesAreFinite == Paths \in Seq(Files) /\ IsFiniteSet(Files)
<1>1. Paths \in Seq(Files)  BY TreesAreGiven DEF Files
<1>2. Paths \in Surjection(1 .. Len(Paths), Files)
  BY <1>1 DEF Files, Range, Surjection
<1>3. IsFiniteSet(1 .. Len(Paths))  BY <1>1, FS_Interval
<1> QED  BY <1>1, <1>2, <1>3, FS_Surjection

LEMMA ContentIsKnown ==
  ASSUME NEW t \in Trees, NEW p \in Files, Content[t][p] \notin {Gone, Broken}
  PROVE  Content[t][p] \in Contents
BY DEF Contents

LEMMA DefsType ==
  ASSUME NEW c \in Contents
  PROVE  /\ Defs[c] \in Seq(DefType) /\ Defs[c] \in Seq(Range(Defs[c]))
         /\ \A d \in Range(Defs[c]) : d \in DefType
         /\ \A k \in 1 .. Len(Defs[c]) : Defs[c][k] \in Range(Defs[c])
<1>1. Defs[c] \in Seq(DefType)  BY TreesAreGiven DEF DefType
<1>2. Range(Defs[c]) = {Defs[c][k] : k \in 1 .. Len(Defs[c])}  BY <1>1 DEF Range
<1> QED  BY <1>1, <1>2

LEMMA CallsType ==
  ASSUME NEW s \in Spans
  PROVE  /\ Calls[s] \in Seq(Names)
         /\ \A j \in DOMAIN Calls[s] : Calls[s][j] \in Range(Calls[s])
BY TreesAreGiven DEF Range

\* A graph after one of its fields has been set.
LEMMA FieldsOf ==
  ASSUME NEW g \in Graphs
  PROVE  /\ g.files \subseteq Files /\ g.hash \in [Files -> Contents \cup {NoHash}]
         /\ g.nodes \in Seq(NodeType) /\ g.edges \in EdgeMaps
         /\ g.frontiers \subseteq Reasons /\ g.expansions \in Nat
         /\ Nodes(g) = 1 .. Len(g.nodes) /\ Len(g.nodes) \in Nat
         /\ \A i \in Nodes(g) : g.nodes[i] \in NodeType
BY DEF Graphs, Nodes

LEMMA WithNodesOf ==
  ASSUME NEW g \in Graphs, NEW nodes \in Seq(NodeType)
  PROVE  LET h == [g EXCEPT !.nodes = nodes]
         IN /\ h \in Graphs /\ h.nodes = nodes /\ h.edges = g.edges /\ h.files = g.files
            /\ h.hash = g.hash /\ h.frontiers = g.frontiers /\ h.expansions = g.expansions
BY DEF Graphs

LEMMA WithEdgesOf ==
  ASSUME NEW g \in Graphs, NEW edges \in EdgeMaps
  PROVE  LET h == [g EXCEPT !.edges = edges]
         IN /\ h \in Graphs /\ h.nodes = g.nodes /\ h.edges = edges /\ h.files = g.files
            /\ h.hash = g.hash /\ h.frontiers = g.frontiers /\ h.expansions = g.expansions
BY DEF Graphs

LEMMA WithFilesOf ==
  ASSUME NEW g \in Graphs, NEW files \in SUBSET Files
  PROVE  LET h == [g EXCEPT !.files = files]
         IN /\ h \in Graphs /\ h.nodes = g.nodes /\ h.edges = g.edges /\ h.files = files
            /\ h.hash = g.hash /\ h.frontiers = g.frontiers /\ h.expansions = g.expansions
BY DEF Graphs

LEMMA WithHashOf ==
  ASSUME NEW g \in Graphs, NEW p \in Files, NEW c \in Contents
  PROVE  LET h == [g EXCEPT !.hash[p] = c]
         IN /\ h \in Graphs /\ h.nodes = g.nodes /\ h.edges = g.edges /\ h.files = g.files
            /\ h.hash = [g.hash EXCEPT ![p] = c] /\ h.frontiers = g.frontiers
            /\ h.expansions = g.expansions
BY DEF Graphs

LEMMA WithFrontierOf ==
  ASSUME NEW g \in Graphs, NEW reason \in Reasons
  PROVE  LET h == WithFrontier(g, reason)
         IN /\ h \in Graphs /\ h.nodes = g.nodes /\ h.edges = g.edges /\ h.files = g.files
            /\ h.hash = g.hash /\ h.frontiers = g.frontiers \cup {reason}
            /\ h.expansions = g.expansions
BY DEF Graphs, WithFrontier

LEMMA EdgeMapsAre ==
  /\ \A f \in EdgeMaps : /\ DOMAIN f \in SUBSET EdgeIds
                         /\ \A e \in DOMAIN f : f[e] \in EdgeStates
  /\ \A D \in SUBSET EdgeIds : [D -> EdgeStates] \subseteq EdgeMaps
<1>1. ASSUME NEW f \in EdgeMaps
      PROVE  DOMAIN f \in SUBSET EdgeIds /\ \A e \in DOMAIN f : f[e] \in EdgeStates
  <2>1. PICK D \in SUBSET EdgeIds : f \in [D -> EdgeStates]  BY DEF EdgeMaps
  <2> QED  BY <2>1
<1> QED  BY <1>1 DEF EdgeMaps

-----------------------------------------------------------------------------
(* What is found by name.                                                      *)

LEMMA LeastIsThere ==
  ASSUME NEW n \in Nat, NEW T \in SUBSET (1 .. n), T # {}
  PROVE  Min(T) \in T /\ \A y \in T : Min(T) <= y
<1> DEFINE Less == {pair \in Nat \X Nat : pair[1] < pair[2]}
<1>1. IsWellFoundedOn(Less, Nat)  BY NatLessThanWellFounded DEF OpToRel
<1>2. T \in SUBSET Nat  OBVIOUS
<1>3. PICK x \in T : \A y \in T : <<y, x>> \notin Less  BY <1>1, <1>2, WFMin
<1>4. \A y \in T : x <= y
  <2> TAKE y \in T
  <2>1. x \in Nat /\ y \in Nat /\ <<y, x>> \notin Less  BY <1>2, <1>3
  <2> QED  BY <2>1
<1> QED  BY <1>4 DEF Min

LEMMA FirstFacts ==
  ASSUME NEW n \in Nat, NEW T \in SUBSET (1 .. n)
  PROVE  /\ First(T) \in 0 .. n
         /\ First(T) # 0 => First(T) \in T
         /\ \A y \in T : First(T) # 0 /\ First(T) <= y
<1>1. CASE T = {}  BY <1>1 DEF First
<1>2. CASE T # {}
  <2>1. First(T) = Min(T)  BY <1>2 DEF First
  <2>2. First(T) \in T /\ \A y \in T : First(T) <= y  BY <1>2, <2>1, LeastIsThere
  <2> DEFINE x == First(T)
  <2>3. x \in T /\ x \in 1 .. n /\ \A y \in T : x <= y  BY <2>2
  <2> HIDE DEF x
  <2>4. x \in 0 .. n /\ x # 0  BY <2>3
  <2> QED  BY <2>3, <2>4 DEF x
<1> QED  BY <1>1, <1>2

\* Node i is that of a definition.
IsSource(g, i, p, name) ==
  /\ i \in Nodes(g) /\ g.nodes[i].file = p /\ g.nodes[i].name = name
  /\ g.nodes[i].of = 0 /\ g.nodes[i].span # NoSpan

LEMMA SourceNodeFacts ==
  ASSUME NEW g \in Graphs, NEW p, NEW name
  PROVE  /\ SourceNode(g, p, name) \in 0 .. Len(g.nodes)
         /\ SourceNode(g, p, name) # 0 => IsSource(g, SourceNode(g, p, name), p, name)
         /\ \A j \in Nodes(g) : IsSource(g, j, p, name) =>
              SourceNode(g, p, name) # 0 /\ SourceNode(g, p, name) <= j
<1> DEFINE T == {i \in Nodes(g) : /\ g.nodes[i].file = p /\ g.nodes[i].name = name
                                  /\ g.nodes[i].of = 0 /\ g.nodes[i].span # NoSpan}
<1>1. T \in SUBSET (1 .. Len(g.nodes)) /\ Len(g.nodes) \in Nat  BY FieldsOf
<1>2. \A j : j \in T <=> IsSource(g, j, p, name)  BY DEF IsSource
<1>3. SourceNode(g, p, name) = First(T)  BY DEF SourceNode
<1> HIDE DEF T
<1> QED  BY <1>1, <1>2, <1>3, FirstFacts

LEMMA NamedNodeFacts ==
  ASSUME NEW g \in Graphs, NEW p, NEW name
  PROVE  LET i == Named(g, p, name)
         IN /\ i \in 0 .. Len(g.nodes) /\ (i # 0 => g.nodes[i].file = p /\ g.nodes[i].name = name)
            /\ \A j \in Nodes(g) : g.nodes[j].file = p /\ g.nodes[j].name = name => i # 0
<1> DEFINE T == {i \in Nodes(g) : g.nodes[i].file = p /\ g.nodes[i].name = name}
<1>1. T \in SUBSET (1 .. Len(g.nodes)) /\ Len(g.nodes) \in Nat  BY FieldsOf
<1>2. \A j : j \in T <=> j \in Nodes(g) /\ g.nodes[j].file = p /\ g.nodes[j].name = name
  OBVIOUS
<1>3. Named(g, p, name) = First(T)  BY DEF Named
<1> HIDE DEF T
<1> QED  BY <1>1, <1>2, <1>3, FirstFacts

LEMMA CalledFacts ==
  ASSUME NEW g \in Graphs, NEW name
  PROVE  LET i == Called(g, name)
         IN i \in 0 .. Len(g.nodes) /\ (i # 0 => g.nodes[i].name = name)
<1> DEFINE T == {i \in Nodes(g) : g.nodes[i].name = name}
<1>1. T \in SUBSET (1 .. Len(g.nodes)) /\ Len(g.nodes) \in Nat  BY FieldsOf
<1>2. \A j \in T : g.nodes[j].name = name  OBVIOUS
<1>3. Called(g, name) = First(T)  BY DEF Called
<1> HIDE DEF T
<1> QED  BY <1>1, <1>2, <1>3, FirstFacts

LEMMA CalleeFacts ==
  ASSUME NEW g \in Graphs, NEW p, NEW name
  PROVE  LET i == Callee(g, p, name)
         IN i \in 0 .. Len(g.nodes) /\ (i # 0 => g.nodes[i].name = name)
<1> DEFINE targets == {i \in Nodes(g) : g.nodes[i].name = name
                                        /\ g.nodes[i].status # "RETIRED_SOURCE"}
           local == {i \in targets : g.nodes[i].file = p}
           known == IF local # {} THEN local ELSE targets
<1>1. known \in SUBSET (1 .. Len(g.nodes)) /\ Len(g.nodes) \in Nat  BY FieldsOf
<1>2. \A j \in known : g.nodes[j].name = name  OBVIOUS
<1>3. Callee(g, p, name) = IF Cardinality(known) = 1 THEN First(known) ELSE 0  BY DEF Callee
<1> HIDE DEF known
<1> QED  BY <1>1, <1>2, <1>3, FirstFacts

-----------------------------------------------------------------------------
(* Steps of the graph: what each operation leaves as it was.                   *)

\* The nodes stay what they are nodes of, and others are added after them.
KeepsFunctions(g, h) ==
  /\ Len(g.nodes) <= Len(h.nodes)
  /\ \A i \in Nodes(g) :
       /\ h.nodes[i].file = g.nodes[i].file /\ h.nodes[i].name = g.nodes[i].name
       /\ h.nodes[i].of = g.nodes[i].of
       /\ h.nodes[i].span = NoSpan <=> g.nodes[i].span = NoSpan
       /\ h.nodes[i].status = "HISTORICAL_SOURCE" <=> g.nodes[i].status = "HISTORICAL_SOURCE"

KeepsEdges(g, h) ==
  \A e \in DOMAIN g.edges : e \in DOMAIN h.edges /\ h.edges[e].to = g.edges[e].to

\* Edges and frontiers may be added, nothing else.
SameNodes(g, h) ==
  /\ h.nodes = g.nodes /\ h.files = g.files /\ h.hash = g.hash
  /\ h.expansions = g.expansions /\ g.frontiers \subseteq h.frontiers
  /\ KeepsEdges(g, h)

LEMMA WellFormedStays ==
  ASSUME NEW g, IsWellFormed(g), NEW h \in Graphs, KeepsFunctions(g, h),
         h.edges = g.edges, g.files \subseteq h.files, Cardinality(h.files) <= MaxFiles,
         \A i \in Nodes(h) : i > Len(g.nodes) => NodeIsKept(h, i),
         \A p \in Files \ h.files : h.hash[p] = NoHash
  PROVE  IsWellFormed(h)
<1>1. /\ Nodes(g) = 1 .. Len(g.nodes) /\ Nodes(h) = 1 .. Len(h.nodes)
      /\ Len(g.nodes) \in Nat /\ Len(h.nodes) \in Nat
      /\ \A i \in Nodes(g) : g.nodes[i] \in NodeType
      /\ g \in Graphs
  BY FieldsOf DEF IsWellFormed
<1>2. \A i \in Nodes(h) : NodeIsKept(h, i)
  <2> TAKE i \in Nodes(h)
  <2>1. CASE i > Len(g.nodes)  BY <2>1
  <2>2. CASE ~(i > Len(g.nodes))
    <3>1. i \in Nodes(g)  BY <1>1, <2>2
    <3>2. NodeIsKept(g, i)  BY <3>1 DEF IsWellFormed
    <3>3. g.nodes[i].of \in Nat
      <4> DEFINE node == g.nodes[i]
      <4>1. node \in NodeType  BY <1>1, <3>1
      <4> HIDE DEF node
      <4>2. node.of \in Nat  BY <4>1, Zenon DEF NodeType
      <4> QED  BY <4>2 DEF node
    <3>4. g.nodes[i].of # 0 => g.nodes[i].of \in Nodes(g)  BY <1>1, <3>1, <3>2 DEF NodeIsKept
    <3> QED  BY <3>1, <3>2, <3>4 DEF NodeIsKept, KeepsFunctions
  <2> QED  BY <2>1, <2>2
<1>3. \A e \in DOMAIN h.edges : EdgeIsKept(h, e)
  <2> TAKE e \in DOMAIN h.edges
  <2>1. EdgeIsKept(g, e)  BY DEF IsWellFormed
  <2>2. Nodes(g) \subseteq Nodes(h)  BY <1>1 DEF KeepsFunctions
  <2>3. e.kind = "STATIC_CALLS" => e.from \in Nodes(g)  BY <2>1 DEF EdgeIsKept
  <2> QED  BY <2>1, <2>2, <2>3 DEF EdgeIsKept, KeepsFunctions
<1> QED  BY <1>2, <1>3 DEF IsWellFormed

\* A frontier is recorded.
LEMMA FrontierStep ==
  ASSUME NEW g, IsWellFormed(g), NEW reason \in Reasons
  PROVE  LET h == WithFrontier(g, reason)
         IN /\ IsWellFormed(h) /\ SameNodes(g, h) /\ h.edges = g.edges
            /\ reason \in h.frontiers
<1> DEFINE h == WithFrontier(g, reason)
<1>1. /\ h \in Graphs /\ h.nodes = g.nodes /\ h.edges = g.edges /\ h.files = g.files
      /\ h.hash = g.hash /\ h.frontiers = g.frontiers \cup {reason}
      /\ h.expansions = g.expansions
  BY WithFrontierOf DEF IsWellFormed
<1> HIDE DEF h
<1>2. SameNodes(g, h)  BY <1>1 DEF SameNodes, KeepsEdges
<1>3. Nodes(h) = Nodes(g)  BY <1>1 DEF Nodes
<1>4. IsWellFormed(h)  BY <1>1, <1>3 DEF IsWellFormed, NodeIsKept, EdgeIsKept
<1> QED  BY <1>1, <1>2, <1>4 DEF h

\* The end points of an edge.
CanHold(g, e) ==
  /\ e \in EdgeIds /\ e.to \in Nodes(g)
  /\ e.kind # "TRACE_REACHES" => e.from \in Nodes(g)
  /\ e.kind = "STATIC_CALLS" => g.nodes[e.from].span # NoSpan

\* An edge is added.
LEMMA AddEdgeStep ==
  ASSUME NEW g, IsWellFormed(g), NEW e, CanHold(g, e)
  PROVE  LET h == AddEdge(g, e)
         IN /\ IsWellFormed(h) /\ SameNodes(g, h)
            /\ \A x \in DOMAIN h.edges :
                 x = e \/ (x \in DOMAIN g.edges /\ h.edges[x] = g.edges[x])
<1> DEFINE D == DOMAIN g.edges
           more == [x \in D \cup {e} |-> IF x = e THEN [to |-> e.to, active |-> TRUE]
                                         ELSE g.edges[x]]
<1>1. CASE e \in D
  <2>1. AddEdge(g, e) = g  BY <1>1 DEF AddEdge
  <2> QED  BY <2>1 DEF SameNodes, KeepsEdges
<1>2. CASE e \notin D /\ Cardinality(D) >= MaxEdges
  <2>1. AddEdge(g, e) = WithFrontier(g, "EDGE_BUDGET")  BY <1>2 DEF AddEdge
  <2>2. "EDGE_BUDGET" \in Reasons  BY DEF Reasons
  <2> QED  BY <2>1, <2>2, FrontierStep
<1>3. CASE e \notin D /\ ~(Cardinality(D) >= MaxEdges)
  <2> DEFINE h == [g EXCEPT !.edges = more]
  <2>1. AddEdge(g, e) = h  BY <1>3 DEF AddEdge
  <2>2. g.edges \in EdgeMaps /\ g \in Graphs  BY FieldsOf DEF IsWellFormed
  <2>3. D \cup {e} \in SUBSET EdgeIds  BY <2>2, EdgeMapsAre DEF CanHold
  <2>4. \A x \in D : g.edges[x] \in EdgeStates  BY <2>2, EdgeMapsAre
  <2>5. [to |-> e.to, active |-> TRUE] \in EdgeStates  BY DEF CanHold, EdgeIds, EdgeStates
  <2>6. more \in [D \cup {e} -> EdgeStates]  BY <2>4, <2>5
  <2>7. more \in EdgeMaps  BY <2>3, <2>6, EdgeMapsAre
  <2>8. DOMAIN more = D \cup {e}  OBVIOUS
  <2>9. \A x \in D : more[x] = g.edges[x]  BY <1>3
  <2>10. more[e].to = e.to  OBVIOUS
  <2> HIDE DEF more
  <2>11. /\ h \in Graphs /\ h.nodes = g.nodes /\ h.edges = more /\ h.files = g.files
         /\ h.hash = g.hash /\ h.frontiers = g.frontiers /\ h.expansions = g.expansions
    BY <2>2, <2>7, WithEdgesOf
  <2> HIDE DEF h
  <2>12. SameNodes(g, h)  BY <2>8, <2>9, <2>11 DEF SameNodes, KeepsEdges
  <2>13. Nodes(h) = Nodes(g)  BY <2>11 DEF Nodes
  <2>14. IsFiniteSet(D) /\ Cardinality(D) <= MaxEdges  BY DEF IsWellFormed
  <2>15. IsFiniteSet(D \cup {e}) /\ Cardinality(D \cup {e}) = Cardinality(D) + 1
    BY <1>3, <2>14, FS_AddElement
  <2>16. Cardinality(D) \in Nat  BY <2>14, FS_CardinalityType
  <2>17. Cardinality(D \cup {e}) <= MaxEdges  BY <1>3, <2>14, <2>15, <2>16, Limits
  <2>18. \A x \in DOMAIN h.edges : EdgeIsKept(h, x)
    <3> TAKE x \in DOMAIN h.edges
    <3>1. CASE x = e  BY <2>10, <2>11, <2>13, <3>1 DEF CanHold, EdgeIsKept
    <3>2. CASE x \in D
      <4>1. EdgeIsKept(g, x)  BY <3>2 DEF IsWellFormed
      <4> QED  BY <2>9, <2>11, <2>13, <3>2, <4>1 DEF EdgeIsKept
    <3> QED  BY <2>8, <2>11, <3>1, <3>2
  <2>19. \A i \in Nodes(h) : NodeIsKept(h, i)  BY <2>11, <2>13 DEF IsWellFormed, NodeIsKept
  <2>20. IsWellFormed(h)  BY <2>8, <2>11, <2>15, <2>17, <2>18, <2>19 DEF IsWellFormed
  <2> QED  BY <2>1, <2>8, <2>9, <2>11, <2>12, <2>20
<1> QED  BY <1>1, <1>2, <1>3

\* A call is linked, from the node of the caller to one of the called name.
LEMMA LinkStep ==
  ASSUME NEW how, NEW g, IsWellFormed(g), NEW call, SourceNode(g, call.file, call.caller) # 0
  PROVE  LET h == Link(how, g, call)
         IN /\ IsWellFormed(h) /\ SameNodes(g, h)
            /\ \A x \in DOMAIN h.edges :
                 \/ x \in DOMAIN g.edges /\ h.edges[x] = g.edges[x]
                 \/ /\ x.kind = "STATIC_CALLS"
                    /\ x.from = SourceNode(g, call.file, call.caller)
                    /\ g.nodes[x.to].name = call.callee
<1> DEFINE caller == SourceNode(g, call.file, call.caller)
           callee == IF how = "REFRESH" THEN Callee(g, call.file, call.callee)
                     ELSE Called(g, call.callee)
           e == Edge("STATIC_CALLS", caller, callee)
           h == Link(how, g, call)
<1>1. g \in Graphs /\ Nodes(g) = 1 .. Len(g.nodes) /\ Len(g.nodes) \in Nat
  BY FieldsOf DEF IsWellFormed
<1>2. caller \in Nodes(g) /\ g.nodes[caller].span # NoSpan
  BY <1>1, SourceNodeFacts DEF IsSource
<1>3. callee \in 0 .. Len(g.nodes) /\ (callee # 0 => g.nodes[callee].name = call.callee)
  <2>1. CASE how = "REFRESH"  BY <1>1, <2>1, CalleeFacts
  <2>2. CASE how # "REFRESH"  BY <1>1, <2>2, CalledFacts
  <2> QED  BY <2>1, <2>2
<1>4. h = IF callee = 0 \/ (how = "EXPAND" /\ callee = caller) THEN g
          ELSE IF how = "REFRESH" /\ e \in DOMAIN g.edges
            THEN [g EXCEPT !.edges[e].active = TRUE]
          ELSE AddEdge(g, e)
  BY DEF Link
<1>5. e.kind = "STATIC_CALLS" /\ e.from = caller /\ e.to = callee  BY DEF Edge
<1>6. callee # 0 => CanHold(g, e)
  <2> SUFFICES ASSUME callee # 0  PROVE CanHold(g, e)  OBVIOUS
  <2> HIDE DEF caller, callee
  <2>1. callee \in Nodes(g) /\ callee \in Nat /\ caller \in Nat  BY <1>1, <1>2, <1>3
  <2>2. e \in EdgeIds  BY <2>1 DEF Edge, EdgeIds, Kinds
  <2> HIDE DEF e
  <2> QED  BY <1>2, <1>5, <2>1, <2>2 DEF CanHold
<1> HIDE DEF e, caller, callee, h
<1>7. CASE callee = 0 \/ (how = "EXPAND" /\ callee = caller)
  <2>1. h = g  BY <1>4, <1>7
  <2> QED  BY <2>1 DEF h, SameNodes, KeepsEdges
<1>8. CASE callee # 0 /\ h = AddEdge(g, e)
  <2>1. /\ IsWellFormed(h) /\ SameNodes(g, h)
        /\ \A x \in DOMAIN h.edges :
             x = e \/ (x \in DOMAIN g.edges /\ h.edges[x] = g.edges[x])
    BY <1>6, <1>8, AddEdgeStep
  <2> QED  BY <1>3, <1>5, <1>8, <2>1 DEF h, caller
<1>9. CASE callee # 0 /\ e \in DOMAIN g.edges /\ h = [g EXCEPT !.edges[e].active = TRUE]
  <2> DEFINE D == DOMAIN g.edges
             edges == [g.edges EXCEPT ![e].active = TRUE]
  <2>1. g.edges \in EdgeMaps  BY <1>1, FieldsOf
  <2>2. D \in SUBSET EdgeIds /\ \A x \in D : g.edges[x] \in EdgeStates  BY <2>1, EdgeMapsAre
  <2>3. g.edges \in [D -> EdgeStates]
    <3>1. PICK C \in SUBSET EdgeIds : g.edges \in [C -> EdgeStates]  BY <2>1 DEF EdgeMaps
    <3>2. C = D  BY <3>1
    <3> QED  BY <3>1, <3>2
  <2>4. edges \in [D -> EdgeStates] /\ DOMAIN edges = D
    BY <1>9, <2>3 DEF EdgeStates
  <2>5. \A x \in D : edges[x].to = g.edges[x].to /\ (x # e => edges[x] = g.edges[x])
    BY <1>9, <2>3 DEF EdgeStates
  <2>6. edges \in EdgeMaps  BY <2>2, <2>4, EdgeMapsAre
  <2>7. h = [g EXCEPT !.edges = edges]  BY <1>9
  <2> HIDE DEF edges
  <2>8. /\ h \in Graphs /\ h.nodes = g.nodes /\ h.edges = edges /\ h.files = g.files
        /\ h.hash = g.hash /\ h.frontiers = g.frontiers /\ h.expansions = g.expansions
    BY <1>1, <2>6, <2>7, WithEdgesOf
  <2>9. SameNodes(g, h)  BY <2>4, <2>5, <2>8 DEF SameNodes, KeepsEdges
  <2>10. Nodes(h) = Nodes(g)  BY <2>8 DEF Nodes
  <2>11. \A x \in DOMAIN h.edges : EdgeIsKept(h, x)
    BY <2>4, <2>5, <2>8, <2>10 DEF IsWellFormed, EdgeIsKept
  <2>12. \A i \in Nodes(h) : NodeIsKept(h, i)  BY <2>8, <2>10 DEF IsWellFormed, NodeIsKept
  <2>13. IsWellFormed(h)  BY <2>4, <2>8, <2>11, <2>12 DEF IsWellFormed
  <2>14. \A x \in D : x # e => h.edges[x] = g.edges[x]  BY <2>5, <2>8
  <2>15. DOMAIN h.edges = D  BY <2>4, <2>8
  <2> QED  BY <1>3, <1>5, <1>9, <2>9, <2>13, <2>14, <2>15 DEF h, caller
<1> QED  BY <1>4, <1>7, <1>8, <1>9


-----------------------------------------------------------------------------
(* What reading adds to a graph.                                               *)

Texts(c, name) ==
  IF c \in Contents THEN {d.span : d \in {x \in Range(Defs[c]) : x.name = name}} ELSE {}
CleanTexts(p, name) == Texts(Content[Clean][p], name)
Known(g, p, name) == Texts(g.hash[p], name) \cup CleanTexts(p, name)

CallsFrom(texts, name) == \E s \in texts : name \in Range(Calls[s])

\* What is live is text of the content the graph has read or of the clean tree.
TextIsKnown(g, i) ==
  LET node == g.nodes[i]
  IN Live(node) /\ node.span # NoSpan => node.span \in Known(g, node.file, node.name)

\* An active call is made by such a text; that of a retired caller, by the clean one.
CallIsKnown(g, e) ==
  LET caller == g.nodes[e.from]
  IN e.kind = "STATIC_CALLS" /\ g.edges[e].active =>
       CallsFrom(IF Live(caller) THEN Known(g, caller.file, caller.name)
                 ELSE CleanTexts(caller.file, caller.name), g.nodes[e.to].name)

IsSound(g) ==
  /\ \A i \in Nodes(g) : TextIsKnown(g, i)
  /\ \A e \in DOMAIN g.edges : CallIsKnown(g, e)

IsRead(g, p, name) ==
  SourceNode(g, p, name) # 0 /\ Live(g.nodes[SourceNode(g, p, name)])

\* All of a file that was read is live unless there was no room for it.
IsWhole(g, p) ==
  g.hash[p] # NoHash /\ (Room(g) > 0 \/ "SYMBOL_BUDGET" \notin g.frontiers) =>
    \A d \in Range(Defs[g.hash[p]]) : IsRead(g, p, d.name)

\* Functions of the files ps take the text they have in tree t, others are
\* added with it, or without a text.
IsReplaced(t, ps, g, h, i) ==
  LET was  == g.nodes[i]
      node == h.nodes[i]
  IN /\ node.file = was.file /\ node.name = was.name
     /\ was.of = 0 /\ node.of = 0 /\ was.span # NoSpan /\ node.span # NoSpan
     /\ was.file \in ps /\ node.span \in TextsIn(t, was.file, was.name)
     /\ node.status \in {was.status, "CURRENT_SOURCE"}

IsAdded(t, ps, h, i) ==
  LET node == h.nodes[i]
  IN /\ node.of = 0 /\ Live(node)
     /\ node.span # NoSpan =>
          node.file \in ps /\ node.span \in TextsIn(t, node.file, node.name)

Evolves(t, ps, g, h) ==
  /\ Len(g.nodes) <= Len(h.nodes)
  /\ \A i \in Nodes(g) : h.nodes[i] = g.nodes[i] \/ IsReplaced(t, ps, g, h, i)
  /\ \A i \in Nodes(h) : i > Len(g.nodes) => IsAdded(t, ps, h, i)
  /\ g.files \subseteq h.files /\ (Cardinality(g.files) >= MaxFiles => h.files = g.files)
  /\ h.hash = g.hash /\ h.expansions = g.expansions /\ g.frontiers \subseteq h.frontiers
  /\ KeepsEdges(g, h)

LEMMA WellFormedFields ==
  ASSUME NEW g, IsWellFormed(g)
  PROVE  /\ g \in Graphs /\ g.nodes \in Seq(NodeType) /\ Len(g.nodes) \in Nat
         /\ Nodes(g) = 1 .. Len(g.nodes)
         /\ \A i \in Nodes(g) : g.nodes[i] \in NodeType
BY FieldsOf DEF IsWellFormed

LEMMA NodeFields ==
  \A node \in NodeType :
    /\ node.file \in Files /\ node.name \in Names /\ node.of \in Nat
    /\ node.span \in Spans \cup {NoSpan}
    /\ node.status \in {"NO_STATUS", "CURRENT_SOURCE"} \cup Old
BY DEF NodeType

LEMMA Lives ==
  \A node : /\ node.status \in {"NO_STATUS", "CURRENT_SOURCE"} => Live(node)
            /\ node.status \in Old => ~Live(node)
BY DEF Live, Old

LEMMA EvolvesNot ==
  ASSUME NEW g, IsWellFormed(g), NEW t, NEW ps
  PROVE  Evolves(t, ps, g, g)
<1>1. Nodes(g) = 1 .. Len(g.nodes) /\ Len(g.nodes) \in Nat  BY WellFormedFields
<1>2. KeepsEdges(g, g)  BY DEF KeepsEdges
<1> QED  BY <1>1, <1>2 DEF Evolves

LEMMA EvolvesOn ==
  ASSUME NEW t, NEW ps, NEW g, IsWellFormed(g), NEW m, IsWellFormed(m),
         NEW h, IsWellFormed(h), Evolves(t, ps, g, m), Evolves(t, ps, m, h)
  PROVE  Evolves(t, ps, g, h)
<1>1. /\ Nodes(g) = 1 .. Len(g.nodes) /\ Len(g.nodes) \in Nat
      /\ Nodes(m) = 1 .. Len(m.nodes) /\ Len(m.nodes) \in Nat
      /\ Nodes(h) = 1 .. Len(h.nodes) /\ Len(h.nodes) \in Nat
  BY WellFormedFields
<1>2. Len(g.nodes) <= Len(m.nodes) /\ Len(m.nodes) <= Len(h.nodes)  BY DEF Evolves
<1>3. ASSUME NEW i \in Nodes(g)
      PROVE  h.nodes[i] = g.nodes[i] \/ IsReplaced(t, ps, g, h, i)
  <2>1. i \in Nodes(m)  BY <1>1, <1>2
  <2>2. m.nodes[i] = g.nodes[i] \/ IsReplaced(t, ps, g, m, i)  BY DEF Evolves
  <2>3. h.nodes[i] = m.nodes[i] \/ IsReplaced(t, ps, m, h, i)  BY <2>1 DEF Evolves
  <2> QED  BY <2>2, <2>3 DEF IsReplaced
<1>4. ASSUME NEW i \in Nodes(h), i > Len(g.nodes)  PROVE IsAdded(t, ps, h, i)
  <2>1. CASE i > Len(m.nodes)  BY <2>1 DEF Evolves
  <2>2. CASE ~(i > Len(m.nodes))
    <3>1. i \in Nodes(m)  BY <1>1, <2>2
    <3>2. IsAdded(t, ps, m, i)  BY <1>4, <3>1 DEF Evolves
    <3>3. h.nodes[i] = m.nodes[i] \/ IsReplaced(t, ps, m, h, i)  BY <3>1 DEF Evolves
    <3> QED  BY <3>2, <3>3 DEF IsAdded, IsReplaced, Live, Old
  <2> QED  BY <2>1, <2>2
<1>5. KeepsEdges(g, h)  BY DEF Evolves, KeepsEdges
<1> QED  BY <1>1, <1>2, <1>3, <1>4, <1>5 DEF Evolves

LEMMA EvolvesIn ==
  ASSUME NEW t, NEW ps, NEW qs, ps \subseteq qs, NEW g, NEW h, Evolves(t, ps, g, h)
  PROVE  Evolves(t, qs, g, h)
BY DEF Evolves, IsReplaced, IsAdded

\* Only edges and frontiers.
LEMMA EvolvesBeside ==
  ASSUME NEW t, NEW ps, NEW g, IsWellFormed(g), NEW h, SameNodes(g, h)
  PROVE  Evolves(t, ps, g, h)
<1>1. Nodes(g) = 1 .. Len(g.nodes) /\ Len(g.nodes) \in Nat  BY WellFormedFields
<1>2. Nodes(h) = Nodes(g)  BY DEF SameNodes, Nodes
<1> QED  BY <1>1, <1>2 DEF Evolves, SameNodes

LEMMA EvolvesKeeps ==
  ASSUME NEW t, NEW ps, NEW g, IsWellFormed(g), NEW h, Evolves(t, ps, g, h)
  PROVE  KeepsFunctions(g, h)
<1>1. ASSUME NEW i \in Nodes(g)
      PROVE  /\ h.nodes[i].file = g.nodes[i].file /\ h.nodes[i].name = g.nodes[i].name
             /\ h.nodes[i].of = g.nodes[i].of
             /\ h.nodes[i].span = NoSpan <=> g.nodes[i].span = NoSpan
             /\ h.nodes[i].status = "HISTORICAL_SOURCE"
                  <=> g.nodes[i].status = "HISTORICAL_SOURCE"
  <2>1. h.nodes[i] = g.nodes[i] \/ IsReplaced(t, ps, g, h, i)  BY DEF Evolves
  <2>2. NodeIsKept(g, i)  BY DEF IsWellFormed
  <2> QED  BY <2>1, <2>2 DEF IsReplaced, NodeIsKept
<1> QED  BY <1>1 DEF KeepsFunctions, Evolves

\* The node of a definition stays it, and live.
LEMMA SourceStays ==
  ASSUME NEW g, IsWellFormed(g), NEW h, IsWellFormed(h), KeepsFunctions(g, h),
         NEW p, NEW name, SourceNode(g, p, name) # 0
  PROVE  SourceNode(h, p, name) = SourceNode(g, p, name)
<1> DEFINE i == SourceNode(g, p, name)
           j == SourceNode(h, p, name)
<1>1. /\ Nodes(g) = 1 .. Len(g.nodes) /\ Len(g.nodes) \in Nat
      /\ Nodes(h) = 1 .. Len(h.nodes) /\ Len(h.nodes) \in Nat /\ g \in Graphs /\ h \in Graphs
  BY WellFormedFields
<1>2. IsSource(g, i, p, name)  BY <1>1, SourceNodeFacts
<1>3. i \in Nodes(g) /\ i \in Nodes(h)  BY <1>1, <1>2 DEF IsSource, KeepsFunctions
<1>4. IsSource(h, i, p, name)  BY <1>2, <1>3 DEF IsSource, KeepsFunctions
<1>5. j # 0 /\ j <= i /\ IsSource(h, j, p, name)  BY <1>1, <1>3, <1>4, SourceNodeFacts
<1>6. j \in Nodes(h)  BY <1>5 DEF IsSource
<1>7. j \in Nodes(g)
  <2> HIDE DEF i, j
  <2> QED  BY <1>1, <1>3, <1>5, <1>6
<1>8. IsSource(g, j, p, name)  BY <1>5, <1>7 DEF IsSource, KeepsFunctions
<1>9. i <= j  BY <1>1, <1>7, <1>8, SourceNodeFacts
<1> HIDE DEF i, j
<1>10. i = j  BY <1>1, <1>3, <1>5, <1>7, <1>9
<1> QED  BY <1>10 DEF i, j

LEMMA ReadStays ==
  ASSUME NEW t, NEW ps, NEW g, IsWellFormed(g), NEW h, IsWellFormed(h),
         Evolves(t, ps, g, h), NEW p, NEW name, IsRead(g, p, name)
  PROVE  IsRead(h, p, name)
<1> DEFINE i == SourceNode(g, p, name)
<1>1. KeepsFunctions(g, h)  BY EvolvesKeeps
<1>2. SourceNode(h, p, name) = i /\ i # 0 /\ Live(g.nodes[i])
  BY <1>1, SourceStays DEF IsRead
<1>3. i \in Nodes(g)  BY <1>2, SourceNodeFacts, WellFormedFields DEF IsSource
<1> HIDE DEF i
<1>4. h.nodes[i] = g.nodes[i] \/ IsReplaced(t, ps, g, h, i)  BY <1>3 DEF Evolves
<1>5. Live(h.nodes[i])  BY <1>2, <1>4 DEF IsReplaced, Live, Old
<1> QED  BY <1>2, <1>5 DEF IsRead, i

LEMMA RoomShrinks ==
  ASSUME NEW g, IsWellFormed(g), NEW h, IsWellFormed(h), Len(g.nodes) <= Len(h.nodes)
  PROVE  /\ Room(g) \in Nat /\ Room(h) \in Nat /\ Room(h) <= Room(g)
         /\ Room(g) = 0 => Room(h) = 0
BY WellFormedFields, Limits DEF Room

\* What was whole stays whole.
LEMMA WholeStays ==
  ASSUME NEW t, NEW ps, NEW g, IsWellFormed(g), NEW h, IsWellFormed(h),
         Evolves(t, ps, g, h), NEW p \in Files, IsWhole(g, p)
  PROVE  IsWhole(h, p)
<1>1. SUFFICES ASSUME h.hash[p] # NoHash, Room(h) > 0 \/ "SYMBOL_BUDGET" \notin h.frontiers,
                      NEW d \in Range(Defs[h.hash[p]])
               PROVE  IsRead(h, p, d.name)
  BY DEF IsWhole
<1>2. h.hash = g.hash /\ Len(g.nodes) <= Len(h.nodes) /\ g.frontiers \subseteq h.frontiers
  BY DEF Evolves
<1>3. Room(g) > 0 \/ "SYMBOL_BUDGET" \notin g.frontiers  BY <1>1, <1>2, RoomShrinks
<1>4. IsRead(g, p, d.name)  BY <1>1, <1>2, <1>3 DEF IsWhole
<1> QED  BY <1>4, ReadStays

\* The texts that are read are known ones.
TextsAreKnown(t, ps, g) ==
  \A p \in ps, name \in Names : TextsIn(t, p, name) \subseteq Known(g, p, name)

\* No text is live that is not known, and no call, if each new one is made by a
\* known text.
LEMMA SoundStays ==
  ASSUME NEW t, NEW ps, NEW g, IsWellFormed(g), NEW h, IsWellFormed(h),
         Evolves(t, ps, g, h), TextsAreKnown(t, ps, g), IsSound(g),
         \A e \in DOMAIN h.edges :
           (e \in DOMAIN g.edges /\ h.edges[e] = g.edges[e]) \/ CallIsKnown(h, e)
  PROVE  IsSound(h)
<1>1. /\ Nodes(g) = 1 .. Len(g.nodes) /\ Len(g.nodes) \in Nat
      /\ Nodes(h) = 1 .. Len(h.nodes) /\ Len(h.nodes) \in Nat
      /\ \A i \in Nodes(g) : g.nodes[i] \in NodeType
      /\ \A i \in Nodes(h) : h.nodes[i] \in NodeType
  BY WellFormedFields
<1>2. \A p, name : Known(h, p, name) = Known(g, p, name)  BY DEF Evolves, Known
<1>3. ASSUME NEW i \in Nodes(h)  PROVE TextIsKnown(h, i)
  <2>1. h.nodes[i].name \in Names  BY <1>1, NodeFields
  <2>2. CASE i > Len(g.nodes)
    <3>1. IsAdded(t, ps, h, i)  BY <2>2 DEF Evolves
    <3> QED  BY <1>2, <2>1, <3>1 DEF IsAdded, TextIsKnown, TextsAreKnown
  <2>3. CASE ~(i > Len(g.nodes))
    <3>1. i \in Nodes(g)  BY <1>1, <2>3
    <3>2. TextIsKnown(g, i)  BY <3>1 DEF IsSound
    <3>3. CASE h.nodes[i] = g.nodes[i]  BY <1>2, <3>2, <3>3 DEF TextIsKnown
    <3>4. CASE IsReplaced(t, ps, g, h, i)
      BY <1>2, <2>1, <3>4 DEF IsReplaced, TextIsKnown, TextsAreKnown
    <3> QED  BY <3>1, <3>3, <3>4 DEF Evolves
  <2> QED  BY <2>2, <2>3
<1>4. ASSUME NEW e \in DOMAIN h.edges  PROVE CallIsKnown(h, e)
  <2>1. SUFFICES ASSUME e \in DOMAIN g.edges, h.edges[e] = g.edges[e],
                        e.kind = "STATIC_CALLS"
                 PROVE  CallIsKnown(h, e)
    BY DEF CallIsKnown
  <2> DEFINE from == e.from
             to == e.to
  <2>2. EdgeIsKept(g, e) /\ CallIsKnown(g, e)  BY <2>1 DEF IsWellFormed, IsSound
  <2>3. from \in Nodes(g) /\ to \in Nodes(g)  BY <2>1, <2>2 DEF EdgeIsKept
  <2>4. h.nodes[from] = g.nodes[from] \/ IsReplaced(t, ps, g, h, from)  BY <2>3 DEF Evolves
  <2>5. h.nodes[to].name = g.nodes[to].name  BY <2>3, EvolvesKeeps DEF KeepsFunctions
  <2>6. /\ h.nodes[from].file = g.nodes[from].file /\ h.nodes[from].name = g.nodes[from].name
        /\ Live(g.nodes[from]) => Live(h.nodes[from])
    BY <2>4 DEF IsReplaced, Live, Old
  <2> DEFINE file == g.nodes[from].file
             name == g.nodes[from].name
  <2>7. CleanTexts(file, name) \subseteq Known(g, file, name)  BY DEF Known
  <2>8. ASSUME g.edges[e].active
        PROVE  CallsFrom(IF Live(h.nodes[from]) THEN Known(g, file, name)
                         ELSE CleanTexts(file, name), g.nodes[to].name)
    <3>1. CallsFrom(IF Live(g.nodes[from]) THEN Known(g, file, name)
                    ELSE CleanTexts(file, name), g.nodes[to].name)
      BY <2>1, <2>2, <2>8 DEF CallIsKnown
    <3> QED  BY <2>6, <2>7, <3>1 DEF CallsFrom
  <2> QED  BY <1>2, <2>1, <2>5, <2>6, <2>8 DEF CallIsKnown
<1> QED  BY <1>3, <1>4 DEF IsSound

\* A function is added.
CanAdd(t, ps, g, node) ==
  /\ node \in NodeType /\ node.of = 0 /\ Live(node)
  /\ node.span # NoSpan =>
       /\ node.file \in g.files /\ node.file \in ps
       /\ node.span \in TextsIn(t, node.file, node.name)

HasNew(g, h, node) ==
  /\ Len(h.nodes) = Len(g.nodes) + 1 /\ h.nodes[Len(g.nodes) + 1] = node
  /\ \A i \in Nodes(g) : h.nodes[i] = g.nodes[i]
  /\ h.edges = g.edges /\ h.files = g.files

LEMMA AddNodeStep ==
  ASSUME NEW t, NEW ps, NEW g, IsWellFormed(g), NEW node, CanAdd(t, ps, g, node)
  PROVE  LET h == WithNode(g, node)
         IN IsWellFormed(h) /\ Evolves(t, ps, g, h) /\ HasNew(g, h, node)
<1> DEFINE n == Len(g.nodes)
           nodes == Append(g.nodes, node)
           h == WithNode(g, node)
<1>1. g \in Graphs /\ g.nodes \in Seq(NodeType) /\ n \in Nat /\ Nodes(g) = 1 .. n
  BY WellFormedFields
<1>2. /\ nodes \in Seq(NodeType) /\ Len(nodes) = n + 1 /\ nodes[n + 1] = node
      /\ \A i \in 1 .. n : nodes[i] = g.nodes[i]
  BY <1>1 DEF CanAdd
<1>3. h = [g EXCEPT !.nodes = nodes]  BY DEF WithNode
<1> HIDE DEF nodes
<1>4. /\ h \in Graphs /\ h.nodes = nodes /\ h.edges = g.edges /\ h.files = g.files
      /\ h.hash = g.hash /\ h.frontiers = g.frontiers /\ h.expansions = g.expansions
  BY <1>1, <1>2, <1>3, WithNodesOf
<1> HIDE DEF h, n
<1>5. Nodes(h) = 1 .. (n + 1)  BY <1>2, <1>4, FieldsOf
<1>6. KeepsFunctions(g, h)  BY <1>1, <1>2, <1>4 DEF KeepsFunctions, n
<1>7. node.status # "HISTORICAL_SOURCE"  BY DEF CanAdd, Live, Old
<1>8. ASSUME NEW i \in Nodes(h), i > n  PROVE NodeIsKept(h, i) /\ IsAdded(t, ps, h, i)
  <2>1. i = n + 1  BY <1>1, <1>5, <1>8
  <2>2. h.nodes[i] = node  BY <1>2, <1>4, <2>1
  <2> QED  BY <1>4, <1>7, <2>2 DEF CanAdd, NodeIsKept, IsAdded
<1>9. IsWellFormed(h)
  <2>1. g.files \subseteq h.files /\ Cardinality(h.files) <= MaxFiles  BY <1>4 DEF IsWellFormed
  <2>2. \A p \in Files \ h.files : h.hash[p] = NoHash  BY <1>4 DEF IsWellFormed
  <2> QED  BY <1>4, <1>6, <1>8, <2>1, <2>2, WellFormedStays DEF n
<1>10. Evolves(t, ps, g, h)
  <2>1. KeepsEdges(g, h)  BY <1>4 DEF KeepsEdges
  <2>2. n <= n + 1  BY <1>1
  <2> QED  BY <1>1, <1>2, <1>4, <1>8, <2>1, <2>2 DEF Evolves, n
<1> QED  BY <1>1, <1>2, <1>4, <1>9, <1>10 DEF HasNew, h, n

\* A definition is read.
LEMMA ReadDefinitionStep ==
  ASSUME NEW t, NEW g, IsWellFormed(g), NEW p \in Files, p \in g.files,
         NEW def \in DefType, def.span \in TextsIn(t, p, def.name),
         NEW status \in {"NO_STATUS", "CURRENT_SOURCE"}
  PROVE  LET h == ReadDefinition(g, p, def, status)
         IN /\ IsWellFormed(h) /\ Evolves(t, {p}, g, h) /\ h.edges = g.edges
            /\ SourceNode(h, p, def.name) # 0
            /\ \/ SourceNode(g, p, def.name) = 0 \/ status = "CURRENT_SOURCE"
               \/ IsRead(g, p, def.name)
               => IsRead(h, p, def.name)
<1> DEFINE n == Len(g.nodes)
           i == SourceNode(g, p, def.name)
           h == ReadDefinition(g, p, def, status)
<1>1. g \in Graphs /\ g.nodes \in Seq(NodeType) /\ n \in Nat /\ Nodes(g) = 1 .. n
  BY WellFormedFields
<1>2. def.name \in Names /\ def.span \in Spans /\ def.line \in Nat  BY DEF DefType
<1>3. def.span # NoSpan  BY <1>2, TreesAreGiven
<1>4. CASE i = 0
  <2> DEFINE node == [file |-> p, name |-> def.name, span |-> def.span,
                      line |-> def.line, status |-> status, of |-> 0]
             j == SourceNode(h, p, def.name)
  <2>1. h = WithNode(g, node)  BY <1>4 DEF ReadDefinition
  <2>2. node \in NodeType  BY <1>2 DEF NodeType
  <2>3. /\ node.of = 0 /\ node.file = p /\ node.name = def.name /\ node.span = def.span
        /\ node.status = status
    OBVIOUS
  <2> HIDE DEF node
  <2>4. Live(node)  BY <2>3, Lives
  <2> DEFINE ps == {p}
  <2>5. CanAdd(t, ps, g, node)  BY <2>2, <2>3, <2>4 DEF CanAdd
  <2> HIDE DEF ps, h
  <2>6. IsWellFormed(h) /\ Evolves(t, ps, g, h) /\ HasNew(g, h, node)
    BY <2>1, <2>5, AddNodeStep
  <2> HIDE DEF n
  <2>7. Nodes(h) = 1 .. (n + 1) /\ h \in Graphs  BY <1>1, <2>6, WellFormedFields DEF HasNew, n
  <2>8. IsSource(h, n + 1, p, def.name)  BY <1>1, <1>3, <2>3, <2>6, <2>7 DEF HasNew, IsSource, n
  <2>9. j # 0 /\ IsSource(h, j, p, def.name)
    BY <1>1, <2>7, <2>8, SourceNodeFacts
  <2>10. j \in 1 .. (n + 1)  BY <2>7, <2>9 DEF IsSource
  <2>11. ASSUME j \in Nodes(g)  PROVE FALSE
    <3>1. IsSource(g, j, p, def.name)  BY <2>6, <2>9, <2>11 DEF HasNew, IsSource
    <3> QED  BY <1>1, <1>4, <2>11, <3>1, SourceNodeFacts
  <2>12. j = n + 1
    <3> HIDE DEF j
    <3> QED  BY <1>1, <2>10, <2>11
  <2>13. IsRead(h, p, def.name)  BY <2>4, <2>6, <2>9, <2>12 DEF HasNew, IsRead, n
  <2> QED  BY <2>6, <2>9, <2>13 DEF HasNew, h, ps
<1>5. CASE i # 0
  <2> DEFINE node == [g.nodes[i] EXCEPT !.span = def.span, !.line = def.line,
                        !.status = IF status = "NO_STATUS" THEN @ ELSE status]
             nodes == [j \in Nodes(g) |-> IF j = i THEN node ELSE g.nodes[j]]
  <2>1. IsSource(g, i, p, def.name) /\ i \in Nodes(g)
    BY <1>1, <1>5, SourceNodeFacts DEF IsSource
  <2>2. h = [g EXCEPT !.nodes = nodes]  BY <1>5, Zenon DEF ReadDefinition
  <2> HIDE DEF i
  <2>3. g.nodes[i] \in NodeType  BY <1>1, <2>1
  <2>4. /\ node \in NodeType
        /\ node.file = g.nodes[i].file /\ node.name = g.nodes[i].name
        /\ node.of = g.nodes[i].of /\ node.span = def.span
        /\ node.status = IF status = "NO_STATUS" THEN g.nodes[i].status ELSE status
    <3> DEFINE was == g.nodes[i]
    <3>1. was \in NodeType  BY <2>3
    <3>2. node = [was EXCEPT !.span = def.span, !.line = def.line,
                    !.status = IF status = "NO_STATUS" THEN @ ELSE status]
      OBVIOUS
    <3> HIDE DEF node, was
    <3> QED  BY <1>2, <3>1, <3>2 DEF NodeType, was
  <2> HIDE DEF node
  <2>5. nodes \in [1 .. n -> NodeType]  BY <1>1, <2>4
  <2>6. nodes \in Seq(NodeType)  BY <1>1, <2>5
  <2>7. Len(nodes) = n  BY <1>1, <2>5
  <2>8. nodes[i] = node /\ \A j \in Nodes(g) : j # i => nodes[j] = g.nodes[j]  BY <2>1
  <2> HIDE DEF nodes
  <2>9. /\ h \in Graphs /\ h.nodes = nodes /\ h.edges = g.edges /\ h.files = g.files
        /\ h.hash = g.hash /\ h.frontiers = g.frontiers /\ h.expansions = g.expansions
    BY <1>1, <2>2, <2>6, WithNodesOf
  <2> HIDE DEF h, n
  <2>10. Nodes(h) = Nodes(g) /\ Len(h.nodes) = n  BY <1>1, <2>7, <2>9, FieldsOf
  <2>11. IsReplaced(t, {p}, g, h, i)
    BY <1>3, <2>1, <2>4, <2>8, <2>9 DEF IsReplaced, IsSource
  <2>12. Evolves(t, {p}, g, h)
    <3>1. KeepsEdges(g, h)  BY <2>9 DEF KeepsEdges
    <3>2. n <= n /\ \A j \in Nodes(h) : ~(j > n)  BY <1>1, <2>10
    <3> QED  BY <2>8, <2>9, <2>10, <2>11, <3>1, <3>2 DEF Evolves, n
  <2>13. IsWellFormed(h)
    <3>1. KeepsFunctions(g, h)  BY <2>12, EvolvesKeeps
    <3>2. \A j \in Nodes(h) : ~(j > n)  BY <1>1, <2>10
    <3>3. g.files \subseteq h.files /\ Cardinality(h.files) <= MaxFiles
      BY <2>9 DEF IsWellFormed
    <3>4. \A q \in Files \ h.files : h.hash[q] = NoHash  BY <2>9 DEF IsWellFormed
    <3> QED  BY <2>9, <3>1, <3>2, <3>3, <3>4, WellFormedStays DEF n
  <2>14. SourceNode(h, p, def.name) = i
    BY <1>5, <2>12, <2>13, EvolvesKeeps, SourceStays DEF i
  <2>15. IsRead(g, p, def.name) => IsRead(h, p, def.name)  BY <2>12, <2>13, ReadStays
  <2>16. status = "CURRENT_SOURCE" => IsRead(h, p, def.name)
    <3>1. status = "CURRENT_SOURCE" => node.status = "CURRENT_SOURCE"  BY <2>4
    <3>2. status = "CURRENT_SOURCE" => Live(node)  BY <3>1, Lives
    <3> QED  BY <1>5, <2>8, <2>9, <2>14, <3>2 DEF IsRead, i
  <2> QED  BY <1>5, <2>9, <2>12, <2>13, <2>14, <2>15, <2>16 DEF h, i
<1> QED  BY <1>4, <1>5

\* A file is admitted, or there is no place for it.
LEMMA AdmitStep ==
  ASSUME NEW t, NEW g, IsWellFormed(g), NEW p \in Files
  PROVE  LET h == Admit(g, p)
         IN /\ IsWellFormed(h) /\ Evolves(t, {}, g, h)
            /\ h.edges = g.edges /\ h.nodes = g.nodes
            /\ p \notin h.files =>
                 h.files = g.files /\ Cardinality(g.files) >= MaxFiles
<1> DEFINE h == Admit(g, p)
           files == g.files \cup {p}
<1>1. /\ g \in Graphs /\ Nodes(g) = 1 .. Len(g.nodes) /\ Len(g.nodes) \in Nat
      /\ g.files \subseteq Files
  BY WellFormedFields, FieldsOf
<1>2. CASE Cardinality(g.files) >= MaxFiles /\ p \notin g.files
  <2>1. h = WithFrontier(g, "FILE_BUDGET") /\ "FILE_BUDGET" \in Reasons
    BY <1>2 DEF Admit, Reasons
  <2>2. IsWellFormed(h) /\ SameNodes(g, h) /\ h.edges = g.edges  BY <2>1, FrontierStep
  <2> QED  BY <1>2, <2>2, EvolvesBeside DEF SameNodes
<1>3. CASE ~(Cardinality(g.files) >= MaxFiles /\ p \notin g.files)
  <2>1. h = [g EXCEPT !.files = files]  BY <1>3 DEF Admit
  <2>2. files \in SUBSET Files  BY <1>1
  <2>3. p \in files /\ g.files \subseteq files  OBVIOUS
  <2>4. Cardinality(files) <= MaxFiles /\ (Cardinality(g.files) >= MaxFiles => files = g.files)
    <3>1. CASE p \in g.files
      <4>1. files = g.files  BY <3>1
      <4> QED  BY <4>1 DEF IsWellFormed
    <3>2. CASE p \notin g.files
      <4>1. IsFiniteSet(g.files)  BY <1>1, FilesAreFinite, FS_Subset
      <4>2. Cardinality(files) = Cardinality(g.files) + 1  BY <3>2, <4>1, FS_AddElement
      <4>3. Cardinality(g.files) \in Nat  BY <4>1, FS_CardinalityType
      <4>4. ~(Cardinality(g.files) >= MaxFiles)  BY <1>3, <3>2
      <4> QED  BY <4>2, <4>3, <4>4, Limits
    <3> QED  BY <3>1, <3>2
  <2> HIDE DEF files
  <2>5. /\ h \in Graphs /\ h.nodes = g.nodes /\ h.edges = g.edges /\ h.files = files
        /\ h.hash = g.hash /\ h.frontiers = g.frontiers /\ h.expansions = g.expansions
    BY <1>1, <2>1, <2>2, WithFilesOf
  <2> HIDE DEF h
  <2>6. Nodes(h) = Nodes(g) /\ \A i \in Nodes(h) : ~(i > Len(g.nodes))
    BY <1>1, <2>5 DEF Nodes
  <2>7. Evolves(t, {}, g, h)
    <3>1. KeepsEdges(g, h)  BY <2>5 DEF KeepsEdges
    <3>2. Len(g.nodes) <= Len(h.nodes)  BY <1>1, <2>5
    <3> QED  BY <2>3, <2>4, <2>5, <2>6, <3>1, <3>2 DEF Evolves
  <2>8. IsWellFormed(h)
    <3>1. KeepsFunctions(g, h)  BY <2>7, EvolvesKeeps
    <3>2. \A q \in Files \ h.files : h.hash[q] = NoHash  BY <2>3, <2>5 DEF IsWellFormed
    <3> QED  BY <2>3, <2>4, <2>5, <2>6, <3>1, <3>2, WellFormedStays
  <2> QED  BY <2>3, <2>5, <2>7, <2>8 DEF h
<1> QED  BY <1>2, <1>3

-----------------------------------------------------------------------------
(* A failing run.                                                              *)

LEMMA TracedStep ==
  ASSUME NEW t, NEW g, IsWellFormed(g), NEW p \in Files, NEW def \in DefType
  PROVE  LET h == Traced(g, p, def)
         IN /\ IsWellFormed(h) /\ Evolves(t, {}, g, h) /\ h.edges = g.edges
            /\ Named(h, p, def.name) \in Nodes(h)
<1> DEFINE h == Traced(g, p, def)
           i == Named(g, p, def.name)
<1>1. g \in Graphs /\ Len(g.nodes) \in Nat /\ Nodes(g) = 1 .. Len(g.nodes)
  BY WellFormedFields
<1>2. CASE i # 0
  <2>1. h = g  BY <1>2 DEF Traced
  <2>2. i \in 0 .. Len(g.nodes)  BY <1>1, NamedNodeFacts
  <2> HIDE DEF i
  <2>3. i \in Nodes(g)  BY <1>1, <1>2, <2>2
  <2> QED  BY <2>1, <2>3, EvolvesNot DEF i
<1>3. CASE i = 0
  <2> DEFINE node == [file |-> p, name |-> def.name, span |-> NoSpan, line |-> def.line,
                      status |-> "NO_STATUS", of |-> 0]
             none == {}
  <2>1. h = WithNode(g, node)  BY <1>3 DEF Traced
  <2>2. def.name \in Names /\ def.line \in Nat  BY DEF DefType
  <2>3. node \in NodeType  BY <2>2 DEF NodeType
  <2>4. /\ node.of = 0 /\ node.file = p /\ node.name = def.name /\ node.span = NoSpan
        /\ node.status = "NO_STATUS"
    OBVIOUS
  <2> HIDE DEF node, none, h, i
  <2>5. CanAdd(t, none, g, node)  BY <2>3, <2>4, Lives DEF CanAdd
  <2>6. IsWellFormed(h) /\ Evolves(t, none, g, h) /\ HasNew(g, h, node)
    BY <2>1, <2>5, AddNodeStep
  <2> DEFINE j == Named(h, p, def.name)
             n == Len(g.nodes)
  <2>7. h \in Graphs /\ Nodes(h) = 1 .. (n + 1)  BY <2>6, WellFormedFields DEF HasNew
  <2>8. n + 1 \in Nodes(h) /\ h.nodes[n + 1] = node  BY <1>1, <2>6, <2>7 DEF HasNew
  <2>9. j \in 0 .. Len(h.nodes) /\ j # 0  BY <2>4, <2>7, <2>8, NamedNodeFacts
  <2>10. Len(h.nodes) = n + 1  BY <2>6 DEF HasNew
  <2> HIDE DEF j, n
  <2>11. j \in Nodes(h)  BY <1>1, <2>7, <2>9, <2>10 DEF n
  <2> QED  BY <2>6, <2>11 DEF HasNew, none, h, j
<1> QED  BY <1>2, <1>3

\* Edges are added, but no calls by name.
AddsNoCalls(g, h) ==
  \A e \in DOMAIN h.edges :
    (e \in DOMAIN g.edges /\ h.edges[e] = g.edges[e]) \/ e.kind # "STATIC_CALLS"

LEMMA AddObservedEdge ==
  ASSUME NEW t, NEW g, IsWellFormed(g), NEW kind \in {"TRACE_REACHES", "DYNAMIC_CALLS"},
         NEW from \in Nat, NEW to \in Nodes(g), kind = "DYNAMIC_CALLS" => from \in Nodes(g)
  PROVE  LET h == AddEdge(g, Edge(kind, from, to))
         IN /\ IsWellFormed(h) /\ Evolves(t, {}, g, h) /\ AddsNoCalls(g, h)
            /\ h.nodes = g.nodes
<1> DEFINE e == Edge(kind, from, to)
           h == AddEdge(g, e)
<1>1. to \in Nat  BY WellFormedFields
<1>2. e \in EdgeIds /\ e.kind = kind /\ e.from = from /\ e.to = to
  BY <1>1 DEF Edge, EdgeIds, Kinds
<1> HIDE DEF e
<1>3. CanHold(g, e)  BY <1>2 DEF CanHold
<1>4. /\ IsWellFormed(h) /\ SameNodes(g, h)
      /\ \A x \in DOMAIN h.edges :
           x = e \/ (x \in DOMAIN g.edges /\ h.edges[x] = g.edges[x])
  BY <1>3, AddEdgeStep
<1> HIDE DEF h
<1>5. AddsNoCalls(g, h)  BY <1>2, <1>4 DEF AddsNoCalls
<1>6. Evolves(t, {}, g, h)  BY <1>4, EvolvesBeside
<1> QED  BY <1>4, <1>5, <1>6 DEF SameNodes, h, e

LEMMA SeenStep ==
  ASSUME NEW t, NEW g, IsWellFormed(g), NEW n \in Nat, NEW caller \in 0 .. Len(g.nodes),
         NEW f, f.file \in Files, f.def \in DefType
  PROVE  LET h == Seen(g, n, caller, f)
         IN IsWellFormed(h) /\ Evolves(t, {}, g, h) /\ AddsNoCalls(g, h)
<1> DEFINE known == Traced(g, f.file, f.def)
           here == Named(known, f.file, f.def.name)
           seen == AddEdge(known, Edge("TRACE_REACHES", n, here))
           led == AddEdge(seen, Edge("DYNAMIC_CALLS", caller, here))
           none == {}
<1>1. /\ IsWellFormed(known) /\ Evolves(t, none, g, known) /\ known.edges = g.edges
      /\ here \in Nodes(known)
  BY TracedStep
<1> HIDE DEF known, here, none
<1>2. /\ IsWellFormed(seen) /\ Evolves(t, none, known, seen) /\ AddsNoCalls(known, seen)
      /\ seen.nodes = known.nodes
  BY <1>1, AddObservedEdge DEF none
<1> HIDE DEF seen
<1>3. Evolves(t, none, g, seen)  BY <1>1, <1>2, EvolvesOn
<1>4. AddsNoCalls(g, seen)  BY <1>1, <1>2 DEF AddsNoCalls
<1>5. Seen(g, n, caller, f) = IF caller \in {0, here} THEN seen ELSE led
  BY DEF Seen, known, here, seen
<1>6. CASE caller \in {0, here}  BY <1>2, <1>3, <1>4, <1>5, <1>6 DEF none
<1>7. CASE caller \notin {0, here}
  <2>1. caller \in Nodes(seen) /\ here \in Nodes(seen) /\ caller \in Nat
    <3>1. /\ Nodes(seen) = 1 .. Len(seen.nodes) /\ Len(seen.nodes) \in Nat
          /\ Nodes(g) = 1 .. Len(g.nodes) /\ Len(g.nodes) \in Nat
      BY <1>2, WellFormedFields
    <3>2. Len(g.nodes) <= Len(seen.nodes)  BY <1>3 DEF Evolves
    <3>3. here \in Nodes(seen)  BY <1>1, <1>2 DEF Nodes
    <3> QED  BY <1>7, <3>1, <3>2, <3>3
  <2>2. IsWellFormed(led) /\ Evolves(t, none, seen, led) /\ AddsNoCalls(seen, led)
    BY <1>2, <2>1, AddObservedEdge DEF none
  <2> HIDE DEF led
  <2>3. Evolves(t, none, g, led)  BY <1>2, <1>3, <2>2, EvolvesOn
  <2>4. AddsNoCalls(g, led)  BY <1>4, <2>2 DEF AddsNoCalls
  <2> QED  BY <1>5, <1>7, <2>2, <2>3, <2>4 DEF none
<1> QED  BY <1>6, <1>7

LEMMA ObservedStep ==
  ASSUME NEW t \in Trees, NEW g, IsWellFormed(g), NEW n \in Nat, NEW run \in Runs(t)
  PROVE  LET h == Observed(g, n, run)
         IN IsWellFormed(h) /\ Evolves(t, {}, g, h) /\ AddsNoCalls(g, h)
<1> DEFINE first == Seen(g, n, 0, run[1])
           caller == Named(first, run[1].file, run[1].def.name)
           second == Seen(first, n, caller, run[2])
           none == {}
<1>1. \A f \in Functions(t) : f.file \in Files /\ f.def \in DefType
  <2> TAKE f \in Functions(t)
  <2>1. PICK p \in Files : Content[t][p] \in Contents /\
          f \in {[file |-> p, def |-> d] : d \in Range(Defs[Content[t][p]])}
    BY DEF Functions
  <2>2. PICK d \in Range(Defs[Content[t][p]]) : f = [file |-> p, def |-> d]  BY <2>1
  <2>3. d \in DefType  BY <2>1, <2>2, DefsType
  <2> QED  BY <2>2, <2>3
<1>2. run[1] \in Functions(t) /\ (Len(run) # 1 => run[2] \in Functions(t))
  <2>1. CASE \E f \in Functions(t) : run = <<f>>  BY <2>1
  <2>2. CASE run \in Functions(t) \X Functions(t)  BY <2>2
  <2> QED  BY <2>1, <2>2 DEF Runs
<1>3. 0 \in 0 .. Len(g.nodes)  BY WellFormedFields
<1>4. IsWellFormed(first) /\ Evolves(t, none, g, first) /\ AddsNoCalls(g, first)
  BY <1>1, <1>2, <1>3, SeenStep DEF none
<1>5. Observed(g, n, run) = IF Len(run) = 1 THEN first ELSE second  BY DEF Observed
<1> HIDE DEF first
<1>6. CASE Len(run) = 1  BY <1>4, <1>5, <1>6 DEF none
<1>7. CASE Len(run) # 1
  <2>1. caller \in 0 .. Len(first.nodes)  BY <1>4, NamedNodeFacts, WellFormedFields
  <2> HIDE DEF caller
  <2>2. IsWellFormed(second) /\ Evolves(t, none, first, second) /\ AddsNoCalls(first, second)
    BY <1>1, <1>2, <1>4, <1>7, <2>1, SeenStep DEF none
  <2> HIDE DEF second, none
  <2>3. Evolves(t, none, g, second)  BY <1>4, <2>2, EvolvesOn
  <2>4. AddsNoCalls(g, second)  BY <1>4, <2>2 DEF AddsNoCalls
  <2> QED  BY <1>5, <1>7, <2>2, <2>3, <2>4 DEF none
<1> QED  BY <1>6, <1>7

-----------------------------------------------------------------------------
(* Calls.                                                                      *)

CallType == [file : Files, caller : Names, callee : Names]

LEMMA SeqOfItsRange ==
  ASSUME NEW S, NEW seq \in Seq(S)
  PROVE  /\ seq \in Seq(Range(seq)) /\ Len(seq) \in Nat
         /\ \A k \in 1 .. Len(seq) : seq[k] \in S /\ seq[k] \in Range(seq)
BY DEF Range

\* The caller has a node, and a text that makes the call.
IsMade(g, call) ==
  LET i == SourceNode(g, call.file, call.caller)
  IN /\ i # 0
     /\ CallsFrom(IF Live(g.nodes[i]) THEN Known(g, call.file, call.caller)
                  ELSE CleanTexts(call.file, call.caller), call.callee)

CanLink(g, calls) == \A k \in 1 .. Len(calls) : SourceNode(g, calls[k].file, calls[k].caller) # 0
AreMade(g, calls) == \A k \in 1 .. Len(calls) : IsMade(g, calls[k])

LEMMA SameNodesOn ==
  ASSUME NEW g, NEW m, NEW h, SameNodes(g, m), SameNodes(m, h)
  PROVE  SameNodes(g, h)
BY DEF SameNodes, KeepsEdges

\* Linking what is made leaves nothing unsound.
LEMMA LinkIsSound ==
  ASSUME NEW how, NEW g, IsWellFormed(g), IsSound(g), NEW call, IsMade(g, call)
  PROVE  IsSound(Link(how, g, call))
<1> DEFINE h == Link(how, g, call)
           i == SourceNode(g, call.file, call.caller)
           none == {}
<1>1. i # 0  BY DEF IsMade
<1>2. /\ IsWellFormed(h) /\ SameNodes(g, h)
      /\ \A x \in DOMAIN h.edges :
           \/ x \in DOMAIN g.edges /\ h.edges[x] = g.edges[x]
           \/ x.kind = "STATIC_CALLS" /\ x.from = i /\ g.nodes[x.to].name = call.callee
  BY <1>1, LinkStep
<1>3. IsSource(g, i, call.file, call.caller)  BY <1>1, SourceNodeFacts, WellFormedFields
<1>4. CallsFrom(IF Live(g.nodes[i]) THEN Known(g, call.file, call.caller)
                ELSE CleanTexts(call.file, call.caller), call.callee)
  BY DEF IsMade
<1> HIDE DEF h, i, none
<1>5. ASSUME NEW x \in DOMAIN h.edges,
             x.from = i /\ g.nodes[x.to].name = call.callee
      PROVE  CallIsKnown(h, x)
  <2>1. h.nodes = g.nodes /\ h.hash = g.hash  BY <1>2 DEF SameNodes
  <2>2. g.nodes[i].file = call.file /\ g.nodes[i].name = call.caller  BY <1>3 DEF IsSource
  <2>3. \A p, name : Known(h, p, name) = Known(g, p, name)  BY <2>1 DEF Known
  <2> QED  BY <1>4, <1>5, <2>1, <2>2, <2>3 DEF CallIsKnown
<1>6. Evolves(Clean, none, g, h)  BY <1>2, EvolvesBeside
<1>7. TextsAreKnown(Clean, none, g)  BY DEF TextsAreKnown, none
<1>8. \A x \in DOMAIN h.edges :
        (x \in DOMAIN g.edges /\ h.edges[x] = g.edges[x]) \/ CallIsKnown(h, x)
  BY <1>2, <1>5
<1>9. IsSound(h)  BY <1>2, <1>6, <1>7, <1>8, SoundStays
<1> QED  BY <1>9 DEF h

LEMMA SameCalls ==
  ASSUME NEW g, NEW h, SameNodes(g, h), NEW call
  PROVE  /\ SourceNode(h, call.file, call.caller) = SourceNode(g, call.file, call.caller)
         /\ IsMade(g, call) => IsMade(h, call)
<1>1. h.nodes = g.nodes /\ h.hash = g.hash  BY DEF SameNodes
<1>2. SourceNode(h, call.file, call.caller) = SourceNode(g, call.file, call.caller)
  BY <1>1 DEF SourceNode, Nodes
<1>3. Known(h, call.file, call.caller) = Known(g, call.file, call.caller)  BY <1>1 DEF Known
<1> QED  BY <1>1, <1>2, <1>3 DEF IsMade

LEMMA LinkedStep ==
  ASSUME NEW how, NEW g, IsWellFormed(g), NEW calls \in Seq(CallType), CanLink(g, calls)
  PROVE  LET h == Linked(how, g, calls)
         IN /\ IsWellFormed(h) /\ SameNodes(g, h)
            /\ IsSound(g) /\ AreMade(g, calls) => IsSound(h)
<1> DEFINE sound == IsSound(g) /\ AreMade(g, calls)
           A == {x \in Graphs : IsWellFormed(x) /\ SameNodes(g, x) /\ (sound => IsSound(x))}
           n == Len(calls)
<1>1. /\ calls \in Seq(Range(calls)) /\ n \in Nat
  BY SeqOfItsRange
<1>2. g \in A
  <2>1. SameNodes(g, g)  BY DEF SameNodes, KeepsEdges
  <2> QED  BY <2>1, WellFormedFields
<1>3. ASSUME NEW x \in A, NEW k \in 1 .. n  PROVE Link(how, x, calls[k]) \in A
  <2> DEFINE call == calls[k]
             h == Link(how, x, call)
  <2>1. IsWellFormed(x) /\ SameNodes(g, x) /\ (sound => IsSound(x))  OBVIOUS
  <2>2. SourceNode(g, call.file, call.caller) # 0  BY DEF CanLink
  <2>3. SourceNode(x, call.file, call.caller) # 0  BY <2>1, <2>2, SameCalls
  <2>4. sound => IsMade(x, call)
    <3>1. sound => IsMade(g, call)  BY DEF AreMade
    <3> HIDE DEF call
    <3> QED  BY <2>1, <3>1, SameCalls
  <2> HIDE DEF sound, call
  <2>5. IsWellFormed(h) /\ SameNodes(x, h)  BY <2>1, <2>3, LinkStep
  <2>6. SameNodes(g, h)  BY <2>1, <2>5, SameNodesOn
  <2>7. sound => IsSound(h)  BY <2>1, <2>4, LinkIsSound
  <2>8. h \in Graphs  BY <2>5, WellFormedFields
  <2> QED  BY <2>5, <2>6, <2>7, <2>8 DEF call
<1> HIDE DEF A
<1>4. MayLink(how, A, calls)  BY <1>3 DEF MayLink
<1>5. PICK h : RunsLink(h, how, A, g, calls)  BY <1>1, <1>2, <1>4, LinkSteps
<1>6. Linked(how, g, calls) \in A
  <2>1. n \in 0 .. n  BY <1>1
  <2> QED  BY <1>5, <2>1 DEF RunsLink
<1> QED  BY <1>6 DEF A

-----------------------------------------------------------------------------
(* Reading the definitions of a file.                                          *)

ReadStates == [graph : Graphs, calls : Seq(CallType), full : BOOLEAN]

NoRoom(g) == Room(g) = 0 /\ "SYMBOL_BUDGET" \in g.frontiers

\* The calls found in tree t: by a refresh, in a file that was read from it and
\* of a live caller.
IsFound(t, how, g, call) ==
  /\ SourceNode(g, call.file, call.caller) # 0
  /\ CallsFrom(TextsIn(t, call.file, call.caller), call.callee)
  /\ how = "REFRESH" => /\ IsRead(g, call.file, call.caller)
                        /\ g.hash[call.file] = Content[t][call.file]
AreFound(t, how, g, calls) == \A k \in 1 .. Len(calls) : IsFound(t, how, g, calls[k])

LEMMA FoundStay ==
  ASSUME NEW t, NEW how, NEW ps, NEW g, IsWellFormed(g), NEW h, IsWellFormed(h),
         Evolves(t, ps, g, h), NEW calls, AreFound(t, how, g, calls)
  PROVE  AreFound(t, how, h, calls)
<1> SUFFICES ASSUME NEW k \in 1 .. Len(calls)  PROVE IsFound(t, how, h, calls[k])
  BY DEF AreFound
<1> DEFINE p == calls[k].file
           name == calls[k].caller
<1>1. IsFound(t, how, g, calls[k])  BY DEF AreFound
<1>2. SourceNode(g, p, name) # 0  BY <1>1 DEF IsFound
<1>3. KeepsFunctions(g, h)  BY EvolvesKeeps
<1>4. SourceNode(h, p, name) # 0  BY <1>2, <1>3, SourceStays
<1>5. IsRead(g, p, name) => IsRead(h, p, name)  BY ReadStays
<1>6. h.hash = g.hash  BY DEF Evolves
<1> QED  BY <1>1, <1>4, <1>5, <1>6 DEF IsFound

LEMMA NoRoomStays ==
  ASSUME NEW t, NEW ps, NEW g, IsWellFormed(g), NEW h, IsWellFormed(h),
         Evolves(t, ps, g, h), NoRoom(g)
  PROVE  NoRoom(h)
BY RoomShrinks DEF NoRoom, Evolves

LEMMA CallsOfType ==
  ASSUME NEW p \in Files, NEW def \in DefType
  PROVE  /\ CallsOf(p, def) \in Seq(CallType)
         /\ \A k \in 1 .. Len(CallsOf(p, def)) :
              LET call == CallsOf(p, def)[k]
              IN /\ call.file = p /\ call.caller = def.name
                 /\ call.callee \in Range(Calls[def.span])
<1> DEFINE said == Calls[def.span]
           made(j) == [file |-> p, caller |-> def.name, callee |-> said[j]]
<1>1. def.name \in Names /\ def.span \in Spans  BY DEF DefType
<1>2. said \in Seq(Names)  BY <1>1, CallsType
<1>3. \A j \in DOMAIN said : said[j] \in Range(said) /\ said[j] \in Names
  BY <1>1, <1>2, CallsType
<1>4. CallsOf(p, def) = [j \in DOMAIN said |-> made(j)]  BY DEF CallsOf
<1>5. \A j \in DOMAIN said :
        /\ made(j) \in CallType /\ made(j).file = p /\ made(j).caller = def.name
        /\ made(j).callee \in Range(said)
  BY <1>1, <1>3 DEF CallType
<1> HIDE DEF made
<1>6. DOMAIN said = 1 .. Len(said) /\ Len(said) \in Nat  BY <1>2
<1> HIDE DEF said
<1>7. CallsOf(p, def) \in [1 .. Len(said) -> CallType]  BY <1>4, <1>5, <1>6
<1>8. CallsOf(p, def) \in Seq(CallType) /\ Len(CallsOf(p, def)) = Len(said)
  BY <1>6, <1>7
<1> QED  BY <1>4, <1>5, <1>6, <1>8 DEF said

\* What one definition adds, in a refresh or for the seed.
Reads(t, how, p, g, s) ==
  /\ s \in ReadStates /\ IsWellFormed(s.graph) /\ p \in s.graph.files
  /\ Evolves(t, {p}, g, s.graph) /\ s.graph.edges = g.edges
  /\ AreFound(t, how, s.graph, s.calls)
  /\ s.full => NoRoom(s.graph)

LEMMA FoundTogether ==
  ASSUME NEW t, NEW how, NEW g, NEW a \in Seq(CallType), NEW b \in Seq(CallType),
         AreFound(t, how, g, a), AreFound(t, how, g, b)
  PROVE  a \o b \in Seq(CallType) /\ AreFound(t, how, g, a \o b)
<1>1. /\ a \o b \in Seq(CallType) /\ Len(a \o b) = Len(a) + Len(b)
      /\ Len(a) \in Nat /\ Len(b) \in Nat
  OBVIOUS
<1>2. ASSUME NEW k \in 1 .. Len(a \o b)  PROVE IsFound(t, how, g, (a \o b)[k])
  <2>1. CASE k \in 1 .. Len(a)
    <3>1. (a \o b)[k] = a[k]  BY <2>1
    <3> QED  BY <2>1, <3>1 DEF AreFound
  <2>2. CASE k \notin 1 .. Len(a)
    <3>1. (a \o b)[k] = b[k - Len(a)] /\ k - Len(a) \in 1 .. Len(b)  BY <1>1, <2>2
    <3> QED  BY <3>1 DEF AreFound
  <2> QED  BY <2>1, <2>2
<1> QED  BY <1>1, <1>2 DEF AreFound

LEMMA ReadNextStep ==
  ASSUME NEW t, NEW how \in {"REFRESH", "SEED"}, NEW p \in Files, NEW wanted,
         NEW g, IsWellFormed(g), how = "REFRESH" => g.hash[p] = Content[t][p],
         NEW s, Reads(t, how, p, g, s),
         NEW def \in DefType, def.span \in TextsIn(t, p, def.name)
  PROVE  LET r == ReadNext(how, p, wanted, s, def)
         IN /\ Reads(t, how, p, g, r) /\ Evolves(t, {p}, s.graph, r.graph)
            /\ s.full => r.full
            /\ how = "REFRESH" /\ def \in wanted /\ ~r.full => IsRead(r.graph, p, def.name)
<1> DEFINE status == IF how = "REFRESH" THEN "CURRENT_SOURCE" ELSE "NO_STATUS"
           full == Room(s.graph) = 0
                   /\ (how = "REFRESH" => SourceNode(s.graph, p, def.name) = 0)
           known == ReadDefinition(s.graph, p, def, status)
           r == ReadNext(how, p, wanted, s, def)
           new == CallsOf(p, def)
           ps == {p}
<1>1. /\ s \in ReadStates /\ IsWellFormed(s.graph) /\ p \in s.graph.files
      /\ Evolves(t, ps, g, s.graph) /\ s.graph.edges = g.edges
      /\ AreFound(t, how, s.graph, s.calls) /\ (s.full => NoRoom(s.graph))
      /\ s.graph \in Graphs /\ s.calls \in Seq(CallType) /\ s.full \in BOOLEAN
  BY DEF Reads, ReadStates
<1>2. CASE s.full \/ def \notin wanted
  <2>1. r = s  BY <1>2 DEF ReadNext
  <2> QED  BY <1>1, <1>2, <2>1, EvolvesNot
<1>3. CASE ~s.full /\ def \in wanted /\ full
  <2> DEFINE cut == WithFrontier(s.graph, "SYMBOL_BUDGET")
  <2>1. r = [s EXCEPT !.graph = cut, !.full = TRUE]  BY <1>3 DEF ReadNext
  <2>2. "SYMBOL_BUDGET" \in Reasons  BY DEF Reasons
  <2>3. /\ IsWellFormed(cut) /\ SameNodes(s.graph, cut) /\ cut.edges = s.graph.edges
        /\ "SYMBOL_BUDGET" \in cut.frontiers
    BY <1>1, <2>2, FrontierStep
  <2> HIDE DEF cut, r, ps
  <2>4. cut \in Graphs  BY <2>3, WellFormedFields
  <2>5. r \in ReadStates /\ r.graph = cut /\ r.calls = s.calls /\ r.full = TRUE
    BY <1>1, <2>1, <2>4 DEF ReadStates
  <2>6. Evolves(t, ps, s.graph, cut)  BY <1>1, <2>3, EvolvesBeside
  <2>7. Evolves(t, ps, g, cut)  BY <1>1, <2>3, <2>6, EvolvesOn
  <2>8. AreFound(t, how, cut, s.calls)  BY <1>1, <2>3, <2>6, FoundStay
  <2>9. Room(cut) = 0  BY <1>3, <2>3 DEF Room, SameNodes
  <2>10. p \in cut.files  BY <1>1, <2>3 DEF SameNodes
  <2> QED  BY <1>1, <2>3, <2>5, <2>6, <2>7, <2>8, <2>9, <2>10 DEF Reads, NoRoom, r, ps
<1>4. CASE ~s.full /\ def \in wanted /\ ~full
  <2>1. r = [s EXCEPT !.graph = known, !.calls = @ \o new]  BY <1>4 DEF ReadNext
  <2>2. status \in {"NO_STATUS", "CURRENT_SOURCE"}  OBVIOUS
  <2>3. how = "REFRESH" => status = "CURRENT_SOURCE"  OBVIOUS
  <2> DEFINE was == s.graph
  <2>4. IsWellFormed(was) /\ p \in was.files  BY <1>1
  <2> HIDE DEF status, was
  <2>5. /\ IsWellFormed(known) /\ Evolves(t, ps, s.graph, known)
        /\ known.edges = s.graph.edges
        /\ SourceNode(known, p, def.name) # 0
        /\ status = "CURRENT_SOURCE" => IsRead(known, p, def.name)
    BY <2>4, <2>2, ReadDefinitionStep DEF was
  <2> HIDE DEF known, new, ps, r, full
  <2>6. known \in Graphs  BY <2>5, WellFormedFields
  <2>7. new \in Seq(CallType)  BY CallsOfType DEF new
  <2>8. AreFound(t, how, known, new)
    <3> SUFFICES ASSUME NEW k \in 1 .. Len(new)  PROVE IsFound(t, how, known, new[k])
      BY DEF AreFound
    <3>1. /\ new[k].file = p /\ new[k].caller = def.name
          /\ new[k].callee \in Range(Calls[def.span])
      BY CallsOfType DEF new
    <3>2. CallsFrom(TextsIn(t, p, def.name), new[k].callee)  BY <3>1 DEF CallsFrom
    <3>3. known.hash = g.hash  BY <1>1, <2>5 DEF Evolves
    <3> QED  BY <2>3, <2>5, <3>1, <3>2, <3>3 DEF IsFound
  <2>9. AreFound(t, how, known, s.calls)  BY <1>1, <2>5, FoundStay
  <2>10. s.calls \o new \in Seq(CallType) /\ AreFound(t, how, known, s.calls \o new)
    BY <1>1, <2>7, <2>8, <2>9, FoundTogether
  <2> DEFINE both == s.calls \o new
  <2>11. r = [s EXCEPT !.graph = known, !.calls = both]  BY <2>1
  <2>12. both \in Seq(CallType) /\ AreFound(t, how, known, both)  BY <2>10
  <2> HIDE DEF both
  <2>13. r \in ReadStates /\ r.graph = known /\ r.calls = both /\ r.full = s.full
    BY <1>1, <2>6, <2>11, <2>12 DEF ReadStates
  <2>14. Evolves(t, ps, g, known)  BY <1>1, <2>5, EvolvesOn
  <2>15. p \in known.files  BY <1>1, <2>5 DEF Evolves
  <2> QED  BY <1>1, <1>4, <2>3, <2>5, <2>12, <2>13, <2>14, <2>15 DEF Reads, r, ps
<1> QED  BY <1>2, <1>3, <1>4

\* The definitions of a content have the texts they have in its tree.
LEMMA TextsOfTree ==
  ASSUME NEW t \in Trees, NEW p \in Files, Content[t][p] \notin {Gone, Broken}
  PROVE  /\ Content[t][p] \in Contents /\ Content[t][p] # NoHash
         /\ Defs[Content[t][p]] \in Seq(DefType)
         /\ \A name : TextsIn(t, p, name) = Texts(Content[t][p], name)
         /\ \A d \in Range(Defs[Content[t][p]]) :
              d \in DefType /\ d.span \in TextsIn(t, p, d.name)
<1> DEFINE c == Content[t][p]
<1>1. c \in Contents /\ c # NoHash  BY ContentIsKnown, TreesAreGiven
<1>2. \A name : TextsIn(t, p, name) = Texts(c, name)  BY <1>1 DEF TextsIn, Texts
<1>3. Defs[c] \in Seq(DefType) /\ \A d \in Range(Defs[c]) : d \in DefType
  BY <1>1, DefsType
<1>4. \A d \in Range(Defs[c]) : d.span \in Texts(c, d.name)  BY <1>1 DEF Texts
<1> QED  BY <1>1, <1>2, <1>3, <1>4

FirstRead(g) == [graph |-> g, calls |-> <<>>, full |-> FALSE]

LEMMA ReadingIsRead ==
  ASSUME NEW how, NEW p, NEW wanted, NEW g, NEW defs
  PROVE  Reading(how, p, wanted, g, defs) = LastRead(how, p, wanted, FirstRead(g), defs)
BY DEF Reading, LastRead, FirstRead, FoldLeft, MapThenFoldSet

LEMMA FirstReadIs ==
  ASSUME NEW g, IsWellFormed(g)
  PROVE  /\ FirstRead(g) \in ReadStates /\ FirstRead(g).graph = g
         /\ FirstRead(g).calls = <<>> /\ FirstRead(g).full = FALSE
BY WellFormedFields DEF FirstRead, ReadStates

LEMMA ReadingStep ==
  ASSUME NEW t \in Trees, NEW how \in {"REFRESH", "SEED"}, NEW p \in Files, NEW wanted,
         NEW g, IsWellFormed(g), p \in g.files, Content[t][p] \notin {Gone, Broken},
         how = "REFRESH" => g.hash[p] = Content[t][p]
  PROVE  LET r == Reading(how, p, wanted, g, Defs[Content[t][p]])
         IN /\ Reads(t, how, p, g, r)
            /\ how = "REFRESH" /\ ~r.full =>
                 \A d \in Range(Defs[Content[t][p]]) :
                   d \in wanted => IsRead(r.graph, p, d.name)
<1> DEFINE seq == Defs[Content[t][p]]
           n == Len(seq)
           base == FirstRead(g)
           A == {s \in ReadStates : Reads(t, how, p, g, s)}
           r == Reading(how, p, wanted, g, seq)
<1>1. /\ seq \in Seq(DefType)
      /\ \A d \in Range(seq) : d \in DefType /\ d.span \in TextsIn(t, p, d.name)
  BY TextsOfTree
<1> HIDE DEF seq
<1>2. /\ seq \in Seq(Range(seq)) /\ n \in Nat
      /\ \A k \in 1 .. n : seq[k] \in Range(seq)
  BY <1>1, SeqOfItsRange
<1>3. base \in A
  <2>1. base \in ReadStates /\ base.graph = g /\ base.calls = <<>> /\ base.full = FALSE
    BY FirstReadIs
  <2>2. AreFound(t, how, g, <<>>)
    <3>1. Len(<<>>) = 0 /\ \A k : k \notin 1 .. 0  OBVIOUS
    <3> QED  BY <3>1 DEF AreFound
  <2> DEFINE empty == <<>>
  <2>3. base.calls = empty /\ AreFound(t, how, g, empty)  BY <2>1, <2>2
  <2> HIDE DEF base, empty
  <2> QED  BY <2>1, <2>3, EvolvesNot DEF Reads
<1>4. ASSUME NEW s \in A, NEW k \in 1 .. n
      PROVE  /\ ReadNext(how, p, wanted, s, seq[k]) \in A
             /\ Evolves(t, {p}, s.graph, ReadNext(how, p, wanted, s, seq[k]).graph)
             /\ s.full => ReadNext(how, p, wanted, s, seq[k]).full
             /\ how = "REFRESH" /\ seq[k] \in wanted
                  /\ ~ReadNext(how, p, wanted, s, seq[k]).full
                  => IsRead(ReadNext(how, p, wanted, s, seq[k]).graph, p, seq[k].name)
  <2> DEFINE def == seq[k]
             q == ReadNext(how, p, wanted, s, def)
  <2>1. def \in DefType /\ def.span \in TextsIn(t, p, def.name)  BY <1>1, <1>2
  <2>2. Reads(t, how, p, g, s)  OBVIOUS
  <2> HIDE DEF def
  <2>3. /\ Reads(t, how, p, g, q) /\ Evolves(t, {p}, s.graph, q.graph)
        /\ s.full => q.full
        /\ how = "REFRESH" /\ def \in wanted /\ ~q.full => IsRead(q.graph, p, def.name)
    BY <2>1, <2>2, ReadNextStep
  <2>4. q \in ReadStates  BY <2>3 DEF Reads
  <2> QED  BY <2>3, <2>4 DEF def
<1>5. \A s \in A : Reads(t, how, p, g, s) /\ IsWellFormed(s.graph)  BY DEF Reads
<1> HIDE DEF A, base
<1>6. MayRead(how, p, wanted, A, seq)  BY <1>4 DEF MayRead
<1>7. PICK h : RunsRead(h, how, p, wanted, A, base, seq)  BY <1>2, <1>3, <1>6, ReadSteps
<1>8. r = h[n]
  <2>1. r = LastRead(how, p, wanted, base, seq)  BY ReadingIsRead DEF base
  <2> QED  BY <1>7, <2>1 DEF RunsRead
<1> HIDE DEF r
<1>9. \A k \in 0 .. n : h[k] \in A  BY <1>7 DEF RunsRead
<1> DEFINE Done(k, j) ==
             how = "REFRESH" /\ ~h[k].full /\ seq[j] \in wanted =>
               IsRead(h[k].graph, p, seq[j].name)
           Good == {k \in 0 .. n : \A j \in 1 .. k : Done(k, j)}
<1>10. 0 \in Good
  <2>1. 0 \in 0 .. n /\ \A j : j \notin 1 .. 0  BY <1>2
  <2> QED  BY <2>1
<1>11. ASSUME NEW k \in 1 .. n, k - 1 \in Good  PROVE k \in Good
  <2> DEFINE x == h[k - 1]
             y == h[k]
             def == seq[k]
  <2>1. k - 1 \in 0 .. n /\ k \in 0 .. n  BY <1>2
  <2>2. x \in A /\ y \in A  BY <1>9, <2>1
  <2>3. y = ReadNext(how, p, wanted, x, def)  BY <1>7 DEF RunsRead
  <2>4. /\ Evolves(t, {p}, x.graph, y.graph) /\ (x.full => y.full)
        /\ how = "REFRESH" /\ def \in wanted /\ ~y.full => IsRead(y.graph, p, def.name)
    <3> HIDE DEF x, y
    <3> QED  BY <1>4, <2>2, <2>3
  <2>5. ASSUME NEW j \in 1 .. k  PROVE Done(k, j)
    <3>1. CASE j = k
      <4> HIDE DEF y, def
      <4>1. how = "REFRESH" /\ ~y.full /\ def \in wanted => IsRead(y.graph, p, def.name)
        BY <2>4
      <4> QED  BY <3>1, <4>1 DEF y, def
    <3>2. CASE j # k
      <4>1. j \in 1 .. (k - 1)  BY <1>2, <3>2
      <4>2. Done(k - 1, j)  BY <1>11, <4>1
      <4> DEFINE name == seq[j].name
      <4>3. how = "REFRESH" /\ ~x.full /\ seq[j] \in wanted => IsRead(x.graph, p, name)
        BY <4>2
      <4> HIDE DEF x, y, name
      <4>4. IsWellFormed(x.graph) /\ IsWellFormed(y.graph)  BY <1>5, <2>2
      <4>5. IsRead(x.graph, p, name) => IsRead(y.graph, p, name)
        BY <2>4, <4>4, ReadStays
      <4>6. how = "REFRESH" /\ ~y.full /\ seq[j] \in wanted => IsRead(y.graph, p, name)
        BY <2>4, <4>3, <4>5
      <4> QED  BY <4>6 DEF y, name
    <3> QED  BY <3>1, <3>2
  <2> HIDE DEF Done
  <2> QED  BY <2>1, <2>5
<1>12. n \in Good
  <2> HIDE DEF Good, n
  <2>1. n \in Nat  BY <1>2
  <2>2. \A k \in 1 .. n : k - 1 \in Good => k \in Good  BY <1>11
  <2> QED  BY <2>1, <2>2, <1>10, PrefixInduction
<1>13. n \in 0 .. n  BY <1>2
<1>14. Reads(t, how, p, g, r)  BY <1>5, <1>8, <1>9, <1>13
<1>15. ASSUME how = "REFRESH", ~r.full, NEW d \in Range(seq), d \in wanted
       PROVE  IsRead(r.graph, p, d.name)
  <2>1. PICK j \in 1 .. n : seq[j] = d  BY <1>1, <1>2 DEF Range
  <2>2. Done(n, j)  BY <1>12, <2>1
  <2> QED  BY <1>8, <1>15, <2>1, <2>2
<1> QED  BY <1>14, <1>15 DEF r, seq

-----------------------------------------------------------------------------
(* Expansion.                                                                  *)

\* What a tree says of a file is known: it is as in the clean tree, or as the
\* graph has read it.
IsReadable(t, p, g) ==
  \/ Content[t][p] = Content[Clean][p]
  \/ Content[t][p] = g.hash[p] /\ IsWhole(g, p)

\* Or the file is not going to be read.
CanExpand(t, p, g) ==
  \/ IsReadable(t, p, g)
  \/ Content[t][p] \in {Gone, Broken}
  \/ p \notin g.files /\ Cardinality(g.files) >= MaxFiles

LEMMA ReadableIsKnown ==
  ASSUME NEW t \in Trees, NEW p \in Files, Content[t][p] \notin {Gone, Broken},
         NEW g, IsReadable(t, p, g)
  PROVE  TextsAreKnown(t, {p}, g)
BY TextsOfTree DEF IsReadable, TextsAreKnown, Known, CleanTexts

LEMMA CanExpandStays ==
  ASSUME NEW t, NEW u, NEW ps, NEW p \in Files, NEW g, IsWellFormed(g),
         NEW h, IsWellFormed(h), Evolves(u, ps, g, h)
  PROVE  /\ IsReadable(t, p, g) => IsReadable(t, p, h)
         /\ CanExpand(t, p, g) => CanExpand(t, p, h)
<1>1. IsWhole(g, p) => IsWhole(h, p)  BY WholeStays
<1>2. /\ h.hash = g.hash
      /\ Cardinality(g.files) >= MaxFiles => h.files = g.files
  BY DEF Evolves
<1> QED  BY <1>1, <1>2 DEF IsReadable, CanExpand

ExpandsTo(t, p, g, s) ==
  /\ s \in ReadStates /\ IsWellFormed(s.graph) /\ p \in s.graph.files
  /\ Evolves(t, {p}, g, s.graph)
  /\ IsSound(g) /\ IsReadable(t, p, g) => IsSound(s.graph)

\* The calls of a definition that has just been read are made by its text.
LEMMA ExpandedCalls ==
  ASSUME NEW t \in Trees, NEW p \in Files, Content[t][p] \notin {Gone, Broken},
         NEW def \in Range(Defs[Content[t][p]]),
         NEW g, IsWellFormed(g), IsReadable(t, p, g), Room(g) > 0,
         NEW h, h.hash = g.hash, SourceNode(h, p, def.name) # 0,
         IsRead(g, p, def.name) => IsRead(h, p, def.name)
  PROVE  AreMade(h, CallsOf(p, def))
<1> DEFINE calls == CallsOf(p, def)
           name == def.name
           i == SourceNode(h, p, name)
<1>1. /\ def \in DefType /\ def.span \in Texts(Content[t][p], name)
      /\ Content[t][p] # NoHash
  BY TextsOfTree
<1> SUFFICES ASSUME NEW k \in 1 .. Len(calls)  PROVE IsMade(h, calls[k])
  BY DEF AreMade
<1>2. /\ calls[k].file = p /\ calls[k].caller = name
      /\ calls[k].callee \in Range(Calls[def.span])
  BY <1>1, CallsOfType
<1>3. \A texts : def.span \in texts => CallsFrom(texts, calls[k].callee)
  BY <1>2 DEF CallsFrom
<1>4. def.span \in IF Live(h.nodes[i]) THEN Known(h, p, name) ELSE CleanTexts(p, name)
  <2>1. CASE Content[t][p] = Content[Clean][p]  BY <1>1, <2>1 DEF Known, CleanTexts
  <2>2. CASE Content[t][p] = g.hash[p] /\ IsWhole(g, p)
    <3>1. IsRead(g, p, name)  BY <1>1, <2>2 DEF IsWhole
    <3>2. Live(h.nodes[i])  BY <3>1 DEF IsRead
    <3> QED  BY <1>1, <2>2, <3>2 DEF Known
  <2> QED  BY <2>1, <2>2 DEF IsReadable
<1> HIDE DEF calls, i, name
<1> QED  BY <1>2, <1>3, <1>4 DEF IsMade, i, name

LEMMA ExpandNextStep ==
  ASSUME NEW t \in Trees, NEW p \in Files, Content[t][p] \notin {Gone, Broken}, NEW wanted,
         NEW g, IsWellFormed(g), NEW s, ExpandsTo(t, p, g, s),
         NEW def \in Range(Defs[Content[t][p]])
  PROVE  ExpandsTo(t, p, g, ReadNext("EXPAND", p, wanted, s, def))
<1> DEFINE was == s.graph
           known == ReadDefinition(was, p, def, "NO_STATUS")
           r == ReadNext("EXPAND", p, wanted, s, def)
           new == CallsOf(p, def)
           cut == WithFrontier(was, "SYMBOL_BUDGET")
           linked == Linked("EXPAND", known, new)
           ps == {p}
           sound == IsSound(g) /\ IsReadable(t, p, g)
<1>1. /\ s \in ReadStates /\ IsWellFormed(was) /\ p \in was.files
      /\ Evolves(t, ps, g, was) /\ (sound => IsSound(was))
      /\ was \in Graphs /\ s.calls \in Seq(CallType) /\ s.full \in BOOLEAN
  BY DEF ExpandsTo, ReadStates
<1>2. def \in DefType /\ def.span \in TextsIn(t, p, def.name)  BY TextsOfTree
<1>3. CASE s.full \/ def \notin wanted  BY <1>3 DEF ReadNext
<1>4. CASE ~s.full /\ def \in wanted /\ Room(was) = 0
  <2>1. r = [s EXCEPT !.graph = cut, !.full = TRUE]  BY <1>4 DEF ReadNext
  <2>2. "SYMBOL_BUDGET" \in Reasons  BY DEF Reasons
  <2> HIDE DEF was, sound, ps, r
  <2>3. IsWellFormed(cut) /\ SameNodes(was, cut) /\ cut.edges = was.edges
    BY <1>1, <2>2, FrontierStep
  <2> HIDE DEF cut
  <2>4. cut \in Graphs  BY <2>3, WellFormedFields
  <2>5. r \in ReadStates /\ r.graph = cut  BY <1>1, <2>1, <2>4 DEF ReadStates
  <2>6. Evolves(t, ps, was, cut)  BY <1>1, <2>3, EvolvesBeside
  <2>7. Evolves(t, ps, g, cut)  BY <1>1, <2>3, <2>6, EvolvesOn
  <2>8. IsSound(was) => IsSound(cut)
    <3> DEFINE none == {}
    <3>1. TextsAreKnown(t, none, was)  BY DEF TextsAreKnown
    <3> HIDE DEF none
    <3>2. Evolves(t, none, was, cut)  BY <1>1, <2>3, EvolvesBeside
    <3> QED  BY <1>1, <2>3, <3>1, <3>2, SoundStays
  <2>9. p \in cut.files  BY <1>1, <2>3 DEF SameNodes
  <2> QED  BY <1>1, <2>3, <2>5, <2>7, <2>8, <2>9 DEF ExpandsTo, sound, ps, r
<1>5. CASE ~s.full /\ def \in wanted /\ Room(was) # 0
  <2>1. r = [s EXCEPT !.graph = linked]  BY <1>5 DEF ReadNext
  <2>2. "NO_STATUS" \in {"NO_STATUS", "CURRENT_SOURCE"}  OBVIOUS
  <2>3. Room(was) > 0  BY <1>1, <1>5, RoomShrinks
  <2> HIDE DEF was, sound
  <2>4. /\ IsWellFormed(known) /\ Evolves(t, ps, was, known)
        /\ known.edges = was.edges /\ SourceNode(known, p, def.name) # 0
        /\ IsRead(was, p, def.name) => IsRead(known, p, def.name)
    BY <1>1, <1>2, <2>2, ReadDefinitionStep
  <2> HIDE DEF known, ps, r, new
  <2>5. new \in Seq(CallType)  BY <1>2, CallsOfType DEF new
  <2>6. CanLink(known, new)
    <3>1. \A k \in 1 .. Len(new) : new[k].file = p /\ new[k].caller = def.name
      BY <1>2, CallsOfType DEF new
    <3> QED  BY <2>4, <3>1 DEF CanLink
  <2>7. /\ IsWellFormed(linked) /\ SameNodes(known, linked)
        /\ IsSound(known) /\ AreMade(known, new) => IsSound(linked)
    BY <2>4, <2>5, <2>6, LinkedStep
  <2> HIDE DEF linked
  <2>8. Evolves(t, ps, known, linked)  BY <2>4, <2>7, EvolvesBeside
  <2>9. Evolves(t, ps, was, linked)  BY <1>1, <2>4, <2>7, <2>8, EvolvesOn
  <2>10. Evolves(t, ps, g, linked)  BY <1>1, <2>7, <2>9, EvolvesOn
  <2>11. ASSUME sound  PROVE IsSound(linked)
    <3>1. IsReadable(t, p, was)  BY <1>1, <2>11, CanExpandStays DEF sound
    <3>2. TextsAreKnown(t, ps, was)  BY <3>1, ReadableIsKnown DEF ps
    <3>3. IsSound(known)
      <4>1. IsSound(was)  BY <1>1, <2>11
      <4>2. \A e \in DOMAIN known.edges :
              (e \in DOMAIN was.edges /\ known.edges[e] = was.edges[e]) \/ CallIsKnown(known, e)
        BY <2>4
      <4> QED  BY <1>1, <2>4, <3>2, <4>1, <4>2, SoundStays
    <3>4. known.hash = was.hash  BY <2>4 DEF Evolves
    <3>5. AreMade(known, new)  BY <1>1, <2>3, <2>4, <3>1, <3>4, ExpandedCalls DEF new
    <3> QED  BY <2>7, <3>3, <3>5
  <2>12. linked \in Graphs /\ p \in linked.files
    BY <1>1, <2>7, <2>9, WellFormedFields DEF Evolves
  <2>13. r \in ReadStates /\ r.graph = linked  BY <1>1, <2>1, <2>12 DEF ReadStates
  <2> QED  BY <2>7, <2>10, <2>11, <2>12, <2>13 DEF ExpandsTo, sound, ps, r
<1> QED  BY <1>3, <1>4, <1>5

LEMMA ExpandReadingStep ==
  ASSUME NEW t \in Trees, NEW p \in Files, Content[t][p] \notin {Gone, Broken}, NEW wanted,
         NEW g, IsWellFormed(g), p \in g.files
  PROVE  ExpandsTo(t, p, g, Reading("EXPAND", p, wanted, g, Defs[Content[t][p]]))
<1> DEFINE how == "EXPAND"
           seq == Defs[Content[t][p]]
           base == FirstRead(g)
           A == {s \in ReadStates : ExpandsTo(t, p, g, s)}
           r == Reading(how, p, wanted, g, seq)
<1>1. /\ seq \in Seq(Range(seq)) /\ Len(seq) \in Nat
      /\ \A k \in 1 .. Len(seq) : seq[k] \in Range(seq)
  BY TextsOfTree, SeqOfItsRange
<1>2. base \in A
  <2>1. base \in ReadStates /\ base.graph = g  BY FirstReadIs
  <2> HIDE DEF base
  <2> QED  BY <2>1, EvolvesNot DEF ExpandsTo
<1>3. ASSUME NEW s \in A, NEW k \in 1 .. Len(seq)
      PROVE  ReadNext(how, p, wanted, s, seq[k]) \in A
  <2> DEFINE def == seq[k]
             q == ReadNext(how, p, wanted, s, def)
  <2>1. def \in Range(Defs[Content[t][p]])  BY <1>1
  <2> HIDE DEF def
  <2>2. ExpandsTo(t, p, g, q)  BY <2>1, ExpandNextStep
  <2>3. q \in ReadStates  BY <2>2 DEF ExpandsTo
  <2> QED  BY <2>2, <2>3 DEF def
<1>4. \A s \in A : ExpandsTo(t, p, g, s)  OBVIOUS
<1> HIDE DEF A, base, seq, how
<1>5. MayRead(how, p, wanted, A, seq)  BY <1>3 DEF MayRead
<1>6. PICK h : RunsRead(h, how, p, wanted, A, base, seq)  BY <1>1, <1>2, <1>5, ReadSteps
<1>7. r = h[Len(seq)]
  <2>1. r = LastRead(how, p, wanted, base, seq)  BY ReadingIsRead DEF base
  <2> QED  BY <1>6, <2>1 DEF RunsRead
<1> HIDE DEF r
<1>8. r \in A  BY <1>1, <1>6, <1>7 DEF RunsRead
<1> QED  BY <1>4, <1>8 DEF r, seq, how

LEMMA ExpandFileStep ==
  ASSUME NEW t \in Trees, NEW around, NEW g, IsWellFormed(g), NEW p \in Files,
         Content[t][p] \notin {Gone, Broken}
  PROVE  LET h == ExpandFile(t, around, g, p)
         IN /\ IsWellFormed(h) /\ Evolves(t, Files, g, h)
            /\ IsSound(g) /\ CanExpand(t, p, g) => IsSound(h)
<1> DEFINE defs == Defs[Content[t][p]]
           wanted == {d \in Range(defs) : Meets(d, around)}
           known == Admit(g, p)
           r == Reading("EXPAND", p, wanted, known, Defs[Content[t][p]])
           h == ExpandFile(t, around, g, p)
           none == {}
           one == {p}
<1>1. /\ IsWellFormed(known) /\ Evolves(t, none, g, known) /\ known.edges = g.edges
      /\ known.nodes = g.nodes
      /\ p \notin known.files => known.files = g.files /\ Cardinality(g.files) >= MaxFiles
  BY AdmitStep
<1>2. h = IF p \notin known.files THEN known ELSE r.graph  BY DEF ExpandFile
<1>3. none \subseteq Files /\ one \subseteq Files  OBVIOUS
<1> HIDE DEF known, wanted, none, h
<1>4. Evolves(t, Files, g, known)  BY <1>1, <1>3, EvolvesIn
<1>5. IsSound(g) => IsSound(known)
  <2>1. TextsAreKnown(t, none, g)  BY DEF TextsAreKnown, none
  <2> QED  BY <1>1, <2>1, SoundStays
<1>6. CASE p \notin known.files  BY <1>1, <1>2, <1>4, <1>5, <1>6 DEF h
<1>7. CASE p \in known.files
  <2>1. ExpandsTo(t, p, known, r)  BY <1>1, <1>7, ExpandReadingStep
  <2> DEFINE new == r.graph
  <2>2. /\ IsWellFormed(new) /\ Evolves(t, one, known, new)
        /\ IsSound(known) /\ IsReadable(t, p, known) => IsSound(new)
    BY <2>1 DEF ExpandsTo
  <2>3. h = new  BY <1>2, <1>7
  <2> HIDE DEF r, new, one
  <2>4. Evolves(t, Files, known, new)  BY <1>3, <2>2, EvolvesIn
  <2>5. Evolves(t, Files, g, new)  BY <1>1, <1>4, <2>2, <2>4, EvolvesOn
  <2>6. CanExpand(t, p, g) => IsReadable(t, p, known)
    <3>1. CanExpand(t, p, g) => CanExpand(t, p, known)  BY <1>1, CanExpandStays
    <3> QED  BY <1>7, <3>1 DEF CanExpand
  <2> QED  BY <1>5, <2>2, <2>3, <2>5, <2>6 DEF h
<1> QED  BY <1>6, <1>7

\* Every file that is expanded can be read.
LEMMA ExpandAllStep ==
  ASSUME NEW t \in Trees, NEW around, NEW g, IsWellFormed(g),
         NEW paths \in Seq({p \in Files : Content[t][p] \notin {Gone, Broken}})
  PROVE  LET h == ExpandAll(t, around, g, paths)
         IN /\ IsWellFormed(h) /\ Evolves(t, Files, g, h)
            /\ IsSound(g) /\ (\A p \in Files : CanExpand(t, p, g)) => IsSound(h)
<1> DEFINE sound == IsSound(g) /\ (\A p \in Files : CanExpand(t, p, g))
           A == {x \in Graphs : IsWellFormed(x) /\ Evolves(t, Files, g, x)
                                /\ (sound => IsSound(x))}
           n == Len(paths)
<1>1. /\ paths \in Seq(Range(paths)) /\ n \in Nat
      /\ \A k \in 1 .. n : paths[k] \in Files /\ Content[t][paths[k]] \notin {Gone, Broken}
  BY SeqOfItsRange
<1>2. g \in A  BY EvolvesNot, WellFormedFields
<1>3. ASSUME NEW x \in A, NEW k \in 1 .. n  PROVE ExpandFile(t, around, x, paths[k]) \in A
  <2> DEFINE p == paths[k]
             h == ExpandFile(t, around, x, p)
  <2>1. IsWellFormed(x) /\ Evolves(t, Files, g, x) /\ (sound => IsSound(x))  OBVIOUS
  <2>2. p \in Files /\ Content[t][p] \notin {Gone, Broken}  BY <1>1
  <2> HIDE DEF p
  <2>3. /\ IsWellFormed(h) /\ Evolves(t, Files, x, h)
        /\ IsSound(x) /\ CanExpand(t, p, x) => IsSound(h)
    BY <2>1, <2>2, ExpandFileStep
  <2> HIDE DEF h
  <2>4. Evolves(t, Files, g, h)  BY <2>1, <2>3, EvolvesOn
  <2>5. sound => CanExpand(t, p, x)  BY <2>1, <2>2, CanExpandStays
  <2>6. h \in Graphs  BY <2>3, WellFormedFields
  <2> QED  BY <2>1, <2>3, <2>4, <2>5, <2>6 DEF h, p
<1>4. \A x \in A : IsWellFormed(x) /\ Evolves(t, Files, g, x) /\ (sound => IsSound(x))
  OBVIOUS
<1> HIDE DEF A
<1>5. MayExpand(t, around, A, paths)  BY <1>3 DEF MayExpand
<1>6. PICK h : RunsExpand(h, t, around, A, g, paths)  BY <1>1, <1>2, <1>5, ExpandSteps
<1>7. ExpandAll(t, around, g, paths) \in A
  <2>1. n \in 0 .. n  BY <1>1
  <2> QED  BY <1>6, <2>1 DEF RunsExpand
<1> QED  BY <1>4, <1>7

-----------------------------------------------------------------------------
(* Files in order.                                                             *)

Occurs(p, seq) == \E k \in 1 .. Len(seq) : seq[k] = p

LEMMA InOrderIs ==
  ASSUME NEW S
  PROVE  /\ InOrder(S) \in Seq(S \cap Files)
         /\ \A p \in S \cap Files : Occurs(p, InOrder(S))
<1> DEFINE T == S \cap Files
           n == Len(Paths)
           none == <<>>
<1>1. Paths \in Seq(Files) /\ Paths \in Seq(Range(Paths)) /\ n \in Nat
      /\ \A k \in 1 .. n : Paths[k] \in Files
  BY FilesAreFinite, SeqOfItsRange
<1>2. none \in Seq(T)  OBVIOUS
<1>3. ASSUME NEW x \in Seq(T), NEW p \in Files
      PROVE  /\ AddIf(S, x, p) \in Seq(T)
             /\ \A q : Occurs(q, x) => Occurs(q, AddIf(S, x, p))
             /\ p \in S => Occurs(p, AddIf(S, x, p))
  <2>1. CASE p \in S
    <3> DEFINE y == Append(x, p)
    <3>1. AddIf(S, x, p) = y  BY <2>1 DEF AddIf
    <3>2. /\ y \in Seq(T) /\ Len(y) = Len(x) + 1 /\ Len(x) \in Nat /\ y[Len(x) + 1] = p
          /\ \A k \in 1 .. Len(x) : y[k] = x[k]
      BY <2>1
    <3> HIDE DEF y
    <3>3. Len(x) + 1 \in 1 .. Len(y) /\ \A k \in 1 .. Len(x) : k \in 1 .. Len(y)  BY <3>2
    <3> QED  BY <3>1, <3>2, <3>3 DEF Occurs
  <2>2. CASE p \notin S  BY <2>2 DEF AddIf
  <2> QED  BY <2>1, <2>2
<1> HIDE DEF none
<1>4. MayAddIf(S, Seq(T), Paths)  BY <1>1, <1>3 DEF MayAddIf
<1>5. PICK h : RunsAddIf(h, S, Seq(T), none, Paths)  BY <1>1, <1>2, <1>4, AddIfSteps
<1>6. InOrder(S) = h[n]
  <2>1. InOrder(S) = Filtered(S, none, Paths)
    BY DEF InOrder, Filtered, FoldLeft, MapThenFoldSet, none
  <2> QED  BY <1>5, <2>1 DEF RunsAddIf
<1> DEFINE Has(k, q) == Occurs(q, h[k])
           Good == {k \in 0 .. n : \A j \in 1 .. k : Paths[j] \in S => Has(k, Paths[j])}
<1>7. 0 \in Good
  <2>1. 0 \in 0 .. n /\ \A j : j \notin 1 .. 0  BY <1>1
  <2> QED  BY <2>1
<1>8. ASSUME NEW k \in 1 .. n, k - 1 \in Good  PROVE k \in Good
  <2>1. h[k] = AddIf(S, h[k - 1], Paths[k]) /\ h[k - 1] \in Seq(T) /\ k \in 0 .. n
    <3>1. k - 1 \in 0 .. n  BY <1>1
    <3> QED  BY <1>5, <3>1 DEF RunsAddIf
  <2>2. ASSUME NEW j \in 1 .. k, Paths[j] \in S  PROVE Has(k, Paths[j])
    <3> DEFINE x == h[k - 1]
               y == h[k]
               p == Paths[k]
               q == Paths[j]
    <3>1. CASE j = k
      <4>1. p \in Files /\ p \in S /\ p = q  BY <1>1, <2>2, <3>1
      <4>2. y = AddIf(S, x, p) /\ x \in Seq(T)  BY <2>1
      <4> HIDE DEF x, y, p, q, T
      <4>3. Occurs(q, y)  BY <1>3, <4>1, <4>2
      <4> QED  BY <4>3 DEF y, q
    <3>2. CASE j # k
      <4>1. j \in 1 .. (k - 1)  BY <1>1, <3>2
      <4>2. Has(k - 1, q)  BY <1>8, <2>2, <4>1
      <4>3. p \in Files  BY <1>1
      <4>4. y = AddIf(S, x, p) /\ x \in Seq(T) /\ Occurs(q, x)
        BY <2>1, <4>2
      <4> HIDE DEF x, y, p, q, T
      <4>5. Occurs(q, y)  BY <1>3, <4>3, <4>4
      <4> QED  BY <4>5 DEF y, q
    <3> QED  BY <3>1, <3>2
  <2> HIDE DEF Has
  <2> QED  BY <2>1, <2>2
<1>9. n \in Good
  <2> HIDE DEF Good, n
  <2>1. n \in Nat  BY <1>1
  <2>2. \A k \in 1 .. n : k - 1 \in Good => k \in Good  BY <1>8
  <2> QED  BY <2>1, <2>2, <1>7, PrefixInduction
<1>10. h[n] \in Seq(T)
  <2>1. n \in 0 .. n  BY <1>1
  <2> QED  BY <1>5, <2>1 DEF RunsAddIf
<1>11. ASSUME NEW p \in T  PROVE Has(n, p)
  <2>1. PICK j \in 1 .. n : Paths[j] = p  BY <1>1 DEF Files, Range
  <2> QED  BY <1>9, <1>11, <2>1
<1> QED  BY <1>6, <1>10, <1>11

LEMMA PrefixOfSeq ==
  ASSUME NEW S, NEW seq \in Seq(S), NEW k \in 0 .. Len(seq)
  PROVE  /\ SubSeq(seq, 1, k) \in Seq(S)
         /\ k = Len(seq) => SubSeq(seq, 1, k) = seq
OBVIOUS

-----------------------------------------------------------------------------
(* Retiring what was read before.                                              *)

LEMMA SetInSomeOrder ==
  ASSUME NEW S, IsFiniteSet(S)
  PROVE  /\ SetToSeq(S) \in Seq(S)
         /\ \A x \in S : Occurs(x, SetToSeq(S))
<1> DEFINE n == Cardinality(S)
           f == SetToSeq(S)
<1>1. n \in Nat  BY FS_CardinalityType
<1>2. PICK m \in Nat : ExistsBijection(1 .. m, S)  BY FS_NatBijection
<1>3. n = m  BY <1>2, FS_CountingElements
<1>4. PICK b : b \in Bijection(1 .. n, S)  BY <1>2, <1>3 DEF ExistsBijection
<1>5. b \in [1 .. n -> S] /\ IsInjective(b)  BY <1>4 DEF Bijection, Injection
<1>6. f = CHOOSE x \in [1 .. n -> S] : IsInjective(x)  BY DEF SetToSeq
<1> HIDE DEF f, n
<1>7. f \in [1 .. n -> S] /\ IsInjective(f)  BY <1>5, <1>6
<1>8. IsFiniteSet(1 .. n) /\ Cardinality(1 .. n) = n
  <2>1. \A k \in Int : 1 .. k = 1 .. k  OBVIOUS
  <2>2. 1 \in Int /\ n \in Int  BY <1>1
  <2>3. Cardinality(1 .. n) = IF 1 > n THEN 0 ELSE n - 1 + 1  BY <2>2, FS_Interval
  <2> QED  BY <1>1, <2>2, <2>3, FS_Interval
<1>9. f \in Injection(1 .. n, S)  BY <1>7 DEF Injection
<1>10. f \in Surjection(1 .. n, S)
  <2>1. Cardinality(1 .. n) = Cardinality(S)  BY <1>8 DEF n
  <2> HIDE DEF n
  <2> QED  BY <1>9, <2>1, FS_Injection
<1>11. f \in Seq(S) /\ Len(f) = n  BY <1>1, <1>7
<1>12. \A x \in S : Occurs(x, f)  BY <1>10, <1>11 DEF Surjection, Occurs
<1> QED  BY <1>11, <1>12 DEF f

AreTogether(a, b, both) ==
  /\ Len(both) = Len(a) + Len(b)
  /\ \A i \in 1 .. Len(a) : both[i] = a[i]
  /\ \A j \in 1 .. Len(b) : both[Len(a) + j] = b[j]

LEMMA SeqsTogether ==
  ASSUME NEW S, NEW a \in Seq(S), NEW b \in Seq(S)
  PROVE  a \o b \in Seq(S) /\ AreTogether(a, b, a \o b)
<1>1. Len(a) \in Nat /\ Len(b) \in Nat  OBVIOUS
<1>2. a \o b \in Seq(S) /\ Len(a \o b) = Len(a) + Len(b)  OBVIOUS
<1>3. \A i \in 1 .. Len(a) : (a \o b)[i] = a[i]  BY <1>1
<1>4. ASSUME NEW j \in 1 .. Len(b)  PROVE (a \o b)[Len(a) + j] = b[j]
  <2>1. Len(a) + j \in 1 .. (Len(a) + Len(b)) /\ ~(Len(a) + j <= Len(a))
        /\ Len(a) + j - Len(a) = j
    BY <1>1
  <2> QED  BY <1>1, <2>1
<1> QED  BY <1>2, <1>3, <1>4 DEF AreTogether

\* Nodes that are live, of functions or of traces.
AreLive(g, affected) == affected \subseteq Nodes(g) /\ \A i \in affected : Live(g.nodes[i])

\* A history of the texts of some nodes is added.
IsHistory(g, h, affected) ==
  /\ Len(g.nodes) <= Len(h.nodes)
  /\ \A i \in Nodes(g) : h.nodes[i] = g.nodes[i]
  /\ \A v \in Nodes(h) : v > Len(g.nodes) =>
       h.nodes[v].of # 0 /\ h.nodes[v].status = "HISTORICAL_SOURCE"
  /\ h.edges = g.edges /\ h.files = g.files /\ h.hash = g.hash
  /\ h.frontiers = g.frontiers /\ h.expansions = g.expansions
  /\ \A i \in affected : \E v \in Nodes(h) : IsVersion(h, v, i)

LEMMA KeepStep ==
  ASSUME NEW g, IsWellFormed(g), NEW affected, AreLive(g, affected)
  PROVE  IsWellFormed(Keep(g, affected)) /\ IsHistory(g, Keep(g, affected), affected)
<1> DEFINE n == Len(g.nodes)
           T == {i \in affected : ~\E v \in Nodes(g) : IsVersion(g, v, i)}
           new == SetToSeq(T)
           version(i) == [g.nodes[i] EXCEPT !.status = "HISTORICAL_SOURCE", !.of = i]
           added == [j \in DOMAIN new |-> version(new[j])]
           nodes == g.nodes \o added
           h == Keep(g, affected)
<1>1. /\ g \in Graphs /\ g.nodes \in Seq(NodeType) /\ n \in Nat /\ Nodes(g) = 1 .. n
      /\ \A i \in Nodes(g) : g.nodes[i] \in NodeType
  BY WellFormedFields
<1>2. h = [g EXCEPT !.nodes = nodes]  BY DEF Keep
<1>3. T \subseteq Nodes(g) /\ T \subseteq affected  BY DEF AreLive
<1>4. IsFiniteSet(T)
  <2>1. IsFiniteSet(1 .. n)  BY <1>1, FS_Interval
  <2> HIDE DEF T
  <2> QED  BY <1>1, <1>3, <2>1, FS_Subset
<1>5. ASSUME NEW i \in affected, i \notin T  PROVE \E v \in Nodes(g) : IsVersion(g, v, i)
  BY <1>5
<1> HIDE DEF T
<1>6. new \in Seq(T) /\ \A i \in T : Occurs(i, new)  BY <1>4, SetInSomeOrder
<1> HIDE DEF new
<1>7. ASSUME NEW i \in Nodes(g)
      PROVE  /\ version(i) \in NodeType /\ version(i).file = g.nodes[i].file
             /\ version(i).name = g.nodes[i].name /\ version(i).span = g.nodes[i].span
             /\ version(i).status = "HISTORICAL_SOURCE" /\ version(i).of = i
  <2> DEFINE was == g.nodes[i]
  <2>1. was \in NodeType /\ i \in Nat  BY <1>1
  <2>2. version(i) = [was EXCEPT !.status = "HISTORICAL_SOURCE", !.of = i]  OBVIOUS
  <2> HIDE DEF was, version
  <2> QED  BY <2>1, <2>2 DEF NodeType, Old, was
<1> HIDE DEF version
<1>8. Len(new) \in Nat /\ DOMAIN new = 1 .. Len(new) /\ \A j \in 1 .. Len(new) : new[j] \in T
  BY <1>6
<1>9. added \in [1 .. Len(new) -> NodeType]  BY <1>3, <1>7, <1>8
<1>10. added \in Seq(NodeType) /\ Len(added) = Len(new)  BY <1>8, <1>9
<1>11. \A j \in 1 .. Len(new) : added[j] = version(new[j])  BY <1>8
<1> HIDE DEF added
<1> DEFINE S == NodeType
<1>12. nodes \in Seq(S) /\ AreTogether(g.nodes, added, nodes)
  <2> HIDE DEF S
  <2>1. g.nodes \in Seq(S) /\ added \in Seq(S)  BY <1>1, <1>10 DEF S
  <2> QED  BY <2>1, SeqsTogether
<1>13. /\ nodes \in Seq(NodeType) /\ Len(nodes) = n + Len(new)
       /\ \A i \in 1 .. n : nodes[i] = g.nodes[i]
       /\ \A j \in 1 .. Len(new) : nodes[n + j] = added[j]
  BY <1>10, <1>12 DEF AreTogether
<1> HIDE DEF nodes, S
<1>14. /\ h \in Graphs /\ h.nodes = nodes /\ h.edges = g.edges /\ h.files = g.files
       /\ h.hash = g.hash /\ h.frontiers = g.frontiers /\ h.expansions = g.expansions
  BY <1>1, <1>2, <1>13, WithNodesOf
<1> HIDE DEF h
<1>15. Nodes(h) = 1 .. (n + Len(new))  BY <1>13, <1>14, FieldsOf
<1>16. ASSUME NEW v \in Nodes(h), v > n
       PROVE  \E i \in T : h.nodes[v] = version(i) /\ i \in 1 .. (v - 1)
  <2> DEFINE j == v - n
             i == new[j]
  <2>1. j \in 1 .. Len(new) /\ v = n + j  BY <1>1, <1>8, <1>15, <1>16
  <2> HIDE DEF j
  <2>2. h.nodes[v] = version(i)  BY <1>11, <1>13, <1>14, <2>1
  <2>3. i \in T  BY <1>8, <2>1
  <2>4. i \in 1 .. n  BY <1>1, <1>3, <2>3
  <2> HIDE DEF i
  <2>5. i \in 1 .. (v - 1)  BY <1>1, <1>8, <1>15, <1>16, <2>4
  <2> QED  BY <2>2, <2>3, <2>5
<1>17. \A i \in Nodes(g) : h.nodes[i] = g.nodes[i]  BY <1>1, <1>13, <1>14
<1>18. IsWellFormed(h)
  <2>1. ASSUME NEW v \in Nodes(h), v > n  PROVE NodeIsKept(h, v)
    <3>1. PICK i \in T : h.nodes[v] = version(i) /\ i \in 1 .. (v - 1)  BY <1>16, <2>1
    <3>2. i \in Nodes(g)  BY <1>3
    <3>3. h.nodes[i] = g.nodes[i] /\ NodeIsKept(g, i)  BY <1>17, <3>2 DEF IsWellFormed
    <3>4. i # 0  BY <3>1
    <3> QED  BY <1>7, <1>14, <3>1, <3>2, <3>3, <3>4 DEF NodeIsKept
  <2>2. KeepsFunctions(g, h)
    <3>1. Len(g.nodes) <= Len(h.nodes)  BY <1>1, <1>8, <1>13, <1>14
    <3> QED  BY <1>17, <3>1 DEF KeepsFunctions
  <2>3. g.files \subseteq h.files /\ Cardinality(h.files) <= MaxFiles  BY <1>14 DEF IsWellFormed
  <2>4. \A p \in Files \ h.files : h.hash[p] = NoHash  BY <1>14 DEF IsWellFormed
  <2> QED  BY <1>14, <2>1, <2>2, <2>3, <2>4, WellFormedStays DEF n
<1>19. ASSUME NEW i \in affected  PROVE \E v \in Nodes(h) : IsVersion(h, v, i)
  <2>1. i \in Nodes(g)  BY DEF AreLive
  <2>2. h.nodes[i] = g.nodes[i]  BY <1>17, <2>1
  <2>3. CASE i \in T
    <3>1. PICK j \in 1 .. Len(new) : new[j] = i  BY <1>6, <2>3 DEF Occurs
    <3> DEFINE v == n + j
    <3>2. v \in Nodes(h) /\ h.nodes[v] = version(i)
      BY <1>1, <1>8, <1>11, <1>13, <1>14, <1>15, <3>1
    <3>3. IsVersion(h, v, i)  BY <1>7, <2>1, <2>2, <3>2 DEF IsVersion
    <3> QED  BY <3>2, <3>3
  <2>4. CASE i \notin T
    <3>1. PICK v \in Nodes(g) : IsVersion(g, v, i)  BY <1>5, <2>4
    <3>2. v \in Nodes(h)  BY <1>1, <1>8, <1>15, <3>1
    <3>3. h.nodes[v] = g.nodes[v]  BY <1>17
    <3>4. IsVersion(h, v, i)  BY <2>2, <3>1, <3>3 DEF IsVersion
    <3> QED  BY <3>2, <3>4
  <2> QED  BY <2>3, <2>4
<1>20. IsHistory(g, h, affected)
  <2>1. ASSUME NEW v \in Nodes(h), v > n
        PROVE  h.nodes[v].of # 0 /\ h.nodes[v].status = "HISTORICAL_SOURCE"
    <3>1. PICK i \in T : h.nodes[v] = version(i) /\ i \in 1 .. (v - 1)  BY <1>16, <2>1
    <3>2. i \in Nodes(g) /\ i # 0  BY <1>3, <3>1
    <3> QED  BY <1>7, <3>1, <3>2
  <2>2. n <= Len(h.nodes)  BY <1>1, <1>8, <1>13, <1>14
  <2> QED  BY <1>14, <1>17, <1>19, <2>1, <2>2 DEF IsHistory, n
<1> QED  BY <1>18, <1>20 DEF h

\* Edges lead elsewhere or are withdrawn.
LEMMA EdgesStep ==
  ASSUME NEW g, IsWellFormed(g), NEW edges \in [DOMAIN g.edges -> EdgeStates],
         \A e \in DOMAIN g.edges : edges[e].to \in Nodes(g)
  PROVE  LET h == [g EXCEPT !.edges = edges]
         IN /\ IsWellFormed(h) /\ h.nodes = g.nodes /\ h.edges = edges /\ h.files = g.files
            /\ h.hash = g.hash /\ h.frontiers = g.frontiers /\ h.expansions = g.expansions
<1> DEFINE h == [g EXCEPT !.edges = edges]
           D == DOMAIN g.edges
<1>1. g \in Graphs /\ g.edges \in EdgeMaps  BY FieldsOf DEF IsWellFormed
<1>2. D \in SUBSET EdgeIds  BY <1>1, EdgeMapsAre
<1>3. edges \in EdgeMaps /\ DOMAIN edges = D  BY <1>2, EdgeMapsAre
<1>4. /\ h \in Graphs /\ h.nodes = g.nodes /\ h.edges = edges /\ h.files = g.files
      /\ h.hash = g.hash /\ h.frontiers = g.frontiers /\ h.expansions = g.expansions
  BY <1>1, <1>3, WithEdgesOf
<1> HIDE DEF h
<1>5. Nodes(h) = Nodes(g)  BY <1>4 DEF Nodes
<1>6. \A i \in Nodes(h) : NodeIsKept(h, i)  BY <1>4, <1>5 DEF IsWellFormed, NodeIsKept
<1>7. \A e \in DOMAIN h.edges : EdgeIsKept(h, e)
  BY <1>3, <1>4, <1>5 DEF IsWellFormed, EdgeIsKept
<1>8. IsWellFormed(h)  BY <1>3, <1>4, <1>6, <1>7 DEF IsWellFormed
<1> QED  BY <1>4, <1>8 DEF h

\* An observation of something that is not retired keeps its text.
Carried(g, h, e) ==
  LET before == g.nodes[g.edges[e].to]
      after  == h.nodes[h.edges[e].to]
  IN e.kind # "STATIC_CALLS" /\ before.status # "RETIRED_SOURCE" =>
       after.status # "RETIRED_SOURCE" /\ after.span = before.span

Carries(g, h) == \A e \in DOMAIN g.edges : e \in DOMAIN h.edges /\ Carried(g, h, e)

LEMMA CarriesOn ==
  ASSUME NEW g, NEW m, NEW h, Carries(g, m), Carries(m, h)
  PROVE  Carries(g, h)
BY DEF Carries, Carried

\* The nodes of a set are retired, others are as they were, or are history.
IsRetired(g, h, affected) ==
  /\ Len(g.nodes) <= Len(h.nodes)
  /\ \A i \in Nodes(g) : i \notin affected => h.nodes[i] = g.nodes[i]
  /\ \A i \in affected : h.nodes[i].status = "RETIRED_SOURCE"
  /\ \A v \in Nodes(h) : v > Len(g.nodes) =>
       h.nodes[v].of # 0 /\ h.nodes[v].status = "HISTORICAL_SOURCE"
  /\ h.files = g.files /\ h.hash = g.hash
  /\ h.frontiers = g.frontiers /\ h.expansions = g.expansions
  /\ DOMAIN h.edges = DOMAIN g.edges
  /\ \A e \in DOMAIN g.edges : h.edges[e].active => g.edges[e].active

LEMMA RetireStep ==
  ASSUME NEW g, IsWellFormed(g), NEW affected, AreLive(g, affected)
  PROVE  LET h == Retire(g, affected)
         IN /\ IsWellFormed(h) /\ KeepsFunctions(g, h) /\ IsRetired(g, h, affected)
            /\ Carries(g, h)
<1> DEFINE kept == Keep(g, affected)
           retired(i) == [kept.nodes[i] EXCEPT !.status = "RETIRED_SOURCE"]
           nodes == [i \in DOMAIN kept.nodes |->
                       IF i \in affected THEN retired(i) ELSE kept.nodes[i]]
           mid == WithRetired(kept, affected)
           version(i) == CHOOSE v \in Nodes(kept) : IsVersion(kept, v, i)
           moves(e) == e.kind # "STATIC_CALLS" /\ g.edges[e].to \in affected
           moved(e) == [g.edges[e] EXCEPT !.to = version(g.edges[e].to)]
           edges == [e \in DOMAIN g.edges |-> IF moves(e) THEN moved(e) ELSE g.edges[e]]
           h == Retire(g, affected)
           n == Len(g.nodes)
           m == Len(kept.nodes)
<1>1. IsWellFormed(kept) /\ IsHistory(g, kept, affected)  BY KeepStep
<1>2. mid = [kept EXCEPT !.nodes = nodes]  BY DEF WithRetired
<1>3. h = [mid EXCEPT !.edges = edges]  BY DEF Retire
<1>4. \A i \in affected : version(i) \in Nodes(kept) /\ IsVersion(kept, version(i), i)
  BY <1>1 DEF IsHistory
<1> HIDE DEF kept, version
<1>5. /\ kept \in Graphs /\ kept.nodes \in Seq(NodeType) /\ m \in Nat /\ Nodes(kept) = 1 .. m
      /\ \A i \in Nodes(kept) : kept.nodes[i] \in NodeType
  BY <1>1, WellFormedFields
<1>6. Nodes(g) = 1 .. n /\ n \in Nat  BY WellFormedFields
<1>7. affected \subseteq Nodes(g) /\ affected \subseteq Nodes(kept)
  BY <1>1, <1>5, <1>6 DEF AreLive, IsHistory
<1>8. ASSUME NEW i \in Nodes(kept)
      PROVE  /\ retired(i) \in NodeType /\ retired(i).file = kept.nodes[i].file
             /\ retired(i).name = kept.nodes[i].name /\ retired(i).span = kept.nodes[i].span
             /\ retired(i).status = "RETIRED_SOURCE" /\ retired(i).of = kept.nodes[i].of
  <2> DEFINE was == kept.nodes[i]
  <2>1. was \in NodeType  BY <1>5
  <2>2. retired(i) = [was EXCEPT !.status = "RETIRED_SOURCE"]  OBVIOUS
  <2> HIDE DEF was, retired
  <2> QED  BY <2>1, <2>2 DEF NodeType, Old, was
<1> HIDE DEF retired
<1>9. DOMAIN kept.nodes = Nodes(kept)  BY DEF Nodes
<1>10. nodes \in [1 .. m -> NodeType]  BY <1>5, <1>8, <1>9
<1>11. nodes \in Seq(NodeType) /\ Len(nodes) = m  BY <1>5, <1>10
<1>12. \A i \in Nodes(kept) : nodes[i] = IF i \in affected THEN retired(i) ELSE kept.nodes[i]
  BY <1>9
<1> HIDE DEF nodes
<1>13. /\ mid \in Graphs /\ mid.nodes = nodes /\ mid.edges = kept.edges
       /\ mid.files = kept.files /\ mid.hash = kept.hash
       /\ mid.frontiers = kept.frontiers /\ mid.expansions = kept.expansions
  BY <1>2, <1>5, <1>11, WithNodesOf
<1> HIDE DEF mid
<1>14. Nodes(mid) = Nodes(kept)  BY <1>5, <1>11, <1>13, FieldsOf
<1>15. \A i \in affected : Live(kept.nodes[i])  BY <1>1, <1>7 DEF AreLive, IsHistory
<1>16. \A i \in affected : kept.nodes[i].status # "HISTORICAL_SOURCE"
  BY <1>15 DEF Live, Old
<1>17. KeepsFunctions(kept, mid)
  <2>1. Len(kept.nodes) <= Len(mid.nodes)  BY <1>5, <1>11, <1>13
  <2>2. ASSUME NEW i \in Nodes(kept)
        PROVE  /\ mid.nodes[i].file = kept.nodes[i].file
               /\ mid.nodes[i].name = kept.nodes[i].name
               /\ mid.nodes[i].of = kept.nodes[i].of
               /\ mid.nodes[i].span = kept.nodes[i].span
               /\ mid.nodes[i].status = "HISTORICAL_SOURCE"
                    <=> kept.nodes[i].status = "HISTORICAL_SOURCE"
    <3>1. CASE i \in affected  BY <1>8, <1>12, <1>13, <1>16, <3>1
    <3>2. CASE i \notin affected  BY <1>12, <1>13, <3>2
    <3> QED  BY <3>1, <3>2
  <2> QED  BY <2>1, <2>2 DEF KeepsFunctions
<1>18. IsWellFormed(mid)
  <2>1. \A i \in Nodes(mid) : ~(i > Len(kept.nodes))  BY <1>5, <1>14
  <2>2. kept.files \subseteq mid.files /\ Cardinality(mid.files) <= MaxFiles
    BY <1>1, <1>13 DEF IsWellFormed
  <2>3. \A p \in Files \ mid.files : mid.hash[p] = NoHash  BY <1>1, <1>13 DEF IsWellFormed
  <2> QED  BY <1>1, <1>13, <1>17, <2>1, <2>2, <2>3, WellFormedStays
<1>19. g.edges \in EdgeMaps /\ \A e \in DOMAIN g.edges : g.edges[e] \in EdgeStates
  BY FieldsOf, EdgeMapsAre DEF IsWellFormed
<1>20. ASSUME NEW e \in DOMAIN g.edges
       PROVE  /\ edges[e] \in EdgeStates /\ edges[e].to \in Nodes(mid)
              /\ edges[e].active = g.edges[e].active
              /\ edges[e].to = IF moves(e) THEN version(g.edges[e].to) ELSE g.edges[e].to
  <2> DEFINE was == g.edges[e]
             to == version(was.to)
  <2>1. was \in EdgeStates /\ was.to \in Nodes(g)  BY <1>19 DEF IsWellFormed, EdgeIsKept
  <2>2. was.to \in Nodes(kept)  BY <1>1, <1>5, <1>6, <2>1 DEF IsHistory
  <2>3. CASE moves(e)
    <3>1. to \in Nodes(kept)  BY <1>4, <2>3
    <3>2. to \in Nat  BY <1>5, <3>1
    <3>3. edges[e] = [was EXCEPT !.to = to]  BY <2>3
    <3> HIDE DEF to, was, edges, moves
    <3>4. edges[e] \in EdgeStates /\ edges[e].to = to /\ edges[e].active = was.active
      BY <2>1, <3>2, <3>3 DEF EdgeStates
    <3> QED  BY <1>14, <2>3, <3>1, <3>4 DEF to, was
  <2>4. CASE ~moves(e)
    <3>1. edges[e] = was  BY <2>4
    <3> HIDE DEF edges, moves
    <3> QED  BY <1>14, <2>1, <2>2, <2>4, <3>1
  <2> QED  BY <2>3, <2>4
<1>21. DOMAIN edges = DOMAIN g.edges  OBVIOUS
<1>22. edges \in [DOMAIN mid.edges -> EdgeStates] /\ DOMAIN mid.edges = DOMAIN g.edges
  <2>1. mid.edges = g.edges  BY <1>1, <1>13 DEF IsHistory
  <2>2. edges = [e \in DOMAIN g.edges |-> edges[e]]  OBVIOUS
  <2> HIDE DEF edges
  <2> QED  BY <1>20, <1>21, <2>1, <2>2
<1> HIDE DEF edges
<1>23. /\ IsWellFormed(h) /\ h.nodes = mid.nodes /\ h.edges = edges /\ h.files = mid.files
       /\ h.hash = mid.hash /\ h.frontiers = mid.frontiers /\ h.expansions = mid.expansions
  BY <1>3, <1>18, <1>20, <1>22, EdgesStep
<1> HIDE DEF h
<1>24. /\ \A i \in Nodes(g) : kept.nodes[i] = g.nodes[i] /\ i \in Nodes(kept)
       /\ Nodes(h) = Nodes(kept) /\ n <= Len(h.nodes) /\ Len(h.nodes) = m
  <2>1. n <= m /\ \A i \in Nodes(g) : kept.nodes[i] = g.nodes[i]  BY <1>1 DEF IsHistory
  <2>2. Len(h.nodes) = m /\ Nodes(h) = Nodes(mid)  BY <1>11, <1>13, <1>23 DEF Nodes
  <2> QED  BY <1>5, <1>6, <1>14, <2>1, <2>2
<1>25. KeepsFunctions(g, h)
  <2>1. h.nodes = mid.nodes  BY <1>23
  <2>2. n <= Len(h.nodes)  BY <1>24
  <2> QED  BY <1>17, <1>24, <2>1, <2>2 DEF KeepsFunctions
<1>26. IsRetired(g, h, affected)
  <2>1. \A i \in Nodes(g) : i \notin affected => h.nodes[i] = g.nodes[i]
    BY <1>12, <1>13, <1>23, <1>24
  <2>2. \A i \in affected : h.nodes[i].status = "RETIRED_SOURCE"
    BY <1>7, <1>8, <1>12, <1>13, <1>23
  <2>3. ASSUME NEW v \in Nodes(h), v > n
        PROVE  h.nodes[v].of # 0 /\ h.nodes[v].status = "HISTORICAL_SOURCE"
    <3>1. v \in Nodes(kept) /\ v \notin Nodes(g)  BY <1>6, <1>24, <2>3
    <3>2. v \notin affected  BY <1>7, <3>1
    <3>3. h.nodes[v] = kept.nodes[v]  BY <1>12, <1>13, <1>23, <3>1, <3>2
    <3> QED  BY <1>1, <2>3, <3>1, <3>3 DEF IsHistory
  <2>4. /\ h.files = g.files /\ h.hash = g.hash
        /\ h.frontiers = g.frontiers /\ h.expansions = g.expansions
    BY <1>1, <1>13, <1>23 DEF IsHistory
  <2>5. \A e \in DOMAIN g.edges : h.edges[e].active => g.edges[e].active  BY <1>20, <1>23
  <2> QED  BY <1>21, <1>23, <1>24, <2>1, <2>2, <2>3, <2>4, <2>5 DEF IsRetired, n
<1>27. Carries(g, h)
  <2> SUFFICES ASSUME NEW e \in DOMAIN g.edges  PROVE Carried(g, h, e)
    BY <1>21, <1>23 DEF Carries
  <2> DEFINE i == g.edges[e].to
             j == h.edges[e].to
  <2>1. i \in Nodes(g)  BY DEF IsWellFormed, EdgeIsKept
  <2>2. j = IF moves(e) THEN version(i) ELSE i  BY <1>20, <1>23
  <2>3. CASE e.kind # "STATIC_CALLS" /\ i \in affected
    <3>1. j = version(i)  BY <2>2, <2>3
    <3> HIDE DEF i, j
    <3>2. j \in Nodes(kept) /\ IsVersion(kept, j, i)  BY <1>4, <2>3, <3>1
    <3>3. kept.nodes[j].of = i /\ kept.nodes[j].span = g.nodes[i].span
      BY <1>24, <2>1, <3>2 DEF IsVersion
    <3>4. i # 0  BY <1>6, <2>1
    <3>5. kept.nodes[j].status = "HISTORICAL_SOURCE"
      BY <1>1, <3>2, <3>3, <3>4 DEF IsWellFormed, NodeIsKept
    <3>6. j \notin affected  BY <1>16, <3>5
    <3>7. h.nodes[j] = kept.nodes[j]  BY <1>12, <1>13, <1>23, <3>2, <3>6
    <3> QED  BY <3>3, <3>5, <3>7 DEF Carried, i, j
  <2>4. CASE e.kind # "STATIC_CALLS" /\ i \notin affected
    <3>1. j = i  BY <2>2, <2>4
    <3> HIDE DEF i, j
    <3>2. h.nodes[i] = g.nodes[i]  BY <1>26, <2>1, <2>4 DEF IsRetired
    <3> QED  BY <3>1, <3>2 DEF Carried, i, j
  <2>5. CASE e.kind = "STATIC_CALLS"  BY <2>5 DEF Carried
  <2> QED  BY <2>3, <2>4, <2>5
<1> QED  BY <1>23, <1>25, <1>26, <1>27 DEF h

\* The calls from and to some nodes are withdrawn.
IsWithdrawn(g, h, touched) ==
  /\ h.nodes = g.nodes /\ h.files = g.files /\ h.hash = g.hash
  /\ h.frontiers = g.frontiers /\ h.expansions = g.expansions
  /\ DOMAIN h.edges = DOMAIN g.edges
  /\ \A e \in DOMAIN g.edges :
       /\ h.edges[e].to = g.edges[e].to
       /\ h.edges[e].active => g.edges[e].active
       /\ e.kind = "STATIC_CALLS" /\ h.edges[e].active => {e.from, e.to} \cap touched = {}

LEMMA WithdrawStep ==
  ASSUME NEW g, IsWellFormed(g), NEW touched
  PROVE  IsWellFormed(Withdraw(g, touched)) /\ IsWithdrawn(g, Withdraw(g, touched), touched)
<1> DEFINE cuts(e) == e.kind = "STATIC_CALLS" /\ {e.from, e.to} \cap touched # {}
           cut(e) == [g.edges[e] EXCEPT !.active = FALSE]
           edges == [e \in DOMAIN g.edges |-> IF cuts(e) THEN cut(e) ELSE g.edges[e]]
           h == Withdraw(g, touched)
<1>1. h = [g EXCEPT !.edges = edges]  BY DEF Withdraw
<1>2. \A e \in DOMAIN g.edges : g.edges[e] \in EdgeStates /\ g.edges[e].to \in Nodes(g)
  BY FieldsOf, EdgeMapsAre DEF IsWellFormed, EdgeIsKept
<1>3. ASSUME NEW e \in DOMAIN g.edges
      PROVE  /\ edges[e] \in EdgeStates /\ edges[e].to = g.edges[e].to
             /\ edges[e].active => g.edges[e].active /\ ~cuts(e)
  <2> DEFINE was == g.edges[e]
  <2>1. was \in EdgeStates  BY <1>2
  <2>2. CASE cuts(e)
    <3>1. edges[e] = [was EXCEPT !.active = FALSE]  BY <2>2
    <3> HIDE DEF was, edges, cuts
    <3>2. edges[e] \in EdgeStates /\ edges[e].to = was.to /\ edges[e].active = FALSE
      BY <2>1, <3>1 DEF EdgeStates
    <3> QED  BY <3>2 DEF was
  <2>3. CASE ~cuts(e)
    <3>1. edges[e] = was  BY <2>3
    <3> HIDE DEF edges, cuts
    <3> QED  BY <2>1, <2>3, <3>1
  <2> QED  BY <2>2, <2>3
<1>4. DOMAIN edges = DOMAIN g.edges /\ edges = [e \in DOMAIN g.edges |-> edges[e]]  OBVIOUS
<1> HIDE DEF edges
<1>5. edges \in [DOMAIN g.edges -> EdgeStates]  BY <1>3, <1>4
<1>6. \A e \in DOMAIN g.edges : edges[e].to \in Nodes(g)  BY <1>2, <1>3
<1>7. /\ IsWellFormed(h) /\ h.nodes = g.nodes /\ h.edges = edges /\ h.files = g.files
      /\ h.hash = g.hash /\ h.frontiers = g.frontiers /\ h.expansions = g.expansions
  BY <1>1, <1>5, <1>6, EdgesStep
<1> HIDE DEF h
<1>8. IsWithdrawn(g, h, touched)  BY <1>3, <1>4, <1>7 DEF IsWithdrawn
<1> QED  BY <1>7, <1>8 DEF h

\* The graph before a file is read again.
Bare(g, p, c) == [Withdraw(Retire(g, Affected(g, p)), Affected(g, p)) EXCEPT !.hash[p] = c]

IsBare(g, h, p, c) ==
  /\ Len(g.nodes) <= Len(h.nodes) /\ KeepsFunctions(g, h) /\ Carries(g, h)
  /\ \A i \in Nodes(g) : i \notin Affected(g, p) => h.nodes[i] = g.nodes[i]
  /\ \A i \in Affected(g, p) : h.nodes[i].status = "RETIRED_SOURCE"
  /\ \A v \in Nodes(h) : v > Len(g.nodes) =>
       h.nodes[v].of # 0 /\ h.nodes[v].status = "HISTORICAL_SOURCE"
  /\ h.files = g.files /\ h.hash = [g.hash EXCEPT ![p] = c]
  /\ h.frontiers = g.frontiers /\ h.expansions = g.expansions
  /\ DOMAIN h.edges = DOMAIN g.edges
  /\ \A e \in DOMAIN g.edges :
       /\ h.edges[e].active => g.edges[e].active
       /\ e.kind = "STATIC_CALLS" /\ h.edges[e].active =>
            {e.from, e.to} \cap Affected(g, p) = {}

LEMMA BareStep ==
  ASSUME NEW g, IsWellFormed(g), NEW p \in Files, p \in g.files, NEW c \in Contents
  PROVE  IsWellFormed(Bare(g, p, c)) /\ IsBare(g, Bare(g, p, c), p, c)
<1> DEFINE affected == Affected(g, p)
           old == Retire(g, affected)
           mid == Withdraw(old, affected)
           h == Bare(g, p, c)
<1>1. AreLive(g, affected)  BY DEF AreLive, Affected
<1> HIDE DEF affected
<1>2. /\ IsWellFormed(old) /\ KeepsFunctions(g, old) /\ IsRetired(g, old, affected)
      /\ Carries(g, old)
  BY <1>1, RetireStep
<1> HIDE DEF old
<1>3. IsWellFormed(mid) /\ IsWithdrawn(old, mid, affected)  BY <1>2, WithdrawStep
<1>4. h = [mid EXCEPT !.hash[p] = c]  BY DEF Bare, affected, old
<1> HIDE DEF mid, h
<1>5. mid \in Graphs  BY <1>3, WellFormedFields
<1>6. /\ h \in Graphs /\ h.nodes = mid.nodes /\ h.edges = mid.edges /\ h.files = mid.files
      /\ h.hash = [mid.hash EXCEPT ![p] = c] /\ h.frontiers = mid.frontiers
      /\ h.expansions = mid.expansions
  BY <1>4, <1>5, WithHashOf
<1>7. IsWellFormed(h)
  <2>1. Nodes(h) = Nodes(mid)  BY <1>6 DEF Nodes
  <2>2. p \in mid.files  BY <1>2, <1>3 DEF IsRetired, IsWithdrawn
  <2>3. \A q \in Files \ h.files : h.hash[q] = NoHash
    <3> TAKE q \in Files \ h.files
    <3>1. q # p /\ mid.hash[q] = NoHash  BY <1>3, <1>6, <2>2 DEF IsWellFormed
    <3>2. mid.hash \in [Files -> Contents \cup {NoHash}]  BY <1>5, FieldsOf
    <3> QED  BY <1>6, <3>1, <3>2
  <2> QED  BY <1>3, <1>6, <2>1, <2>3 DEF IsWellFormed, NodeIsKept, EdgeIsKept
<1>8. h.nodes = old.nodes /\ Nodes(h) = Nodes(old)  BY <1>3, <1>6 DEF IsWithdrawn, Nodes
<1>9. KeepsFunctions(g, h)  BY <1>2, <1>8 DEF KeepsFunctions
<1>10. Carries(g, h)  BY <1>2, <1>3, <1>6 DEF Carries, Carried, IsWithdrawn, IsRetired
<1>11. IsBare(g, h, p, c)
  <2>1. /\ DOMAIN h.edges = DOMAIN g.edges
        /\ \A e \in DOMAIN g.edges :
             /\ h.edges[e].active => g.edges[e].active
             /\ e.kind = "STATIC_CALLS" /\ h.edges[e].active =>
                  {e.from, e.to} \cap affected = {}
    BY <1>2, <1>3, <1>6 DEF IsRetired, IsWithdrawn
  <2>2. /\ h.files = g.files /\ h.hash = [g.hash EXCEPT ![p] = c]
        /\ h.frontiers = g.frontiers /\ h.expansions = g.expansions
    BY <1>2, <1>3, <1>6 DEF IsRetired, IsWithdrawn
  <2>3. /\ Len(g.nodes) <= Len(h.nodes)
        /\ \A i \in Nodes(g) : i \notin affected => h.nodes[i] = g.nodes[i]
        /\ \A i \in affected : h.nodes[i].status = "RETIRED_SOURCE"
        /\ \A v \in Nodes(h) : v > Len(g.nodes) =>
             h.nodes[v].of # 0 /\ h.nodes[v].status = "HISTORICAL_SOURCE"
    BY <1>2, <1>8 DEF IsRetired
  <2> QED  BY <1>9, <1>10, <2>1, <2>2, <2>3 DEF IsBare, affected
<1> QED  BY <1>7, <1>11 DEF h

\* Nothing of the file is live any more, ...
LEMMA BareIsRetired ==
  ASSUME NEW g, IsWellFormed(g), NEW p \in Files, NEW c \in Contents,
         NEW h, IsWellFormed(h), IsBare(g, h, p, c),
         NEW i \in Nodes(h), h.nodes[i].file = p
  PROVE  /\ ~Live(h.nodes[i])
         /\ h.nodes[i].of = 0 => h.nodes[i].status = "RETIRED_SOURCE"
<1>1. NodeIsKept(h, i)  BY DEF IsWellFormed
<1>2. h.nodes[i].status = "HISTORICAL_SOURCE" <=> h.nodes[i].of # 0  BY <1>1 DEF NodeIsKept
<1>3. ~Live(h.nodes[i])
  <2>1. CASE i > Len(g.nodes)
    <3>1. h.nodes[i].status = "HISTORICAL_SOURCE"  BY <2>1 DEF IsBare
    <3> QED  BY <3>1 DEF Live, Old
  <2>2. CASE i \in Affected(g, p)
    <3>1. h.nodes[i].status = "RETIRED_SOURCE"  BY <2>2 DEF IsBare
    <3> QED  BY <3>1 DEF Live, Old
  <2>3. CASE ~(i > Len(g.nodes)) /\ i \notin Affected(g, p)
    <3>1. i \in Nodes(g)  BY <2>3, WellFormedFields
    <3>2. h.nodes[i] = g.nodes[i]  BY <2>3, <3>1 DEF IsBare
    <3> QED  BY <2>3, <3>1, <3>2 DEF Affected
  <2> QED  BY <2>1, <2>2, <2>3
<1> QED  BY <1>2, <1>3 DEF Live, Old

\* ... and of the other files all is as it was.
LEMMA BareIsSound ==
  ASSUME NEW g, IsWellFormed(g), NEW p \in Files, NEW c \in Contents,
         NEW h, IsWellFormed(h), IsBare(g, h, p, c), IsSound(g)
  PROVE  IsSound(h)
<1>1. h.hash = [g.hash EXCEPT ![p] = c] /\ g.hash \in [Files -> Contents \cup {NoHash}]
  BY WellFormedFields, FieldsOf DEF IsBare
<1>2. \A q, name : q # p => Known(h, q, name) = Known(g, q, name)
  BY <1>1 DEF Known
<1>3. /\ Nodes(g) = 1 .. Len(g.nodes) /\ Len(g.nodes) \in Nat
      /\ Nodes(h) = 1 .. Len(h.nodes) /\ Len(h.nodes) \in Nat
  BY WellFormedFields
<1>4. ASSUME NEW i \in Nodes(h)  PROVE TextIsKnown(h, i)
  <2>1. CASE h.nodes[i].file = p  BY <2>1, BareIsRetired DEF TextIsKnown
  <2>2. CASE i > Len(g.nodes)
    <3>1. h.nodes[i].status = "HISTORICAL_SOURCE"  BY <2>2 DEF IsBare
    <3> QED  BY <3>1 DEF TextIsKnown, Live, Old
  <2>3. CASE h.nodes[i].file # p /\ ~(i > Len(g.nodes))
    <3>1. i \in Nodes(g)  BY <1>3, <2>3
    <3>2. i \notin Affected(g, p)
      <4>1. h.nodes[i].file = g.nodes[i].file  BY <3>1 DEF IsBare, KeepsFunctions
      <4> QED  BY <2>3, <4>1 DEF Affected
    <3>3. h.nodes[i] = g.nodes[i] /\ TextIsKnown(g, i)  BY <3>1, <3>2 DEF IsBare, IsSound
    <3> QED  BY <1>2, <2>3, <3>3 DEF TextIsKnown
  <2> QED  BY <2>1, <2>2, <2>3
<1>5. ASSUME NEW e \in DOMAIN h.edges  PROVE CallIsKnown(h, e)
  <2>1. SUFFICES ASSUME e.kind = "STATIC_CALLS", h.edges[e].active
                 PROVE  CallIsKnown(h, e)
    BY DEF CallIsKnown
  <2> DEFINE from == e.from
             to == e.to
  <2>2. /\ e \in DOMAIN g.edges /\ g.edges[e].active
        /\ {e.from, e.to} \cap Affected(g, p) = {}
    BY <2>1 DEF IsBare
  <2>3. EdgeIsKept(g, e) /\ CallIsKnown(g, e)  BY <2>2 DEF IsWellFormed, IsSound
  <2>4. from \in Nodes(g) /\ to \in Nodes(g)  BY <2>1, <2>3 DEF EdgeIsKept
  <2>5. from \notin Affected(g, p)  BY <2>2
  <2>6. h.nodes[from] = g.nodes[from] /\ h.nodes[to].name = g.nodes[to].name
    BY <2>4, <2>5 DEF IsBare, KeepsFunctions
  <2>7. Live(g.nodes[from]) => g.nodes[from].file # p  BY <2>4, <2>5 DEF Affected
  <2> QED  BY <1>2, <2>1, <2>2, <2>3, <2>6, <2>7 DEF CallIsKnown
<1> QED  BY <1>4, <1>5 DEF IsSound

LEMMA BareIsWhole ==
  ASSUME NEW g, IsWellFormed(g), NEW p \in Files, NEW c \in Contents,
         NEW h, IsWellFormed(h), IsBare(g, h, p, c),
         NEW q \in Files, q # p, IsWhole(g, q)
  PROVE  IsWhole(h, q)
<1>1. h.hash = [g.hash EXCEPT ![p] = c] /\ g.hash \in [Files -> Contents \cup {NoHash}]
  BY WellFormedFields, FieldsOf DEF IsBare
<1>2. h.hash[q] = g.hash[q]  BY <1>1
<1>3. SUFFICES ASSUME h.hash[q] # NoHash, Room(h) > 0 \/ "SYMBOL_BUDGET" \notin h.frontiers,
                      NEW d \in Range(Defs[h.hash[q]])
               PROVE  IsRead(h, q, d.name)
  BY DEF IsWhole
<1> DEFINE i == SourceNode(g, q, d.name)
<1>4. Room(g) > 0 \/ "SYMBOL_BUDGET" \notin g.frontiers  BY <1>3, RoomShrinks DEF IsBare
<1>5. IsRead(g, q, d.name)  BY <1>2, <1>3, <1>4 DEF IsWhole
<1>6. i # 0 /\ Live(g.nodes[i])  BY <1>5 DEF IsRead
<1>7. IsSource(g, i, q, d.name)  BY <1>6, SourceNodeFacts, WellFormedFields
<1>8. SourceNode(h, q, d.name) = i  BY <1>6, SourceStays DEF IsBare
<1> HIDE DEF i
<1>9. i \in Nodes(g) /\ i \notin Affected(g, p)  BY <1>7 DEF IsSource, Affected
<1>10. h.nodes[i] = g.nodes[i]  BY <1>9 DEF IsBare
<1> QED  BY <1>6, <1>8, <1>10 DEF IsRead

-----------------------------------------------------------------------------
(* A refresh.                                                                  *)

\* Only what is retired is replaced.
AllRetired(ps, g) ==
  \A i \in Nodes(g) :
    g.nodes[i].file \in ps /\ g.nodes[i].of = 0 => g.nodes[i].status = "RETIRED_SOURCE"

LEMMA EvolvesCarries ==
  ASSUME NEW t, NEW ps, NEW g, IsWellFormed(g), NEW h, Evolves(t, ps, g, h),
         AllRetired(ps, g)
  PROVE  Carries(g, h)
<1> SUFFICES ASSUME NEW e \in DOMAIN g.edges
             PROVE  e \in DOMAIN h.edges /\ Carried(g, h, e)
  BY DEF Carries
<1> DEFINE i == g.edges[e].to
<1>1. i \in Nodes(g)  BY DEF IsWellFormed, EdgeIsKept
<1>2. e \in DOMAIN h.edges /\ h.edges[e].to = i  BY DEF Evolves, KeepsEdges
<1> HIDE DEF i
<1>3. h.nodes[i] = g.nodes[i] \/ IsReplaced(t, ps, g, h, i)  BY <1>1 DEF Evolves
<1>4. IsReplaced(t, ps, g, h, i) => g.nodes[i].status = "RETIRED_SOURCE"
  BY <1>1 DEF IsReplaced, AllRetired
<1> QED  BY <1>2, <1>3, <1>4 DEF Carried, i

IsTrue(g) == IsSound(g) /\ \A q \in Files : IsWhole(g, q)

\* What the graph has read of a file is what the tree says, or there is no
\* place for it.
IsCurrent(t, p, g) ==
  \/ Content[t][p] \in {Gone, Broken, g.hash[p]}
  \/ p \notin g.files /\ Cardinality(g.files) >= MaxFiles

\* The graph follows to tree t.
Follows(t, g, h) ==
  /\ Carries(g, h) /\ h.expansions = g.expansions
  /\ g.files \subseteq h.files /\ (Cardinality(g.files) >= MaxFiles => h.files = g.files)
  /\ \A q \in Files : h.hash[q] \in {g.hash[q], Content[t][q]}

LEMMA EvolvesFollows ==
  ASSUME NEW t, NEW u, NEW ps, NEW g, IsWellFormed(g), NEW h, Evolves(u, ps, g, h),
         AllRetired(ps, g)
  PROVE  Follows(t, g, h)
BY EvolvesCarries DEF Follows, Evolves

LEMMA FollowsOn ==
  ASSUME NEW t, NEW g, NEW m, NEW h, Follows(t, g, m), Follows(t, m, h)
  PROVE  Follows(t, g, h)
<1>1. Carries(g, h)  BY CarriesOn DEF Follows
<1>2. \A q \in Files : h.hash[q] \in {g.hash[q], Content[t][q]}  BY DEF Follows
<1> QED  BY <1>1, <1>2 DEF Follows

LEMMA CurrentStays ==
  ASSUME NEW t, NEW p \in Files, NEW g, NEW h, Follows(t, g, h), IsCurrent(t, p, g)
  PROVE  IsCurrent(t, p, h)
BY DEF Follows, IsCurrent

LEMMA BareFollows ==
  ASSUME NEW t, NEW g, IsWellFormed(g), NEW p \in Files, p \in g.files,
         NEW h, IsBare(g, h, p, Content[t][p])
  PROVE  Follows(t, g, h)
<1>1. h.hash = [g.hash EXCEPT ![p] = Content[t][p]]
      /\ g.hash \in [Files -> Contents \cup {NoHash}]
  BY WellFormedFields, FieldsOf DEF IsBare
<1>2. \A q \in Files : h.hash[q] \in {g.hash[q], Content[t][q]}  BY <1>1
<1> QED  BY <1>2 DEF Follows, IsBare

LEMMA RereadStep ==
  ASSUME NEW t \in Trees, NEW g, IsWellFormed(g), NEW p \in Files, p \in g.files,
         Content[t][p] \notin {Gone, Broken}
  PROVE  LET h == Reread(g, p, Content[t][p])
         IN /\ IsWellFormed(h) /\ Follows(t, g, h) /\ IsCurrent(t, p, h)
            /\ IsTrue(g) => IsTrue(h)
<1> DEFINE how == "REFRESH"
           c == Content[t][p]
           wanted == Range(Defs[c])
           bare == Bare(g, p, c)
           r == Reading(how, p, wanted, bare, Defs[c])
           read == r.graph
           calls == r.calls
           h == Reread(g, p, c)
           ps == {p}
           none == {}
<1>1. /\ c \in Contents /\ c # NoHash
      /\ \A name : TextsIn(t, p, name) = Texts(c, name)
  BY TextsOfTree
<1>2. IsWellFormed(bare) /\ IsBare(g, bare, p, c)  BY <1>1, BareStep
<1>3. h = Linked(how, read, calls)  BY DEF Reread, Bare
<1> HIDE DEF bare, h
<1>4. g.hash \in [Files -> Contents \cup {NoHash}]  BY WellFormedFields, FieldsOf
<1>5. bare.hash[p] = c /\ p \in bare.files  BY <1>2, <1>4 DEF IsBare
<1>6. /\ Reads(t, how, p, bare, r)
      /\ ~r.full => \A d \in Range(Defs[c]) : IsRead(read, p, d.name)
  <2>1. how = "REFRESH" => bare.hash[p] = Content[t][p]  BY <1>5
  <2>2. how \in {"REFRESH", "SEED"}  OBVIOUS
  <2> HIDE DEF r
  <2>3. /\ Reads(t, how, p, bare, r)
        /\ how = "REFRESH" /\ ~r.full =>
             \A d \in Range(Defs[Content[t][p]]) : d \in wanted => IsRead(read, p, d.name)
    BY <1>2, <1>5, <2>1, <2>2, ReadingStep DEF r
  <2> QED  BY <2>3
<1> HIDE DEF wanted, r
<1>7. /\ IsWellFormed(read) /\ Evolves(t, ps, bare, read) /\ read.edges = bare.edges
      /\ AreFound(t, how, read, calls) /\ (r.full => NoRoom(read)) /\ calls \in Seq(CallType)
  BY <1>6 DEF Reads, ReadStates
<1>8. CanLink(read, calls)  BY <1>7 DEF AreFound, IsFound, CanLink
<1>9. AreMade(read, calls)
  <2> SUFFICES ASSUME NEW k \in 1 .. Len(calls)  PROVE IsMade(read, calls[k])
    BY DEF AreMade
  <2> DEFINE call == calls[k]
             q == call.file
  <2>1. IsFound(t, how, read, call)  BY <1>7 DEF AreFound
  <2>2. call \in CallType  BY <1>7, SeqOfItsRange
  <2>3. q \in Files  BY <2>2 DEF CallType
  <2> HIDE DEF read, calls, call
  <2>4. read.hash[q] = Content[t][q]  BY <2>1 DEF IsFound
  <2>5. Content[t][q] \in Contents \cup {NoHash}
    <3>1. read.hash \in [Files -> Contents \cup {NoHash}]  BY <1>7, WellFormedFields, FieldsOf
    <3> QED  BY <2>3, <2>4, <3>1
  <2>6. TextsIn(t, q, call.caller) \subseteq Known(read, q, call.caller)
    <3>1. CASE Content[t][q] \in {Gone, Broken}
      <4>1. TextsIn(t, q, call.caller) = {}  BY <3>1 DEF TextsIn
      <4> QED  BY <4>1
    <3>2. CASE Content[t][q] \notin {Gone, Broken}
      <4>1. TextsIn(t, q, call.caller) = Texts(Content[t][q], call.caller)
        BY <2>3, <3>2, TextsOfTree
      <4> QED  BY <2>4, <4>1 DEF Known
    <3> QED  BY <3>1, <3>2
  <2>7. CallsFrom(Known(read, q, call.caller), call.callee)
    BY <2>1, <2>6 DEF IsFound, CallsFrom
  <2> DEFINE i == SourceNode(read, q, call.caller)
  <2>8. i # 0 /\ Live(read.nodes[i])  BY <2>1 DEF IsFound, IsRead
  <2> HIDE DEF i, q
  <2>9. i # 0 /\ CallsFrom(IF Live(read.nodes[i]) THEN Known(read, q, call.caller)
                          ELSE CleanTexts(q, call.caller), call.callee)
    BY <2>7, <2>8
  <2> QED  BY <2>9 DEF IsMade, i, q, call
<1> HIDE DEF read, calls
<1>10. /\ IsWellFormed(h) /\ SameNodes(read, h)
       /\ IsSound(read) /\ AreMade(read, calls) => IsSound(h)
  BY <1>3, <1>7, <1>8, LinkedStep
<1>11. Evolves(t, none, read, h)  BY <1>7, <1>10, EvolvesBeside
<1>12. AllRetired(ps, bare) /\ AllRetired(none, read)
  BY <1>1, <1>2, BareIsRetired DEF AllRetired
<1>13. Follows(t, g, bare)  BY <1>2, BareFollows
<1>14. Follows(t, g, h)
  <2> HIDE DEF ps, none
  <2>1. Follows(t, bare, read)  BY <1>2, <1>7, <1>12, EvolvesFollows
  <2>2. Follows(t, read, h)  BY <1>7, <1>11, <1>12, EvolvesFollows
  <2>3. Follows(t, g, read)  BY <1>13, <2>1, FollowsOn
  <2> QED  BY <2>2, <2>3, FollowsOn
<1>15. h.hash = bare.hash  BY <1>7, <1>10 DEF Evolves, SameNodes
<1>16. IsCurrent(t, p, h)  BY <1>5, <1>15 DEF IsCurrent
<1>17. ASSUME IsTrue(g)  PROVE IsTrue(h)
  <2>1. IsSound(g) /\ \A q \in Files : IsWhole(g, q)  BY <1>17 DEF IsTrue
  <2>2. IsSound(bare)  BY <1>1, <1>2, <2>1, BareIsSound
  <2>3. TextsAreKnown(t, ps, bare)  BY <1>1, <1>5 DEF TextsAreKnown, Known
  <2>4. IsSound(read)
    <3>1. \A e \in DOMAIN read.edges :
            (e \in DOMAIN bare.edges /\ read.edges[e] = bare.edges[e]) \/ CallIsKnown(read, e)
      BY <1>7
    <3> HIDE DEF ps
    <3> QED  BY <1>2, <1>7, <2>2, <2>3, <3>1, SoundStays
  <2>5. IsSound(h)  BY <1>9, <1>10, <2>4
  <2>6. ASSUME NEW q \in Files, q # p  PROVE IsWhole(h, q)
    <3> HIDE DEF ps, none
    <3>1. IsWhole(bare, q)  BY <1>1, <1>2, <2>1, <2>6, BareIsWhole
    <3>2. IsWhole(read, q)  BY <1>2, <1>7, <3>1, WholeStays
    <3> QED  BY <1>7, <1>10, <1>11, <3>2, WholeStays
  <2>7. IsWhole(h, p)
    <3>1. CASE r.full
      <4>1. NoRoom(h)  BY <1>7, <1>10, <1>11, <3>1, NoRoomStays
      <4> QED  BY <4>1 DEF NoRoom, IsWhole
    <3>2. CASE ~r.full
      <4>1. h.hash[p] = c  BY <1>5, <1>15
      <4> SUFFICES ASSUME NEW d \in Range(Defs[c])  PROVE IsRead(h, p, d.name)
        BY <4>1 DEF IsWhole
      <4> DEFINE name == d.name
      <4>2. IsRead(read, p, name)  BY <1>6, <3>2 DEF read
      <4> HIDE DEF name, none
      <4>3. IsRead(h, p, name)  BY <1>7, <1>10, <1>11, <4>2, ReadStays
      <4> QED  BY <4>3 DEF name
    <3> QED  BY <3>1, <3>2
  <2> QED  BY <2>5, <2>6, <2>7 DEF IsTrue
<1> QED  BY <1>10, <1>14, <1>16, <1>17 DEF h

LEMMA AdmitFollows ==
  ASSUME NEW t \in Trees, NEW g, IsWellFormed(g), NEW p \in Files
  PROVE  LET h == Admit(g, p)
         IN IsWellFormed(h) /\ Follows(t, g, h) /\ (IsTrue(g) => IsTrue(h))
<1> DEFINE h == Admit(g, p)
           none == {}
<1>1. IsWellFormed(h) /\ Evolves(t, none, g, h) /\ h.edges = g.edges /\ h.nodes = g.nodes
  BY AdmitStep
<1>2. AllRetired(none, g) /\ TextsAreKnown(t, none, g)  BY DEF AllRetired, TextsAreKnown
<1> HIDE DEF h, none
<1>3. Follows(t, g, h)  BY <1>1, <1>2, EvolvesFollows
<1>4. IsSound(g) => IsSound(h)  BY <1>1, <1>2, SoundStays
<1>5. \A q \in Files : IsWhole(g, q) => IsWhole(h, q)  BY <1>1, WholeStays
<1> QED  BY <1>1, <1>3, <1>4, <1>5 DEF IsTrue, h

LEMMA FollowsNot ==
  ASSUME NEW t, NEW g, IsWellFormed(g)
  PROVE  Follows(t, g, g)
BY DEF Follows, Carries, Carried

LEMMA RefreshFileStep ==
  ASSUME NEW t \in Trees, NEW g, IsWellFormed(g), NEW p \in Files
  PROVE  LET h == RefreshFile(g, t, p)
         IN /\ IsWellFormed(h) /\ Follows(t, g, h) /\ IsCurrent(t, p, h)
            /\ IsTrue(g) => IsTrue(h)
<1> DEFINE c == Content[t][p]
           known == IF c = Gone THEN g ELSE Admit(g, p)
           h == RefreshFile(g, t, p)
<1>1. h = IF c \in {Gone, Broken, g.hash[p]} \/ p \notin known.files THEN known
          ELSE Reread(known, p, c)
  BY DEF RefreshFile
<1>2. IsWellFormed(known) /\ Follows(t, g, known) /\ (IsTrue(g) => IsTrue(known))
  BY AdmitFollows, FollowsNot
<1>3. c # Gone /\ p \notin known.files => Cardinality(known.files) >= MaxFiles
  BY AdmitStep
<1>4. c # Gone => known.hash = g.hash
  BY AdmitStep DEF Evolves
<1> HIDE DEF known, h
<1>5. CASE c \in {Gone, Broken, g.hash[p]} \/ p \notin known.files
  <2>1. h = known  BY <1>1, <1>5
  <2>2. IsCurrent(t, p, known)  BY <1>3, <1>4, <1>5 DEF IsCurrent
  <2> QED  BY <1>2, <2>1, <2>2 DEF h
<1>6. CASE c \notin {Gone, Broken, g.hash[p]} /\ p \in known.files
  <2> DEFINE new == Reread(known, p, c)
  <2>1. h = new  BY <1>1, <1>6
  <2>2. /\ IsWellFormed(new) /\ Follows(t, known, new) /\ IsCurrent(t, p, new)
        /\ IsTrue(known) => IsTrue(new)
    BY <1>2, <1>6, RereadStep
  <2> HIDE DEF new
  <2>3. Follows(t, g, new)  BY <1>2, <2>2, FollowsOn
  <2> QED  BY <1>2, <2>1, <2>2, <2>3 DEF h
<1> QED  BY <1>5, <1>6

LEMMA RefreshAllStep ==
  ASSUME NEW t \in Trees, NEW g, IsWellFormed(g), NEW paths \in Seq(Files)
  PROVE  LET h == RefreshAll(g, t, paths)
         IN /\ IsWellFormed(h) /\ Follows(t, g, h) /\ (IsTrue(g) => IsTrue(h))
            /\ \A p \in Files : Occurs(p, paths) => IsCurrent(t, p, h)
<1> DEFINE n == Len(paths)
           A == {x \in Graphs : IsWellFormed(x) /\ Follows(t, g, x) /\ (IsTrue(g) => IsTrue(x))}
<1>1. /\ paths \in Seq(Range(paths)) /\ n \in Nat
      /\ \A k \in 1 .. n : paths[k] \in Files
  BY SeqOfItsRange
<1>2. g \in A  BY FollowsNot, WellFormedFields
<1>3. ASSUME NEW x \in A, NEW k \in 1 .. n
      PROVE  /\ RefreshFile(x, t, paths[k]) \in A
             /\ Follows(t, x, RefreshFile(x, t, paths[k]))
             /\ IsCurrent(t, paths[k], RefreshFile(x, t, paths[k]))
  <2> DEFINE p == paths[k]
             h == RefreshFile(x, t, p)
  <2>1. IsWellFormed(x) /\ Follows(t, g, x) /\ (IsTrue(g) => IsTrue(x))  OBVIOUS
  <2>2. p \in Files  BY <1>1
  <2> HIDE DEF p
  <2>3. /\ IsWellFormed(h) /\ Follows(t, x, h) /\ IsCurrent(t, p, h)
        /\ IsTrue(x) => IsTrue(h)
    BY <2>1, <2>2, RefreshFileStep
  <2> HIDE DEF h
  <2>4. Follows(t, g, h)  BY <2>1, <2>3, FollowsOn
  <2>5. h \in Graphs  BY <2>3, WellFormedFields
  <2> QED  BY <2>1, <2>3, <2>4, <2>5 DEF h, p
<1>4. \A x \in A : IsWellFormed(x) /\ Follows(t, g, x) /\ (IsTrue(g) => IsTrue(x))
  OBVIOUS
<1> HIDE DEF A
<1>5. MayRefresh(t, A, paths)  BY <1>3 DEF MayRefresh
<1>6. PICK h : RunsRefresh(h, t, A, g, paths)  BY <1>1, <1>2, <1>5, RefreshSteps
<1>7. RefreshAll(g, t, paths) = h[n] /\ \A k \in 0 .. n : h[k] \in A  BY <1>6 DEF RunsRefresh
<1> DEFINE Good == {k \in 0 .. n : \A j \in 1 .. k : IsCurrent(t, paths[j], h[k])}
<1>8. 0 \in Good
  <2>1. 0 \in 0 .. n /\ \A j : j \notin 1 .. 0  BY <1>1
  <2> QED  BY <2>1
<1>9. ASSUME NEW k \in 1 .. n, k - 1 \in Good  PROVE k \in Good
  <2> DEFINE x == h[k - 1]
             y == h[k]
             p == paths[k]
  <2>1. k - 1 \in 0 .. n /\ k \in 0 .. n  BY <1>1
  <2>2. x \in A  BY <1>7, <2>1
  <2>3. y = RefreshFile(x, t, p)  BY <1>6 DEF RunsRefresh
  <2>4. Follows(t, x, y) /\ IsCurrent(t, p, y)
    <3> HIDE DEF x, y
    <3> QED  BY <1>3, <2>2, <2>3
  <2>5. ASSUME NEW j \in 1 .. k  PROVE IsCurrent(t, paths[j], y)
    <3>1. CASE j = k  BY <2>4, <3>1
    <3>2. CASE j # k
      <4> DEFINE q == paths[j]
      <4>1. j \in 1 .. (k - 1) /\ j \in 1 .. n  BY <1>1, <3>2
      <4>2. IsCurrent(t, q, x)  BY <1>9, <4>1
      <4>3. q \in Files  BY <1>1, <4>1
      <4> HIDE DEF x, y, q
      <4>4. IsCurrent(t, q, y)  BY <2>4, <4>2, <4>3, CurrentStays
      <4> QED  BY <4>4 DEF q
    <3> QED  BY <3>1, <3>2
  <2> QED  BY <2>1, <2>5
<1>10. n \in Good
  <2> HIDE DEF Good, n
  <2>1. n \in Nat  BY <1>1
  <2>2. \A k \in 1 .. n : k - 1 \in Good => k \in Good  BY <1>9
  <2>3. \A k \in 0 .. n : k \in Good  BY <2>1, <2>2, <1>8, PrefixInduction
  <2>4. n \in 0 .. n  BY <2>1
  <2> QED  BY <2>3, <2>4
<1>11. n \in 0 .. n  BY <1>1
<1>12. \A p \in Files : Occurs(p, paths) => IsCurrent(t, p, h[n])  BY <1>10 DEF Occurs
<1> QED  BY <1>4, <1>7, <1>11, <1>12

\* What the graph has read of a file is what the tree says, or the file is as in
\* the clean tree and was never read, or has no place.
IsSynced(g, t, p) ==
  \/ Content[t][p] \in {Gone, Broken, g.hash[p]}
  \/ g.hash[p] = NoHash /\ Content[t][p] = Content[Clean][p]
  \/ p \notin g.files /\ Cardinality(g.files) >= MaxFiles

LEMMA FrontierFollows ==
  ASSUME NEW t, NEW g, IsWellFormed(g), NEW reason \in Reasons
  PROVE  LET h == WithFrontier(g, reason)
         IN IsWellFormed(h) /\ Follows(t, g, h) /\ (IsTrue(g) => IsTrue(h))
<1> DEFINE h == WithFrontier(g, reason)
           none == {}
<1>1. IsWellFormed(h) /\ SameNodes(g, h) /\ h.edges = g.edges  BY FrontierStep
<1> HIDE DEF h
<1>2. Evolves(t, none, g, h)  BY <1>1, EvolvesBeside
<1>3. AllRetired(none, g) /\ TextsAreKnown(t, none, g)  BY DEF AllRetired, TextsAreKnown
<1> HIDE DEF none
<1>4. Follows(t, g, h)  BY <1>2, <1>3, EvolvesFollows
<1>5. IsSound(g) => IsSound(h)  BY <1>1, <1>2, <1>3, SoundStays
<1>6. \A q \in Files : IsWhole(g, q) => IsWhole(h, q)  BY <1>1, <1>2, WholeStays
<1> QED  BY <1>1, <1>4, <1>5, <1>6 DEF IsTrue, h

LEMMA RefreshedStep ==
  ASSUME NEW t \in Trees, NEW g, IsWellFormed(g), NEW k \in 0 .. Len(ToRefresh(g, t))
  PROVE  LET h == Refreshed(g, t, k)
         IN /\ IsWellFormed(h) /\ Follows(t, g, h) /\ (IsTrue(g) => IsTrue(h))
            /\ k = Len(ToRefresh(g, t)) => \A p \in Files : IsSynced(h, t, p)
<1> DEFINE paths == ToRefresh(g, t)
           some == SubSeq(paths, 1, k)
           read == RefreshAll(g, t, some)
           h == Refreshed(g, t, k)
           asked == {p \in Files : p \in Changed(t) \/ (p \in g.files /\ g.hash[p] # NoHash)}
<1>1. paths \in Seq(Files) /\ \A p \in asked : Occurs(p, paths)
  <2>1. paths = InOrder(asked)  BY DEF ToRefresh
  <2>2. asked \cap Files = asked /\ asked \subseteq Files  OBVIOUS
  <2> HIDE DEF asked, paths
  <2>3. paths \in Seq(asked) /\ \A p \in asked : Occurs(p, paths)
    <3>1. /\ InOrder(asked) \in Seq(asked \cap Files)
          /\ \A p \in asked \cap Files : Occurs(p, InOrder(asked))
      BY InOrderIs
    <3> QED  BY <2>1, <2>2, <3>1
  <2> QED  BY <2>2, <2>3
<1>2. h = IF k < Len(paths) THEN WithFrontier(read, "TIME_BUDGET") ELSE read
  BY DEF Refreshed
<1>3. k \in 0 .. Len(paths)  OBVIOUS
<1> HIDE DEF paths, h
<1>4. some \in Seq(Files) /\ (k = Len(paths) => some = paths)  BY <1>1, <1>3, PrefixOfSeq
<1> HIDE DEF some
<1>5. /\ IsWellFormed(read) /\ Follows(t, g, read) /\ (IsTrue(g) => IsTrue(read))
      /\ \A p \in Files : Occurs(p, some) => IsCurrent(t, p, read)
  BY <1>4, RefreshAllStep
<1> HIDE DEF read
<1>6. CASE k < Len(paths)
  <2>1. h = WithFrontier(read, "TIME_BUDGET") /\ "TIME_BUDGET" \in Reasons
    BY <1>2, <1>6 DEF Reasons
  <2>2. IsWellFormed(h) /\ Follows(t, read, h) /\ (IsTrue(read) => IsTrue(h))
    BY <1>5, <2>1, FrontierFollows
  <2>3. Follows(t, g, h)  BY <1>5, <2>2, FollowsOn
  <2>4. k # Len(paths)
    <3>1. Len(paths) \in Nat  BY <1>1
    <3> QED  BY <1>6, <3>1
  <2> QED  BY <1>5, <2>2, <2>3, <2>4 DEF h, paths
<1>7. CASE ~(k < Len(paths))
  <2>1. h = read /\ k = Len(paths)
    <3>1. Len(paths) \in Nat  BY <1>1
    <3> QED  BY <1>2, <1>3, <1>7, <3>1
  <2>2. ASSUME NEW p \in Files  PROVE IsSynced(read, t, p)
    <3>1. CASE p \in asked  
      <4>1. IsCurrent(t, p, read)  BY <1>1, <1>4, <1>5, <2>1, <3>1
      <4> QED  BY <4>1 DEF IsCurrent, IsSynced
    <3>2. CASE p \notin asked
      <4>1. Content[t][p] = Content[Clean][p] \/ Content[t][p] = Gone
        BY <3>2 DEF Changed
      <4>2. g.hash[p] = NoHash  BY <3>2 DEF IsWellFormed
      <4>3. read.hash[p] \in {g.hash[p], Content[t][p]}  BY <1>5 DEF Follows
      <4> QED  BY <4>1, <4>2, <4>3 DEF IsSynced
    <3> QED  BY <3>1, <3>2
  <2> QED  BY <1>5, <2>1, <2>2 DEF h, paths
<1> QED  BY <1>6, <1>7

-----------------------------------------------------------------------------
(* An expansion.                                                               *)

\* One more expansion is counted.
Counted(g) == [g EXCEPT !.expansions = @ + 1]

LEMMA CountedStep ==
  ASSUME NEW g, IsWellFormed(g)
  PROVE  LET h == Counted(g)
         IN /\ IsWellFormed(h) /\ h.expansions = g.expansions + 1
            /\ h.nodes = g.nodes /\ h.edges = g.edges /\ h.files = g.files /\ h.hash = g.hash
            /\ IsTrue(g) => IsTrue(h)
<1> DEFINE h == Counted(g)
<1>1. /\ h \in Graphs /\ h.nodes = g.nodes /\ h.edges = g.edges /\ h.files = g.files
      /\ h.hash = g.hash /\ h.frontiers = g.frontiers /\ h.expansions = g.expansions + 1
  <2>1. g \in Graphs /\ g.expansions \in Nat  BY FieldsOf DEF IsWellFormed
  <2> QED  BY <2>1 DEF Counted, Graphs
<1> HIDE DEF h
<1>2. Nodes(h) = Nodes(g)  BY <1>1 DEF Nodes
<1>3. IsWellFormed(h)  BY <1>1, <1>2 DEF IsWellFormed, NodeIsKept, EdgeIsKept
<1>4. \A p, name : Known(h, p, name) = Known(g, p, name)  BY <1>1 DEF Known
<1>5. IsSound(g) => IsSound(h)
  BY <1>1, <1>2, <1>4 DEF IsSound, TextIsKnown, CallIsKnown
<1>6. Room(h) = Room(g) /\ \A p, name : SourceNode(h, p, name) = SourceNode(g, p, name)
  BY <1>1, <1>2 DEF Room, SourceNode
<1>7. \A p, name : IsRead(g, p, name) => IsRead(h, p, name)  BY <1>1, <1>6 DEF IsRead
<1>8. \A q \in Files : IsWhole(g, q) => IsWhole(h, q)  BY <1>1, <1>6, <1>7 DEF IsWhole
<1> QED  BY <1>1, <1>3, <1>5, <1>8 DEF IsTrue, h

\* The graph grows by what is read from tree t.
Grows(t, g, h) ==
  /\ \A i \in Nodes(g) : h.nodes[i] = g.nodes[i] \/ IsReplaced(t, Files, g, h, i)
  /\ KeepsEdges(g, h)
  /\ g.files \subseteq h.files /\ (Cardinality(g.files) >= MaxFiles => h.files = g.files)
  /\ h.hash = g.hash

LEMMA EvolvesGrows ==
  ASSUME NEW t, NEW g, NEW h, Evolves(t, Files, g, h)
  PROVE  Grows(t, g, h)
BY DEF Evolves, Grows

LEMMA TrueStays ==
  ASSUME NEW t, NEW ps, NEW g, IsWellFormed(g), IsTrue(g), NEW h, IsWellFormed(h),
         Evolves(t, ps, g, h), IsSound(h)
  PROVE  IsTrue(h)
BY WholeStays DEF IsTrue

\* A frontier is recorded.
LEMMA FrontierGrows ==
  ASSUME NEW t, NEW g, IsWellFormed(g), NEW reason \in Reasons
  PROVE  LET h == WithFrontier(g, reason)
         IN /\ IsWellFormed(h) /\ Evolves(t, Files, g, h) /\ h.nodes = g.nodes
            /\ IsTrue(g) => IsTrue(h)
<1> DEFINE h == WithFrontier(g, reason)
<1>1. IsWellFormed(h) /\ SameNodes(g, h) /\ (IsTrue(g) => IsTrue(h))
  BY FrontierStep, FrontierFollows
<1> HIDE DEF h
<1>2. Evolves(t, Files, g, h)  BY <1>1, EvolvesBeside
<1> QED  BY <1>1, <1>2 DEF SameNodes, h

LEMMA ExpandedStep ==
  ASSUME NEW t \in Trees, NEW g, IsWellFormed(g), g.expansions <= MaxExpansions,
         NEW boundary, NEW asked,
         NEW k \in 0 .. Len(Calling(t, UNION {Around(g, t, boundary[j]) : j \in 1 .. asked}))
  PROVE  LET h == Expanded(g, t, boundary, asked, k)
         IN /\ IsWellFormed(h) /\ h.expansions <= MaxExpansions /\ Grows(t, g, h)
            /\ h.expansions > g.expansions \/ h.nodes = g.nodes
            /\ IsTrue(g) /\ (\A p \in Files : CanExpand(t, p, g)) => IsTrue(h)
<1> DEFINE around == UNION {Around(g, t, boundary[j]) : j \in 1 .. asked}
           cut == asked < Len(boundary) \/ \E j \in 1 .. asked : Unreadable(g, t, boundary[j])
           met == IF cut THEN WithFrontier(g, "TIME_BUDGET") ELSE g
           found == Calling(t, around)
           some == SubSeq(found, 1, k)
           read == ExpandAll(t, around, met, some)
           whole == IF k < Len(found) THEN WithFrontier(read, "TIME_BUDGET") ELSE read
           h == Expanded(g, t, boundary, asked, k)
           sound == IsTrue(g) /\ (\A p \in Files : CanExpand(t, p, g))
           readable == {p \in Files : Content[t][p] \notin {Gone, Broken}}
<1>1. h = CASE g.expansions >= MaxExpansions -> WithFrontier(g, "TIME_BUDGET")
            [] g.expansions < MaxExpansions /\ around = {} ->
                 WithFrontier(met, "SYMBOL_BUDGET")
            [] OTHER -> Counted(whole)
  BY DEF Expanded, Counted
<1>2. found \in Seq(readable)
  <2> DEFINE asking == {p \in Files : Content[t][p] \notin {Gone, Broken}
                          /\ \E d \in Range(Defs[Content[t][p]]) : Meets(d, around)}
  <2>1. found = InOrder(asking)  BY DEF Calling
  <2>2. asking \cap Files \subseteq readable  OBVIOUS
  <2> HIDE DEF asking, found, readable
  <2>3. found \in Seq(asking \cap Files)  BY <2>1, InOrderIs
  <2> QED  BY <2>2, <2>3
<1>3. "TIME_BUDGET" \in Reasons /\ "SYMBOL_BUDGET" \in Reasons  BY DEF Reasons
<1>4. k \in 0 .. Len(found)  OBVIOUS
<1>5. g.expansions \in Nat /\ MaxExpansions \in Nat  BY FieldsOf, Limits DEF IsWellFormed
<1>6. Evolves(t, Files, g, g)  BY EvolvesNot
<1> HIDE DEF around, found, h, cut
<1>7. /\ IsWellFormed(met) /\ Evolves(t, Files, g, met) /\ met.nodes = g.nodes
      /\ IsTrue(g) => IsTrue(met)
  BY <1>3, <1>6, FrontierGrows
<1> HIDE DEF met
<1>8. some \in Seq(readable)  BY <1>2, <1>4, PrefixOfSeq
<1> HIDE DEF some
<1>9. /\ IsWellFormed(read) /\ Evolves(t, Files, met, read)
      /\ IsSound(met) /\ (\A p \in Files : CanExpand(t, p, met)) => IsSound(read)
  BY <1>7, <1>8, ExpandAllStep
<1> HIDE DEF read
<1>10. Evolves(t, Files, g, read)  BY <1>7, <1>9, EvolvesOn
<1>11. sound => IsTrue(read)
  <2>1. sound => \A p \in Files : CanExpand(t, p, met)  BY <1>7, CanExpandStays
  <2>2. sound => IsTrue(met)  BY <1>7
  <2>3. sound => IsSound(read)  BY <1>9, <2>1, <2>2 DEF IsTrue
  <2> HIDE DEF sound
  <2> QED  BY <1>7, <1>9, <2>2, <2>3, TrueStays
<1> HIDE DEF sound
<1>12. IsWellFormed(whole) /\ Evolves(t, Files, g, whole) /\ (sound => IsTrue(whole))
  <2> DEFINE w == WithFrontier(read, "TIME_BUDGET")
  <2>1. IsWellFormed(w) /\ Evolves(t, Files, read, w) /\ (IsTrue(read) => IsTrue(w))
    BY <1>3, <1>9, FrontierGrows
  <2> HIDE DEF w
  <2>2. Evolves(t, Files, g, w)  BY <1>9, <1>10, <2>1, EvolvesOn
  <2>3. whole = w \/ whole = read  BY DEF w
  <2> HIDE DEF whole
  <2> QED  BY <1>9, <1>10, <1>11, <2>1, <2>2, <2>3
<1> HIDE DEF whole
<1>13. CASE g.expansions >= MaxExpansions
  <2>1. h = WithFrontier(g, "TIME_BUDGET")  BY <1>1, <1>5, <1>13
  <2>2. /\ IsWellFormed(h) /\ Evolves(t, Files, g, h) /\ h.nodes = g.nodes
        /\ IsTrue(g) => IsTrue(h)
    BY <1>3, <2>1, FrontierGrows
  <2>3. h.expansions = g.expansions  BY <2>2 DEF Evolves
  <2> QED  BY <2>2, <2>3, EvolvesGrows DEF h, sound
<1>14. CASE g.expansions < MaxExpansions /\ around = {}
  <2>1. h = WithFrontier(met, "SYMBOL_BUDGET")  BY <1>1, <1>5, <1>14
  <2>2. /\ IsWellFormed(h) /\ Evolves(t, Files, met, h) /\ h.nodes = met.nodes
        /\ IsTrue(met) => IsTrue(h)
    BY <1>3, <1>7, <2>1, FrontierGrows
  <2>3. Evolves(t, Files, g, h)  BY <1>7, <2>2, EvolvesOn
  <2>4. h.expansions = g.expansions  BY <2>3 DEF Evolves
  <2> QED  BY <1>7, <2>2, <2>3, <2>4, EvolvesGrows DEF h, sound
<1>15. CASE g.expansions < MaxExpansions /\ around # {}
  <2>1. h = Counted(whole)  BY <1>1, <1>5, <1>15
  <2>2. /\ IsWellFormed(h) /\ h.expansions = whole.expansions + 1
        /\ h.nodes = whole.nodes /\ h.edges = whole.edges /\ h.files = whole.files
        /\ h.hash = whole.hash
        /\ IsTrue(whole) => IsTrue(h)
    BY <1>12, <2>1, CountedStep
  <2>3. whole.expansions = g.expansions /\ Grows(t, g, whole)
    BY <1>12, EvolvesGrows DEF Evolves
  <2>4. Grows(t, g, h)
    BY <2>2, <2>3 DEF Grows, KeepsEdges, IsReplaced
  <2>5. h.expansions > g.expansions /\ h.expansions <= MaxExpansions
    BY <1>5, <1>15, <2>2, <2>3
  <2> QED  BY <1>12, <2>2, <2>4, <2>5 DEF h, sound
<1> QED  BY <1>5, <1>13, <1>14, <1>15

\* Where the graph is synced with a tree, the tree can be expanded, and the
\* clean tree anywhere.
LEMMA SyncedCanExpand ==
  ASSUME NEW t \in Trees, NEW g, IsTrue(g), NEW p \in Files, IsSynced(g, t, p)
  PROVE  CanExpand(t, p, g)
BY DEF IsTrue, IsSynced, CanExpand, IsReadable

LEMMA CleanCanExpand ==
  ASSUME NEW g, NEW p
  PROVE  CanExpand(Clean, p, g)
BY DEF CanExpand, IsReadable

LEMMA SyncedStays ==
  ASSUME NEW t, NEW u, NEW g, NEW h, Grows(u, g, h), NEW p, IsSynced(g, t, p)
  PROVE  IsSynced(h, t, p)
BY DEF Grows, IsSynced

-----------------------------------------------------------------------------
(* The seed.                                                                   *)

LEMMA EmptyIs ==
  /\ IsWellFormed(Empty) /\ IsTrue(Empty) /\ Empty.expansions = 0
  /\ Empty.hash = [p \in Files |-> NoHash] /\ DOMAIN Empty.edges = {}
<1> DEFINE map == [e \in {} |-> [to |-> 0, active |-> FALSE]]
           seq == <<>>
<1>1. map \in [{} -> EdgeStates] /\ {} \in SUBSET EdgeIds /\ DOMAIN map = {}  OBVIOUS
<1>2. map \in EdgeMaps  BY <1>1, EdgeMapsAre
<1>3. seq \in Seq(NodeType) /\ Len(seq) = 0  OBVIOUS
<1>4. [p \in Files |-> NoHash] \in [Files -> Contents \cup {NoHash}]  OBVIOUS
<1> HIDE DEF map, seq
<1>5. Empty = [files |-> {}, hash |-> [p \in Files |-> NoHash], nodes |-> seq,
               edges |-> map, frontiers |-> {}, expansions |-> 0]
  BY DEF Empty, map, seq
<1>6. Empty \in Graphs  BY <1>2, <1>3, <1>4, <1>5 DEF Graphs
<1>7. Nodes(Empty) = {}
  <2>1. Nodes(Empty) = 1 .. Len(seq)  BY <1>5, <1>6, FieldsOf
  <2> QED  BY <1>3, <2>1
<1>8. IsFiniteSet({}) /\ Cardinality({}) = 0  BY FS_EmptySet
<1>9. IsWellFormed(Empty)
  <2>1. Empty.files = {} /\ DOMAIN Empty.edges = {}  BY <1>1, <1>5
  <2>2. \A p \in Files : Empty.hash[p] = NoHash  BY <1>5
  <2> QED  BY <1>6, <1>7, <1>8, <2>1, <2>2, Limits DEF IsWellFormed
<1>10. IsTrue(Empty)
  <2>1. \A p \in Files : Empty.hash[p] = NoHash  BY <1>5
  <2>2. DOMAIN Empty.edges = {}  BY <1>1, <1>5
  <2> QED  BY <1>7, <2>1, <2>2 DEF IsTrue, IsSound, IsWhole
<1> QED  BY <1>1, <1>5, <1>9, <1>10

\* What is seeded: text of the clean tree, and no calls yet.
IsSeed(g) ==
  /\ IsWellFormed(g) /\ Evolves(Clean, Files, Empty, g) /\ g.edges = Empty.edges
IsSeedState(s) ==
  s \in ReadStates /\ IsSeed(s.graph) /\ AreFound(Clean, "SEED", s.graph, s.calls)

LEMMA SeedGrows ==
  ASSUME NEW g, IsSeed(g), NEW ps, ps \subseteq Files,
         NEW h, IsWellFormed(h), Evolves(Clean, ps, g, h), h.edges = g.edges
  PROVE  IsSeed(h)
<1>1. Evolves(Clean, Files, g, h)  BY EvolvesIn
<1>2. IsWellFormed(Empty) /\ IsWellFormed(g) /\ Evolves(Clean, Files, Empty, g)
  BY EmptyIs DEF IsSeed
<1>3. Evolves(Clean, Files, Empty, h)  BY <1>1, <1>2, EvolvesOn
<1> QED  BY <1>3 DEF IsSeed

LEMMA CleanTextsAreKnown ==
  ASSUME NEW g
  PROVE  /\ \A p \in Files : \A name : TextsIn(Clean, p, name) \subseteq CleanTexts(p, name)
         /\ TextsAreKnown(Clean, Files, g)
<1>1. ASSUME NEW p \in Files, NEW name
      PROVE  TextsIn(Clean, p, name) \subseteq CleanTexts(p, name)
  <2>1. CASE Content[Clean][p] \in {Gone, Broken}  BY <2>1 DEF TextsIn
  <2>2. CASE Content[Clean][p] \notin {Gone, Broken}
    BY <2>2, TextsOfTree, TreesAreGiven DEF CleanTexts
  <2> QED  BY <2>1, <2>2
<1> QED  BY <1>1 DEF TextsAreKnown, Known

\* The hinted files are admitted.
LEMMA HintedStep ==
  ASSUME NEW paths \in Seq(Files)
  PROVE  IsSeed(FoldLeft(Admit, Empty, paths))
<1> DEFINE n == Len(paths)
           A == {x \in Graphs : IsSeed(x)}
           none == {}
<1>1. paths \in Seq(Range(paths)) /\ n \in Nat /\ \A k \in 1 .. n : paths[k] \in Files
  BY SeqOfItsRange
<1>2. Empty \in A
  <2>1. Evolves(Clean, Files, Empty, Empty)  BY EmptyIs, EvolvesNot
  <2> QED  BY <2>1, EmptyIs, WellFormedFields DEF IsSeed
<1>3. ASSUME NEW x \in A, NEW k \in 1 .. n  PROVE Admit(x, paths[k]) \in A
  <2> DEFINE p == paths[k]
             h == Admit(x, p)
  <2>1. p \in Files /\ IsSeed(x) /\ IsWellFormed(x)  BY <1>1 DEF IsSeed
  <2> HIDE DEF p
  <2>2. IsWellFormed(h) /\ Evolves(Clean, none, x, h) /\ h.edges = x.edges
    BY <2>1, AdmitStep
  <2>3. none \subseteq Files  OBVIOUS
  <2> HIDE DEF h, none
  <2>4. IsSeed(h)  BY <2>1, <2>2, <2>3, SeedGrows
  <2>5. h \in Graphs  BY <2>2, WellFormedFields
  <2> QED  BY <2>4, <2>5 DEF h, p
<1>4. \A x \in A : IsSeed(x)  OBVIOUS
<1> HIDE DEF A
<1>5. MayAdmit(A, paths)  BY <1>3 DEF MayAdmit
<1>6. PICK h : RunsAdmit(h, A, Empty, paths)  BY <1>1, <1>2, <1>5, AdmitSteps
<1>7. FoldLeft(Admit, Empty, paths) \in A
  <2>1. n \in 0 .. n  BY <1>1
  <2> QED  BY <1>6, <2>1 DEF RunsAdmit
<1> QED  BY <1>4, <1>7

\* A candidate is read.
LEMMA SeedFileStep ==
  ASSUME NEW s, IsSeedState(s), NEW p \in Files
  PROVE  IsSeedState(SeedFile(s, p))
<1> DEFINE how == "SEED"
           content == Content[Clean][p]
           wanted == Related(content)
           g == s.graph
           known == Admit(g, p)
           r == Reading(how, p, wanted, known, Defs[Content[Clean][p]])
           read == r.graph
           full == Cardinality(known.files) >= MaxFiles
           new == IF full THEN WithFrontier(read, "FILE_BUDGET") ELSE read
           passed == s.full \/ content \in {Gone, Broken} \/ (p \notin Hints /\ (Wanted = {} \/ wanted = {}))
           none == {}
           one == {p}
<1>1. SeedFile(s, p) =
        IF passed THEN s
        ELSE IF p \notin known.files THEN [s EXCEPT !.graph = known]
        ELSE [graph |-> new, calls |-> s.calls \o r.calls, full |-> full]
  BY DEF SeedFile
<1>2. /\ s.graph \in Graphs /\ s.calls \in Seq(CallType) /\ s.full \in BOOLEAN
      /\ IsSeed(g) /\ IsWellFormed(g) /\ AreFound(Clean, how, g, s.calls)
      /\ s \in ReadStates
  BY DEF IsSeedState, ReadStates, IsSeed
<1>3. /\ IsWellFormed(known) /\ Evolves(Clean, none, g, known) /\ known.edges = g.edges
  BY <1>2, AdmitStep
<1>4. none \subseteq Files /\ one \subseteq Files /\ Clean \in Trees /\ how \in {"REFRESH", "SEED"}
  BY TreesAreGiven
<1>5. ~passed => Content[Clean][p] \notin {Gone, Broken}  OBVIOUS
<1> HIDE DEF wanted, known, none, passed, full
<1>6. IsSeed(known)  BY <1>2, <1>3, <1>4, SeedGrows
<1>7. AreFound(Clean, how, known, s.calls)  BY <1>2, <1>3, FoundStay
<1>8. CASE passed  BY <1>1, <1>8
<1>9. CASE ~passed /\ p \notin known.files
  <2> DEFINE x == [s EXCEPT !.graph = known]
  <2>1. SeedFile(s, p) = x  BY <1>1, <1>9
  <2>2. known \in Graphs  BY <1>3, WellFormedFields
  <2>3. x \in ReadStates /\ x.graph = known /\ x.calls = s.calls
    BY <1>2, <2>2 DEF ReadStates
  <2> QED  BY <1>6, <1>7, <2>1, <2>3 DEF IsSeedState
<1>10. CASE ~passed /\ p \in known.files
  <2>1. Reads(Clean, how, p, known, r)
    BY <1>3, <1>4, <1>5, <1>10, ReadingStep
  <2> HIDE DEF r
  <2>2. /\ r \in ReadStates /\ IsWellFormed(read) /\ Evolves(Clean, one, known, read)
        /\ read.edges = known.edges /\ AreFound(Clean, how, read, r.calls)
        /\ r.calls \in Seq(CallType)
    BY <2>1 DEF Reads, ReadStates
  <2> HIDE DEF one
  <2>3. IsSeed(read)  BY <1>4, <1>6, <2>2, SeedGrows
  <2>4. AreFound(Clean, how, read, s.calls)  BY <1>3, <1>7, <2>2, FoundStay
  <2> DEFINE calls == s.calls \o r.calls
  <2>5. calls \in Seq(CallType) /\ AreFound(Clean, how, read, calls)
    BY <1>2, <2>2, <2>4, FoundTogether
  <2> HIDE DEF calls, read
  <2>6. IsWellFormed(new) /\ IsSeed(new) /\ AreFound(Clean, how, new, calls)
    <3> DEFINE w == WithFrontier(read, "FILE_BUDGET")
               no == {}
    <3>1. "FILE_BUDGET" \in Reasons /\ no \subseteq Files  BY DEF Reasons
    <3>2. IsWellFormed(w) /\ SameNodes(read, w) /\ w.edges = read.edges
      BY <2>2, <3>1, FrontierStep
    <3> HIDE DEF w, no
    <3>3. Evolves(Clean, no, read, w)  BY <2>2, <3>2, EvolvesBeside
    <3>4. IsSeed(w)  BY <2>3, <3>1, <3>2, <3>3, SeedGrows
    <3>5. AreFound(Clean, how, w, calls)  BY <2>2, <2>5, <3>2, <3>3, FoundStay
    <3>6. new = w \/ new = read  BY DEF w
    <3> HIDE DEF new
    <3> QED  BY <2>2, <2>3, <2>5, <3>2, <3>4, <3>5, <3>6
  <2> HIDE DEF new
  <2> DEFINE x == [graph |-> new, calls |-> calls, full |-> full]
  <2>7. SeedFile(s, p) = x  BY <1>1, <1>10 DEF calls, new, read
  <2>8. new \in Graphs  BY <2>6, WellFormedFields
  <2>9. full \in BOOLEAN  BY DEF full
  <2>10. x \in ReadStates /\ x.graph = new /\ x.calls = calls
    BY <2>5, <2>8, <2>9 DEF ReadStates
  <2> QED  BY <2>6, <2>7, <2>10 DEF IsSeedState
<1> QED  BY <1>8, <1>9, <1>10

LEMMA SeedAllStep ==
  ASSUME NEW g, IsSeed(g), NEW paths \in Seq(Files)
  PROVE  IsSeedState(FoldLeft(SeedFile, FirstRead(g), paths))
<1> DEFINE n == Len(paths)
           A == {x \in ReadStates : IsSeedState(x)}
           base == FirstRead(g)
           none == <<>>
<1>1. paths \in Seq(Range(paths)) /\ n \in Nat /\ \A k \in 1 .. n : paths[k] \in Files
  BY SeqOfItsRange
<1>2. base \in A
  <2>1. base \in ReadStates /\ base.graph = g /\ base.calls = <<>>
    BY FirstReadIs, WellFormedFields DEF IsSeed
  <2>2. AreFound(Clean, "SEED", g, <<>>)  BY DEF AreFound
  <2> QED  BY <2>1, <2>2 DEF IsSeedState
<1>3. ASSUME NEW x \in A, NEW k \in 1 .. n  PROVE SeedFile(x, paths[k]) \in A
  <2> DEFINE p == paths[k]
  <2>1. p \in Files /\ IsSeedState(x)  BY <1>1
  <2> HIDE DEF p
  <2>2. IsSeedState(SeedFile(x, p))  BY <2>1, SeedFileStep
  <2> QED  BY <2>2 DEF IsSeedState, p
<1>4. \A x \in A : IsSeedState(x)  OBVIOUS
<1> HIDE DEF A, base
<1>5. MaySeed(A, paths)  BY <1>3 DEF MaySeed
<1>6. PICK h : RunsSeed(h, A, base, paths)  BY <1>1, <1>2, <1>5, SeedSteps
<1>7. FoldLeft(SeedFile, base, paths) \in A
  <2>1. n \in 0 .. n  BY <1>1
  <2> QED  BY <1>6, <2>1 DEF RunsSeed
<1> QED  BY <1>4, <1>7 DEF base

LEMMA SeedOrderType ==
  /\ InOrder(Hints) \in Seq(Files) /\ SeedOrder \in Seq(Files)
<1> DEFINE Defining == {p \in Files : Content[Clean][p] \in Contents
                          /\ \E d \in Range(Defs[Content[Clean][p]]) : d.name \in Wanted}
           first == Hints
           then == Defining \ Hints
           last == Files \ (Defining \cup Hints)
<1>1. SeedOrder = InOrder(first) \o InOrder(then) \o InOrder(last)  BY DEF SeedOrder
<1>2. \A S : InOrder(S) \in Seq(Files)
  <2> TAKE S
  <2>1. InOrder(S) \in Seq(S \cap Files)  BY InOrderIs
  <2> QED  BY <2>1
<1> HIDE DEF first, then, last
<1>3. InOrder(first) \in Seq(Files) /\ InOrder(then) \in Seq(Files) /\ InOrder(last) \in Seq(Files)
  BY <1>2
<1>4. SeedOrder \in Seq(Files)  BY <1>1, <1>3
<1> QED  BY <1>2, <1>4

LEMMA SeededStep ==
  ASSUME NEW k \in 0 .. Len(SeedOrder)
  PROVE  LET h == Seeded(k)
         IN /\ IsWellFormed(h) /\ h.expansions = 0 /\ IsTrue(h)
            /\ \A p \in Files : IsSynced(h, Clean, p)
<1> DEFINE hinted == FoldLeft(Admit, Empty, InOrder(Hints))
           some == SubSeq(SeedOrder, 1, k)
           r == FoldLeft(SeedFile, FirstRead(hinted), some)
           calls == r.calls
           read == r.graph
           whole == IF k < Len(SeedOrder) /\ ~r.full
                      THEN WithFrontier(read, "TIME_BUDGET") ELSE read
           h == Linked("SEED", whole, calls)
<1>1. Seeded(k) = h  BY DEF Seeded, FirstRead
<1>2. some \in Seq(Files)  BY SeedOrderType, PrefixOfSeq
<1>3. IsSeed(hinted)  BY SeedOrderType, HintedStep
<1> HIDE DEF hinted, some
<1>4. IsSeedState(r)  BY <1>2, <1>3, SeedAllStep
<1> HIDE DEF r
<1>5. /\ IsSeed(read) /\ IsWellFormed(read) /\ calls \in Seq(CallType)
      /\ AreFound(Clean, "SEED", read, calls)
  BY <1>4 DEF IsSeedState, IsSeed, ReadStates
<1> HIDE DEF read
<1>6. IsSeed(whole) /\ AreFound(Clean, "SEED", whole, calls)
  <2> DEFINE w == WithFrontier(read, "TIME_BUDGET")
             no == {}
  <2>1. "TIME_BUDGET" \in Reasons /\ no \subseteq Files  BY DEF Reasons
  <2>2. IsWellFormed(w) /\ SameNodes(read, w) /\ w.edges = read.edges
    BY <1>5, <2>1, FrontierStep
  <2> HIDE DEF w, no
  <2>3. Evolves(Clean, no, read, w)  BY <1>5, <2>2, EvolvesBeside
  <2>4. IsSeed(w)  BY <1>5, <2>1, <2>2, <2>3, SeedGrows
  <2>5. AreFound(Clean, "SEED", w, calls)  BY <1>5, <2>2, <2>3, FoundStay
  <2>6. whole = w \/ whole = read  BY DEF w
  <2> HIDE DEF whole
  <2> QED  BY <1>5, <2>4, <2>5, <2>6
<1> HIDE DEF whole, calls
<1>7. IsWellFormed(whole) /\ Evolves(Clean, Files, Empty, whole) /\ whole.edges = Empty.edges
  BY <1>6 DEF IsSeed
<1>8. IsSound(whole)
  <2>1. DOMAIN whole.edges = {}  BY <1>7, EmptyIs
  <2>2. IsSound(Empty) /\ IsWellFormed(Empty)  BY EmptyIs DEF IsTrue
  <2>3. TextsAreKnown(Clean, Files, Empty)  BY CleanTextsAreKnown
  <2> QED  BY <1>7, <2>1, <2>2, <2>3, SoundStays
<1>9. CanLink(whole, calls) /\ AreMade(whole, calls)
  <2> SUFFICES ASSUME NEW j \in 1 .. Len(calls)
               PROVE  SourceNode(whole, calls[j].file, calls[j].caller) # 0
                      /\ IsMade(whole, calls[j])
    BY DEF CanLink, AreMade
  <2> DEFINE call == calls[j]
             p == call.file
             name == call.caller
  <2>1. IsFound(Clean, "SEED", whole, call)  BY <1>6 DEF AreFound
  <2>2. p \in Files
    <3>1. call \in CallType  BY <1>5
    <3> QED  BY <3>1 DEF CallType
  <2> HIDE DEF call
  <2>3. SourceNode(whole, p, name) # 0 /\ CallsFrom(TextsIn(Clean, p, name), call.callee)
    BY <2>1 DEF IsFound
  <2>4. TextsIn(Clean, p, name) \subseteq CleanTexts(p, name)  BY <2>2, CleanTextsAreKnown
  <2>5. CleanTexts(p, name) \subseteq Known(whole, p, name)  BY DEF Known
  <2>6. CallsFrom(CleanTexts(p, name), call.callee)
        /\ CallsFrom(Known(whole, p, name), call.callee)
    BY <2>3, <2>4, <2>5 DEF CallsFrom
  <2> QED  BY <2>3, <2>6 DEF IsMade, call
<1>10. IsWellFormed(h) /\ SameNodes(whole, h) /\ IsSound(h)
  BY <1>5, <1>7, <1>8, <1>9, LinkedStep
<1> HIDE DEF h
<1>11. h.hash = [p \in Files |-> NoHash] /\ h.expansions = 0
  BY <1>7, <1>10, EmptyIs DEF SameNodes, Evolves
<1>12. IsTrue(h) /\ \A p \in Files : IsSynced(h, Clean, p)
  BY <1>10, <1>11 DEF IsTrue, IsWhole, IsSynced
<1> QED  BY <1>1, <1>10, <1>11, <1>12

-----------------------------------------------------------------------------
(* The inductive invariant.                                                    *)

\* As long as every refresh came to its end, the graph is true to what it has
\* read, and has read what the tree at hand says.
LayerInv ==
  /\ IsWellFormed(graph) /\ graph.expansions <= MaxExpansions
  /\ tree \in Trees /\ evaluated \subseteq Trees /\ looked \in BOOLEAN
  /\ phase \in {"top", "parent", "failing", "cut", "trial"}
  /\ looked => IsTrue(graph) /\ \A p \in Files : IsSynced(graph, tree, p)

LEMMA LayerInit == Init => LayerInv
<1> SUFFICES ASSUME Init PROVE LayerInv  OBVIOUS
<1>1. PICK k \in 0 .. Len(SeedOrder) : graph = Seeded(k)  BY DEF Init
<1>2. /\ IsWellFormed(graph) /\ graph.expansions = 0 /\ IsTrue(graph)
      /\ \A p \in Files : IsSynced(graph, Clean, p)
  BY <1>1, SeededStep
<1>3. 0 <= MaxExpansions  BY Limits
<1> QED  BY <1>2, <1>3, TreesAreGiven DEF Init, LayerInv

LEMMA ActionRefresh ==
  ASSUME LayerInv, NEW t \in Trees, Refresh(t)
  PROVE  /\ IsWellFormed(graph') /\ graph'.expansions <= MaxExpansions
         /\ tree' = t /\ looked' \in BOOLEAN
         /\ looked' => IsTrue(graph') /\ \A p \in Files : IsSynced(graph', tree', p)
         /\ Carries(graph, graph')
<1>1. PICK k \in 0 .. Len(ToRefresh(graph, t)) :
        /\ graph' = Refreshed(graph, t, k) /\ tree' = t
        /\ looked' = (looked /\ k = Len(ToRefresh(graph, t)))
  BY DEF Refresh
<1> DEFINE h == Refreshed(graph, t, k)
           whole == k = Len(ToRefresh(graph, t))
<1>2. IsWellFormed(graph)  BY DEF LayerInv
<1>3. /\ IsWellFormed(h) /\ Follows(t, graph, h) /\ (IsTrue(graph) => IsTrue(h))
      /\ whole => \A p \in Files : IsSynced(h, t, p)
  BY <1>2, RefreshedStep
<1>4. graph' = h /\ tree' = t /\ looked' = (looked /\ whole)  BY <1>1
<1> HIDE DEF h, whole
<1> QED  BY <1>3, <1>4 DEF LayerInv, Follows

LEMMA ActionExpand ==
  ASSUME LayerInv, NEW t \in {tree, Clean}, NEW boundary, Expand(t, boundary)
  PROVE  /\ IsWellFormed(graph') /\ graph'.expansions <= MaxExpansions
         /\ Grows(t, graph, graph')
         /\ graph'.expansions > graph.expansions \/ graph'.nodes = graph.nodes
         /\ looked => IsTrue(graph') /\ \A p \in Files : IsSynced(graph', tree, p)
<1>1. PICK asked \in 0 .. Len(boundary) :
        \E k \in 0 .. Len(Calling(t, UNION {Around(graph, t, boundary[j]) : j \in 1 .. asked})) :
          graph' = Expanded(graph, t, boundary, asked, k)
  BY DEF Expand
<1>2. PICK k \in 0 .. Len(Calling(t, UNION {Around(graph, t, boundary[j]) : j \in 1 .. asked})) :
        graph' = Expanded(graph, t, boundary, asked, k)
  BY <1>1
<1> DEFINE h == Expanded(graph, t, boundary, asked, k)
<1>3. t \in Trees /\ IsWellFormed(graph) /\ graph.expansions <= MaxExpansions
  BY TreesAreGiven DEF LayerInv
<1>4. /\ IsWellFormed(h) /\ h.expansions <= MaxExpansions /\ Grows(t, graph, h)
      /\ h.expansions > graph.expansions \/ h.nodes = graph.nodes
      /\ IsTrue(graph) /\ (\A p \in Files : CanExpand(t, p, graph)) => IsTrue(h)
  BY <1>3, ExpandedStep
<1>5. looked => \A p \in Files : CanExpand(t, p, graph)
  <2> SUFFICES ASSUME looked, NEW p \in Files  PROVE CanExpand(t, p, graph)  OBVIOUS
  <2>1. IsTrue(graph) /\ IsSynced(graph, tree, p)  BY DEF LayerInv
  <2>2. CASE t = tree  BY <1>3, <2>1, <2>2, SyncedCanExpand
  <2>3. CASE t = Clean  BY <2>3, CleanCanExpand
  <2> QED  BY <2>2, <2>3
<1>6. graph' = h  BY <1>2
<1> HIDE DEF h
<1>7. looked => \A p \in Files : IsSynced(h, tree, p)
  <2> SUFFICES ASSUME looked, NEW p \in Files  PROVE IsSynced(h, tree, p)  OBVIOUS
  <2>1. IsSynced(graph, tree, p)  BY DEF LayerInv
  <2> QED  BY <1>4, <2>1, SyncedStays
<1>8. looked => IsTrue(graph)  BY DEF LayerInv
<1> QED  BY <1>4, <1>5, <1>6, <1>7, <1>8

LEMMA ActionObserve ==
  ASSUME LayerInv, Observe
  PROVE  /\ IsWellFormed(graph') /\ graph'.expansions <= MaxExpansions
         /\ looked => IsTrue(graph') /\ \A p \in Files : IsSynced(graph', tree, p)
         /\ Carries(graph, graph')
<1> DEFINE n == Cardinality(Observations(graph)) + 1
           none == {}
<1>1. PICK run \in Runs(tree) : graph' = Observed(graph, n, run)  BY DEF Observe
<1> DEFINE h == Observed(graph, n, run)
<1>2. tree \in Trees /\ IsWellFormed(graph) /\ graph.expansions <= MaxExpansions
  BY DEF LayerInv
<1>3. n \in Nat
  <2> DEFINE seen == {x \in DOMAIN graph.edges : x.kind = "TRACE_REACHES"}
  <2>1. IsFiniteSet(DOMAIN graph.edges)  BY <1>2 DEF IsWellFormed
  <2>2. IsFiniteSet(seen)  BY <2>1, FS_Subset
  <2>3. Observations(graph) = {e.from : e \in seen}  BY DEF Observations
  <2> HIDE DEF seen
  <2>4. IsFiniteSet({e.from : e \in seen})
    <3> DEFINE f == [e \in seen |-> e.from]
               from == {e.from : e \in seen}
    <3>1. f \in Surjection(seen, from)  BY DEF Surjection
    <3> HIDE DEF f, from
    <3>2. IsFiniteSet(from)  BY <2>2, <3>1, FS_Surjection
    <3> QED  BY <3>2 DEF from
  <2>5. Cardinality(Observations(graph)) \in Nat  BY <2>3, <2>4, FS_CardinalityType
  <2> QED  BY <2>5
<1> HIDE DEF n
<1>4. IsWellFormed(h) /\ Evolves(tree, none, graph, h) /\ AddsNoCalls(graph, h)
  BY <1>2, <1>3, ObservedStep
<1>5. graph' = h  BY <1>1
<1>6. AllRetired(none, graph) /\ TextsAreKnown(tree, none, graph)
  BY DEF AllRetired, TextsAreKnown
<1> HIDE DEF h, none
<1>7. Carries(graph, h)  BY <1>2, <1>4, <1>6, EvolvesCarries
<1>8. IsTrue(graph) => IsTrue(h)
  <2>1. \A e \in DOMAIN h.edges :
          (e \in DOMAIN graph.edges /\ h.edges[e] = graph.edges[e]) \/ CallIsKnown(h, e)
    BY <1>4 DEF AddsNoCalls, CallIsKnown
  <2>2. IsSound(graph) => IsSound(h)  BY <1>2, <1>4, <1>6, <2>1, SoundStays
  <2> QED  BY <1>2, <1>4, <2>2, TrueStays DEF IsTrue
<1>9. h.hash = graph.hash /\ h.expansions = graph.expansions
      /\ graph.files \subseteq h.files
      /\ (Cardinality(graph.files) >= MaxFiles => h.files = graph.files)
  BY <1>4 DEF Evolves
<1>10. \A p \in Files : IsSynced(graph, tree, p) => IsSynced(h, tree, p)
  BY <1>9 DEF IsSynced
<1>11. looked => IsTrue(graph) /\ \A p \in Files : IsSynced(graph, tree, p)
  BY DEF LayerInv
<1> QED  BY <1>2, <1>4, <1>5, <1>7, <1>8, <1>9, <1>10, <1>11

LEMMA LayerNext == LayerInv /\ [Next]_vars => LayerInv'
<1> SUFFICES ASSUME LayerInv, [Next]_vars PROVE LayerInv'  OBVIOUS
<1>1. /\ tree \in Trees /\ evaluated \subseteq Trees /\ looked \in BOOLEAN
      /\ Clean \in Trees
  BY TreesAreGiven DEF LayerInv
<1>2. CASE Select
  <2>1. PICK t \in evaluated : Refresh(t)  BY <1>2 DEF Select
  <2>2. phase' = "parent" /\ evaluated' = evaluated  BY <1>2 DEF Select
  <2> QED  BY <1>1, <2>1, <2>2, ActionRefresh DEF LayerInv
<1>3. CASE ExpandParent
  <2>1. Expand(tree, AllNodes)  BY <1>3 DEF ExpandParent
  <2>2. phase' = "top" /\ tree' = tree /\ looked' = looked /\ evaluated' = evaluated
    BY <1>3 DEF ExpandParent
  <2> QED  BY <1>1, <2>1, <2>2, ActionExpand DEF LayerInv
<1>4. CASE Observe
  <2>1. phase' = "failing" /\ tree' = tree /\ looked' = looked /\ evaluated' = evaluated
    BY <1>4 DEF Observe
  <2> QED  BY <1>1, <1>4, <2>1, ActionObserve DEF LayerInv
<1>5. CASE ExpandClean
  <2>1. PICK boundary : Expand(Clean, boundary)  BY <1>5 DEF ExpandClean
  <2>2. phase' = "cut" /\ tree' = tree /\ looked' = looked /\ evaluated' = evaluated
    BY <1>5 DEF ExpandClean
  <2> QED  BY <1>1, <2>1, <2>2, ActionExpand DEF LayerInv
<1>6. CASE DeriveTrial
  <2>1. PICK t \in Trees : Refresh(t) /\ evaluated' = evaluated \cup {t}
    BY <1>6 DEF DeriveTrial
  <2>2. phase' = "trial"  BY <1>6 DEF DeriveTrial
  <2> QED  BY <1>1, <2>1, <2>2, ActionRefresh DEF LayerInv
<1>7. CASE RegisterTrial
  <2>1. Refresh(tree) /\ phase' = "top" /\ evaluated' = evaluated
    BY <1>7 DEF RegisterTrial
  <2> QED  BY <1>1, <2>1, ActionRefresh DEF LayerInv
<1>8. CASE Abandon  BY <1>8 DEF Abandon, LayerInv
<1>9. CASE UNCHANGED vars  BY <1>9 DEF vars, LayerInv
<1> QED  BY <1>2, <1>3, <1>4, <1>5, <1>6, <1>7, <1>8, <1>9 DEF Next

\* The invariant holds, of refreshes, expansions and observations in any order
\* and cut short anywhere (the loop of controller.py around the source layer).
THEOREM LayerInvHolds == Spec => []LayerInv
BY LayerInit, LayerNext, PTL DEF Spec

-----------------------------------------------------------------------------
(* What it is for.                                                             *)

\* What is known of a file the tree has is what the tree or the clean one says.
LEMMA KnownIsOfTree ==
  ASSUME NEW t \in Trees, NEW p \in Files, Content[t][p] \notin {Gone, Broken},
         NEW g, p \in g.files, IsSynced(g, t, p), NEW name
  PROVE  Known(g, p, name) \subseteq TextsIn(t, p, name) \cup TextsIn(Clean, p, name)
<1>1. CleanTexts(p, name) \subseteq TextsIn(Clean, p, name)
  BY DEF CleanTexts, Texts, TextsIn, Contents
<1>2. g.hash[p] \in {Content[t][p], NoHash}  BY DEF IsSynced
<1>3. TextsIn(t, p, name) = Texts(Content[t][p], name)  BY TextsOfTree
<1>4. Texts(NoHash, name) = {}  BY TreesAreGiven DEF Texts
<1> QED  BY <1>1, <1>2, <1>3, <1>4 DEF Known

LEMMA LayerType == LayerInv => TypeOK
<1> SUFFICES ASSUME LayerInv PROVE TypeOK  OBVIOUS
<1>1. /\ IsWellFormed(graph) /\ graph \in Graphs /\ graph.expansions <= MaxExpansions
      /\ graph.files \subseteq Files /\ graph.hash \in [Files -> Contents \cup {NoHash}]
      /\ graph.frontiers \subseteq Reasons /\ graph.expansions \in Nat
      /\ \A i \in Nodes(graph) : graph.nodes[i] \in NodeType
  BY WellFormedFields, FieldsOf DEF LayerInv
<1>2. ASSUME NEW i \in Versions
      PROVE  /\ graph.nodes[i] \in NodeType
             /\ LET of == graph.nodes[i].of
                IN of # 0 => of \in 1..(i - 1) /\ graph.nodes[of].name = graph.nodes[i].name
  <2>1. i \in Nodes(graph)  BY DEF Versions
  <2>2. NodeIsKept(graph, i)  BY <1>1, <2>1 DEF IsWellFormed
  <2> QED  BY <1>1, <2>1, <2>2 DEF NodeIsKept
<1>3. ASSUME NEW e \in DOMAIN graph.edges
      PROVE  /\ {e.to, graph.edges[e].to} \subseteq Versions
             /\ e.kind # "TRACE_REACHES" => e.from \in Versions
  <2>1. EdgeIsKept(graph, e)  BY <1>1 DEF IsWellFormed
  <2> QED  BY <2>1 DEF EdgeIsKept, Versions
<1>4. /\ Cardinality(graph.files) <= MaxFiles
      /\ Cardinality(DOMAIN graph.edges) <= MaxEdges
  BY <1>1 DEF IsWellFormed
<1>5. graph.expansions \in 0 .. MaxExpansions  BY <1>1, Limits
<1> QED  BY <1>1, <1>2, <1>3, <1>4, <1>5 DEF LayerInv, TypeOK

LEMMA LayerOfTree ==
  LayerInv => NoForeignSource /\ EditedFilesAreWhole /\ CallsAreOfThisTree
<1> SUFFICES ASSUME LayerInv, looked
             PROVE  NoForeignSource /\ EditedFilesAreWhole /\ CallsAreOfThisTree
  BY DEF NoForeignSource, EditedFilesAreWhole, CallsAreOfThisTree
<1>1. /\ IsWellFormed(graph) /\ IsSound(graph) /\ tree \in Trees
      /\ \A p \in Files : IsWhole(graph, p) /\ IsSynced(graph, tree, p)
      /\ graph.files \subseteq Files
  BY WellFormedFields, FieldsOf DEF LayerInv, IsTrue
<1>2. ASSUME NEW i \in Nodes(graph), graph.nodes[i].span # NoSpan, IsThere(graph.nodes[i].file)
      PROVE  Known(graph, graph.nodes[i].file, graph.nodes[i].name)
               \subseteq TextsIn(tree, graph.nodes[i].file, graph.nodes[i].name)
                         \cup TextsIn(Clean, graph.nodes[i].file, graph.nodes[i].name)
  <2> DEFINE p == graph.nodes[i].file
             name == graph.nodes[i].name
  <2>1. NodeIsKept(graph, i)  BY <1>1 DEF IsWellFormed
  <2>2. p \in graph.files  BY <1>2, <2>1 DEF NodeIsKept
  <2>3. Content[tree][p] \notin {Gone, Broken}  BY <1>2 DEF IsThere
  <2>4. p \in Files /\ IsSynced(graph, tree, p)  BY <1>1, <2>2
  <2> HIDE DEF p, name
  <2>5. Known(graph, p, name) \subseteq TextsIn(tree, p, name) \cup TextsIn(Clean, p, name)
    BY <1>1, <2>2, <2>3, <2>4, KnownIsOfTree
  <2> QED  BY <2>5 DEF p, name
<1>3. NoForeignSource
  <2> SUFFICES ASSUME NEW i \in Versions, Live(graph.nodes[i]), graph.nodes[i].span # NoSpan,
                      IsThere(graph.nodes[i].file)
               PROVE  graph.nodes[i].span
                        \in TextsIn(tree, graph.nodes[i].file, graph.nodes[i].name)
                            \cup TextsIn(Clean, graph.nodes[i].file, graph.nodes[i].name)
    BY DEF NoForeignSource
  <2>1. i \in Nodes(graph)  BY DEF Versions
  <2>2. graph.nodes[i].span \in Known(graph, graph.nodes[i].file, graph.nodes[i].name)
    BY <1>1, <2>1 DEF IsSound, TextIsKnown
  <2> QED  BY <1>2, <2>1, <2>2
<1>4. EditedFilesAreWhole
  <2> SUFFICES ASSUME NEW p \in graph.files, IsThere(p), graph.hash[p] # NoHash,
                      "SYMBOL_BUDGET" \notin graph.frontiers,
                      NEW d \in Range(Defs[Content[tree][p]])
               PROVE  \E i \in Versions : /\ Live(graph.nodes[i])
                            /\ graph.nodes[i].file = p /\ graph.nodes[i].name = d.name
                            /\ graph.nodes[i].span # NoSpan
    BY DEF EditedFilesAreWhole
  <2>1. IsWhole(graph, p) /\ IsSynced(graph, tree, p)  BY <1>1
  <2>2. graph.hash[p] = Content[tree][p]  BY <2>1 DEF IsSynced, IsThere
  <2>3. IsRead(graph, p, d.name)  BY <2>1, <2>2 DEF IsWhole
  <2> DEFINE i == SourceNode(graph, p, d.name)
  <2>4. i # 0 /\ Live(graph.nodes[i])  BY <2>3 DEF IsRead
  <2>5. IsSource(graph, i, p, d.name)  BY <1>1, <2>4, SourceNodeFacts, WellFormedFields
  <2> HIDE DEF i
  <2> QED  BY <2>4, <2>5 DEF IsSource, Versions
<1>5. CallsAreOfThisTree
  <2> SUFFICES ASSUME NEW e \in DOMAIN graph.edges, e.kind = "STATIC_CALLS",
                      graph.edges[e].active, Live(graph.nodes[e.from]),
                      IsThere(graph.nodes[e.from].file)
               PROVE  \E s \in TextsIn(tree, graph.nodes[e.from].file, graph.nodes[e.from].name)
                               \cup TextsIn(Clean, graph.nodes[e.from].file,
                                            graph.nodes[e.from].name) :
                        graph.nodes[e.to].name \in Range(Calls[s])
    BY DEF CallsAreOfThisTree
  <2> DEFINE i == e.from
  <2>1. EdgeIsKept(graph, e) /\ CallIsKnown(graph, e)  BY <1>1 DEF IsWellFormed, IsSound
  <2>2. i \in Nodes(graph) /\ graph.nodes[i].span # NoSpan  BY <2>1 DEF EdgeIsKept
  <2>3. CallsFrom(Known(graph, graph.nodes[i].file, graph.nodes[i].name), graph.nodes[e.to].name)
    BY <2>1 DEF CallIsKnown
  <2> HIDE DEF i
  <2>4. Known(graph, graph.nodes[i].file, graph.nodes[i].name)
          \subseteq TextsIn(tree, graph.nodes[i].file, graph.nodes[i].name)
                    \cup TextsIn(Clean, graph.nodes[i].file, graph.nodes[i].name)
    BY <1>2, <2>2 DEF i
  <2> QED  BY <2>3, <2>4 DEF CallsFrom, i
<1> QED  BY <1>3, <1>4, <1>5

\* In every state the live source layer is the source of the tree at hand or of
\* the clean one: no candidate sees the code of another, no edited file has lost
\* a function without a word, and no call is shown that no text makes
\* (refresh_checkpoint_source, seed_dynamic_graph, expand_dynamic_graph_frontier).
THEOREM SourceIsOfThisTreeHolds == Spec => []SourceIsOfThisTree
<1>1. LayerInv => SourceIsOfThisTree  BY LayerType, LayerOfTree DEF SourceIsOfThisTree
<1> QED  BY <1>1, LayerInvHolds, PTL

-----------------------------------------------------------------------------
(* Observations.                                                               *)

LEMMA CarriesKeeps ==
  ASSUME Carries(graph, graph'), NEW e \in DOMAIN graph.edges
  PROVE  Kept(e)
BY DEF Carries, Carried, Kept

LEMMA ExpandKeeps ==
  ASSUME LayerInv, NEW t \in {tree, Clean}, NEW boundary, Expand(t, boundary),
         NEW e \in DOMAIN graph.edges
  PROVE  Kept(e)
<1> DEFINE i == graph.edges[e].to
<1>1. /\ Grows(t, graph, graph')
      /\ graph'.expansions > graph.expansions \/ graph'.nodes = graph.nodes
  BY ActionExpand
<1>2. IsWellFormed(graph)  BY DEF LayerInv
<1>3. i \in Nodes(graph)  BY <1>2 DEF IsWellFormed, EdgeIsKept
<1>4. graph'.edges[e].to = i  BY <1>1 DEF Grows, KeepsEdges
<1> HIDE DEF i
<1>5. graph'.nodes[i] = graph.nodes[i] \/ IsReplaced(t, Files, graph, graph', i)
  BY <1>1, <1>3 DEF Grows
<1>6. CASE graph'.nodes[i] = graph.nodes[i]  BY <1>4, <1>6 DEF Kept, i
<1>7. CASE /\ IsReplaced(t, Files, graph, graph', i)
           /\ graph'.expansions > graph.expansions
  <2> DEFINE after == graph'.nodes[i]
  <2>1. after.span \in TextsIn(t, after.file, after.name)  BY <1>7 DEF IsReplaced
  <2>2. after.span \in TextsIn(tree, after.file, after.name)
                       \cup TextsIn(Clean, after.file, after.name)
    BY <2>1
  <2> QED  BY <1>4, <1>7, <2>2 DEF Kept
<1> QED  BY <1>1, <1>5, <1>6, <1>7

\* No step moves an observation to a text it was not made on, but for an
\* expansion, which reads the tree at hand or the clean one
\* (refresh_checkpoint_source, update_graph_from_execution).
THEOREM EvidenceKeepsItsSourceHolds == Spec => EvidenceKeepsItsSource
<1>1. ASSUME LayerInv, Next, NEW e \in DOMAIN graph.edges  PROVE Kept(e)
  <2>1. CASE Select
    <3>1. PICK t \in evaluated : Refresh(t)  BY <2>1 DEF Select
    <3>2. t \in Trees  BY <1>1 DEF LayerInv
    <3> QED  BY <1>1, <3>1, <3>2, ActionRefresh, CarriesKeeps
  <2>2. CASE ExpandParent
    <3>1. Expand(tree, AllNodes)  BY <2>2 DEF ExpandParent
    <3> QED  BY <1>1, <3>1, ExpandKeeps
  <2>3. CASE Observe  BY <1>1, <2>3, ActionObserve, CarriesKeeps
  <2>4. CASE ExpandClean
    <3>1. PICK boundary : Expand(Clean, boundary)  BY <2>4 DEF ExpandClean
    <3> QED  BY <1>1, <3>1, ExpandKeeps
  <2>5. CASE DeriveTrial
    <3>1. PICK t \in Trees : Refresh(t)  BY <2>5 DEF DeriveTrial
    <3> QED  BY <1>1, <3>1, ActionRefresh, CarriesKeeps
  <2>6. CASE RegisterTrial
    <3>1. Refresh(tree) /\ tree \in Trees  BY <1>1, <2>6 DEF RegisterTrial, LayerInv
    <3> QED  BY <1>1, <3>1, ActionRefresh, CarriesKeeps
  <2>7. CASE Abandon  BY <2>7 DEF Abandon, Kept
  <2> QED  BY <1>1, <2>1, <2>2, <2>3, <2>4, <2>5, <2>6, <2>7 DEF Next
<1>2. LayerInv /\ [Next]_vars => [\A e \in DOMAIN graph.edges : Kept(e)]_vars  BY <1>1
<1> QED  BY <1>2, LayerInvHolds, PTL DEF Spec, EvidenceKeepsItsSource
=============================================================================
