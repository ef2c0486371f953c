------------------------ MODULE EvidenceLedgerProofs ------------------------
(***************************************************************************)
(* What holds of the evidence of a case for every set of candidates, every *)
(* outcome and every bound (EvidenceLedger with TargetRecovery): checks    *)
(* are grounded in failures of the clean snapshot, no list of checks loses *)
(* one that the graph still refers to, what is persisted is what was       *)
(* observed, a certificate is a change from failing to passing for every   *)
(* hard goal, and a surviving mutant blocks as long as its check is used.  *)
(***************************************************************************)
EXTENDS EvidenceLedger, SequenceTheorems, WellFoundedInduction, TLAPS

-----------------------------------------------------------------------------
(* Induction over the naturals, by the least counterexample.               *)

\* The order of the naturals, as a set of pairs.
Less == {pair \in Nat \X Nat : pair[1] < pair[2]}

\* A set of naturals that is not empty has a least element.
LEMMA LeastNatural ==
  ASSUME NEW T \in SUBSET Nat, T # {}
  PROVE  \E n \in T : \A m \in T : n <= m
<1>1. IsWellFoundedOn(Less, Nat)
  BY NatLessThanWellFounded DEF OpToRel, Less
<1>2. PICK n \in T : \A m \in T : <<m, n>> \notin Less
  BY <1>1, WFMin
<1>3. \A m \in T : ~ (m < n)
  BY <1>2 DEF Less
<1> QED BY <1>3

-----------------------------------------------------------------------------
(* The lists of checks.                                                    *)

\* What a list holds, by the positions of the list.
LEMMA AllInSeq ==
  ASSUME NEW S, NEW s \in Seq(S)
  PROVE  /\ AllIn(s) \subseteq S
         /\ \A i \in 1 .. Len(s) : s[i] \in AllIn(s)
         /\ \A c \in AllIn(s) : \E i \in 1 .. Len(s) : s[i] = c
BY DEF AllIn

\* The empty list holds nothing.
LEMMA AllInEmpty == AllIn(<<>>) = {}
BY DEF AllIn

\* A list with one more check holds that check too, and no other.
LEMMA AllInAppend ==
  ASSUME NEW S, NEW s \in Seq(S), NEW c \in S
  PROVE  /\ Append(s, c) \in Seq(S)
         /\ AllIn(Append(s, c)) = AllIn(s) \cup {c}
<1> DEFINE t == Append(s, c)
<1>1. /\ t \in Seq(S) /\ Len(t) = Len(s) + 1
      /\ \A i \in 1 .. Len(s) : t[i] = s[i]
      /\ t[Len(s) + 1] = c
  BY AppendProperties
<1> HIDE DEF t
<1>2. /\ \A i \in 1 .. Len(t) : t[i] \in AllIn(t)
      /\ \A d \in AllIn(t) : \E i \in 1 .. Len(t) : t[i] = d
  BY <1>1, AllInSeq
<1>3. /\ \A i \in 1 .. Len(s) : s[i] \in AllIn(s)
      /\ \A d \in AllIn(s) : \E i \in 1 .. Len(s) : s[i] = d
  BY AllInSeq
<1>4. Len(s) \in Nat
  OBVIOUS
<1>5. \A d \in AllIn(t) : d \in AllIn(s) \cup {c}
  BY <1>1, <1>2, <1>3, <1>4
<1>6. \A d \in AllIn(s) \cup {c} : d \in AllIn(t)
  BY <1>1, <1>2, <1>3, <1>4
<1>7. t \in Seq(S) /\ AllIn(t) = AllIn(s) \cup {c}
  BY <1>1, <1>5, <1>6
<1> QED BY <1>7 DEF t

\* The first checks of a list are some of its checks, in their places.
LEMMA FirstOfProperties ==
  ASSUME NEW S, NEW s \in Seq(S), NEW n \in Nat
  PROVE  /\ FirstOf(s, n) \in Seq(S) /\ Len(FirstOf(s, n)) <= n
         /\ AllIn(FirstOf(s, n)) \subseteq AllIn(s)
         /\ \A i \in 1 .. Len(s) : i <= n => s[i] \in AllIn(FirstOf(s, n))
<1> DEFINE m == IF Len(s) <= n THEN Len(s) ELSE n
<1>1. m \in Nat /\ m <= Len(s) /\ m <= n
  OBVIOUS
<1>2. /\ SubSeq(s, 1, m) \in Seq(S) /\ Len(SubSeq(s, 1, m)) = m
      /\ \A i \in 1 .. m : SubSeq(s, 1, m)[i] = s[i]
  <2>1. \A i \in 1 .. m : s[i] \in S
    BY <1>1, ElementOfSeq
  <2>2. /\ SubSeq(s, 1, m) \in Seq(S)
        /\ Len(SubSeq(s, 1, m)) = IF 1 <= m THEN m - 1 + 1 ELSE 0
        /\ \A i \in 1 .. m - 1 + 1 : SubSeq(s, 1, m)[i] = s[1 + i - 1]
    BY <1>1, <2>1, SubSeqProperties
  <2> QED BY <1>1, <2>2
<1>3. FirstOf(s, n) = SubSeq(s, 1, m)
  BY DEF FirstOf
<1> HIDE DEF m
<1>4. ASSUME NEW c \in AllIn(FirstOf(s, n)) PROVE c \in AllIn(s)
  <2>1. PICK i \in 1 .. m : SubSeq(s, 1, m)[i] = c
    BY <1>2, <1>3, AllInSeq, ZenonT(60)
  <2> QED BY <2>1, <1>1, <1>2, AllInSeq
<1>5. ASSUME NEW i \in 1 .. Len(s), i <= n PROVE s[i] \in AllIn(FirstOf(s, n))
  <2>1. i \in 1 .. m
    BY <1>5 DEF m
  <2> QED BY <2>1, <1>2, <1>3, AllInSeq
<1> QED BY <1>1, <1>2, <1>3, <1>4, <1>5

\* A check placed in a dictionary takes the place of its id, or a new one.
LEMMA PlacedProperties ==
  ASSUME NEW S, NEW s \in Seq(S), NEW c \in S
  PROVE  /\ Placed(s, c) \in Seq(S)
         /\ AllIn(Placed(s, c)) \subseteq AllIn(s) \cup {c}
         /\ Len(s) <= Len(Placed(s, c)) /\ Len(Placed(s, c)) <= Len(s) + 1
         /\ \A i \in 1 .. Len(s) : Placed(s, c)[i].id = s[i].id
         /\ \E n \in 1 .. Len(Placed(s, c)) : Placed(s, c)[n].id = c.id
<1>0. Len(s) \in Nat /\ DOMAIN s = 1 .. Len(s) /\ \A i \in 1 .. Len(s) : s[i] \in S
  BY ElementOfSeq
<1>1. CASE c.id \in IdsOf(AllIn(s))
  <2> DEFINE t == [i \in DOMAIN s |-> IF s[i].id = c.id THEN c ELSE s[i]]
  <2>1. Placed(s, c) = t
    BY <1>1 DEF Placed
  <2>2. t \in [1 .. Len(s) -> S]
    BY <1>0
  <2>3. \A i \in 1 .. Len(s) : t[i] = IF s[i].id = c.id THEN c ELSE s[i]
    BY <1>0
  <2> HIDE DEF t
  <2>4. t \in Seq(S) /\ Len(t) = Len(s)
    BY <1>0, <2>2
  <2>5. PICK d \in AllIn(s) : d.id = c.id
    BY <1>1 DEF IdsOf
  <2>6. PICK n \in 1 .. Len(s) : s[n] = d
    BY <2>5, AllInSeq
  <2>7. t[n].id = c.id
    BY <2>3, <2>5, <2>6
  <2>8. AllIn(t) \subseteq AllIn(s) \cup {c}
    BY <2>3, <2>4, AllInSeq
  <2>9. \A i \in 1 .. Len(s) : t[i].id = s[i].id
    BY <2>3
  <2> QED BY <1>0, <2>1, <2>4, <2>6, <2>7, <2>8, <2>9
<1>2. CASE c.id \notin IdsOf(AllIn(s))
  <2> DEFINE t == Append(s, c)
  <2>1. Placed(s, c) = t
    BY <1>2 DEF Placed
  <2>2. t \in Seq(S) /\ AllIn(t) = AllIn(s) \cup {c}
    BY AllInAppend
  <2>3. Len(t) = Len(s) + 1 /\ t[Len(s) + 1] = c /\ \A i \in 1 .. Len(s) : t[i] = s[i]
    BY AppendProperties
  <2> HIDE DEF t
  <2>4. Len(s) + 1 \in 1 .. Len(t) /\ t[Len(s) + 1].id = c.id
    BY <1>0, <2>3
  <2> QED BY <1>0, <2>1, <2>2, <2>3, <2>4
<1> QED BY <1>1, <1>2

\* The dictionaries that ById passes through exist, whatever the length of the
\* list: the least length without them would be one more than one with them.
LEMMA ByIdExists ==
  ASSUME NEW S, NEW s \in Seq(S)
  PROVE  \E g \in [0 .. Len(s) -> Seq(S)] :
           g[0] = <<>> /\ \A i \in 1 .. Len(s) : g[i] = Placed(g[i - 1], s[i])
<1> DEFINE N == Len(s)
           Builds(g, n) == /\ g \in [0 .. n -> Seq(S)] /\ g[0] = <<>>
                           /\ \A i \in 1 .. n : g[i] = Placed(g[i - 1], s[i])
           T == {n \in 0 .. N : ~ \E g : Builds(g, n)}
<1>1. N \in Nat /\ (\A i \in 1 .. N : s[i] \in S) /\ <<>> \in Seq(S)
  BY ElementOfSeq, EmptySeq
<1>2. T = {}
  <2> SUFFICES ASSUME T # {} PROVE FALSE
    OBVIOUS
  <2>1. PICK n \in T : \A m \in T : n <= m
    <3>1. T \in SUBSET Nat
      BY <1>1
    <3> HIDE DEF T
    <3> QED BY <3>1, LeastNatural
  <2>2. n \in 0 .. N /\ ~ \E g : Builds(g, n)
    BY <2>1
  <2>3. n # 0
    <3>1. Builds([i \in 0 .. 0 |-> <<>>], 0)
      BY <1>1
    <3> QED BY <3>1, <2>2
  <2>4. n - 1 \in 0 .. N /\ n - 1 \notin T
    <3>1. n - 1 \in 0 .. N /\ ~ (n <= n - 1)
      BY <1>1, <2>2, <2>3
    <3> HIDE DEF T
    <3> QED BY <3>1, <2>1
  <2>5. PICK g : Builds(g, n - 1)
    BY <2>4
  <2> DEFINE h == [i \in 0 .. n |-> IF i = n THEN Placed(g[n - 1], s[n]) ELSE g[i]]
  <2>6. n \in 1 .. N /\ n - 1 \in 0 .. n - 1 /\ n \in 0 .. n /\ n - 1 \in 0 .. n
    BY <1>1, <2>2, <2>3
  <2>7. g[n - 1] \in Seq(S) /\ s[n] \in S
    BY <1>1, <2>5, <2>6
  <2>8. Placed(g[n - 1], s[n]) \in Seq(S)
    BY <2>7, PlacedProperties
  <2>9. h \in [0 .. n -> Seq(S)] /\ h[0] = <<>>
    BY <2>5, <2>6, <2>8
  <2>10. ASSUME NEW i \in 1 .. n PROVE h[i] = Placed(h[i - 1], s[i])
    <3>1. i \in 0 .. n /\ i - 1 \in 0 .. n /\ i - 1 # n /\ h[i - 1] = g[i - 1]
      BY <2>6
    <3>2. CASE i = n
      BY <3>1, <3>2
    <3>3. CASE i # n
      <4>1. i \in 1 .. n - 1 /\ h[i] = g[i]
        BY <3>1, <3>3, <2>6
      <4> QED BY <4>1, <3>1, <2>5
    <3> QED BY <3>2, <3>3
  <2>11. Builds(h, n)
    BY <2>9, <2>10
  <2> QED BY <2>11, <2>2
<1>3. N \in 0 .. N
  BY <1>1
<1>4. PICK g : Builds(g, N)
  BY <1>2, <1>3
<1> QED BY <1>4

\* A dictionary holds nothing its list does not, and the first k checks of the
\* list, or others of their ids, are among its first k.
LEMMA ByIdProperties ==
  ASSUME NEW S, NEW s \in Seq(S), NEW k \in Nat
  PROVE  /\ ById(s) \in Seq(S)
         /\ AllIn(ById(s)) \subseteq AllIn(s)
         /\ \A m \in 1 .. Len(s) : m <= k =>
              \E n \in 1 .. Len(ById(s)) : n <= k /\ ById(s)[n].id = s[m].id
<1> DEFINE N == Len(s)
           Body(g) == [i \in 0 .. N |-> IF i = 0 THEN <<>> ELSE Placed(g[i - 1], s[i])]
           built == CHOOSE g : g = Body(g)
           Has(t, m) == \E n \in 1 .. Len(t) : n <= k /\ t[n].id = s[m].id
           Good(i) == /\ built[i] \in Seq(S) /\ Len(built[i]) <= i
                      /\ AllIn(built[i]) \subseteq AllIn(s)
                      /\ \A m \in 1 .. i : m <= k => Has(built[i], m)
           T == {i \in 0 .. N : ~ Good(i)}
<1>1. N \in Nat /\ \A i \in 1 .. N : s[i] \in S /\ s[i] \in AllIn(s)
  BY ElementOfSeq, AllInSeq
<1>2. \E g : g = Body(g)
  <2>1. PICK g \in [0 .. N -> Seq(S)] :
          g[0] = <<>> /\ \A i \in 1 .. N : g[i] = Placed(g[i - 1], s[i])
    BY ByIdExists
  <2>2. \A i \in 0 .. N : g[i] = IF i = 0 THEN <<>> ELSE Placed(g[i - 1], s[i])
    BY <2>1, <1>1
  <2>3. g = [i \in 0 .. N |-> g[i]]
    BY <2>1
  <2> QED BY <2>2, <2>3
<1>3. built = Body(built)
  BY <1>2
<1>4. ById(s) = built[N]
  BY DEF ById
<1> HIDE DEF built
<1>5. \A i \in 0 .. N : built[i] = IF i = 0 THEN <<>> ELSE Placed(built[i - 1], s[i])
  BY <1>3
<1>6. T = {}
  <2> SUFFICES ASSUME T # {} PROVE FALSE
    OBVIOUS
  <2>1. PICK n \in T : \A m \in T : n <= m
    <3>1. T \in SUBSET Nat
      BY <1>1
    <3> HIDE DEF T
    <3> QED BY <3>1, LeastNatural
  <2>2. n \in 0 .. N /\ ~ Good(n)
    BY <2>1
  <2>3. n # 0
    <3>1. built[0] = <<>>
      BY <1>1, <1>5
    <3>2. <<>> \in Seq(S) /\ Len(<<>>) <= 0 /\ AllIn(<<>>) = {}
      BY EmptySeq, AllInEmpty
    <3>3. Good(0)
      BY <3>1, <3>2
    <3> QED BY <3>3, <2>2
  <2>4. n - 1 \in 0 .. N /\ n - 1 \notin T /\ n \in 1 .. N
    <3>1. n - 1 \in 0 .. N /\ ~ (n <= n - 1) /\ n \in 1 .. N
      BY <1>1, <2>2, <2>3
    <3> HIDE DEF T
    <3> QED BY <3>1, <2>1
  <2>5. Good(n - 1)
    BY <2>4
  <2> DEFINE before == built[n - 1]
             after == built[n]
             c == s[n]
  <2>6. after = Placed(before, c) /\ c \in S /\ c \in AllIn(s)
    BY <1>1, <1>5, <2>3, <2>4
  <2>7. /\ before \in Seq(S) /\ Len(before) <= n - 1 /\ AllIn(before) \subseteq AllIn(s)
        /\ \A m \in 1 .. n - 1 : m <= k => Has(before, m)
    BY <2>5
  <2> HIDE DEF before, after, Good, T
  <2>8. /\ after \in Seq(S)
        /\ AllIn(after) \subseteq AllIn(before) \cup {c}
        /\ Len(before) <= Len(after) /\ Len(after) <= Len(before) + 1
        /\ \A i \in 1 .. Len(before) : after[i].id = before[i].id
        /\ \E i \in 1 .. Len(after) : after[i].id = c.id
    <3> HIDE DEF c
    <3>1. \A t \in Seq(S), d \in S :
            /\ Placed(t, d) \in Seq(S)
            /\ AllIn(Placed(t, d)) \subseteq AllIn(t) \cup {d}
            /\ Len(t) <= Len(Placed(t, d)) /\ Len(Placed(t, d)) <= Len(t) + 1
            /\ \A i \in 1 .. Len(t) : Placed(t, d)[i].id = t[i].id
            /\ \E i \in 1 .. Len(Placed(t, d)) : Placed(t, d)[i].id = d.id
      BY PlacedProperties
    <3>2. before \in Seq(S) /\ c \in S
      BY <2>6, <2>7
    <3>3. /\ Placed(before, c) \in Seq(S)
          /\ AllIn(Placed(before, c)) \subseteq AllIn(before) \cup {c}
          /\ Len(before) <= Len(Placed(before, c)) /\ Len(Placed(before, c)) <= Len(before) + 1
          /\ \A i \in 1 .. Len(before) : Placed(before, c)[i].id = before[i].id
          /\ \E i \in 1 .. Len(Placed(before, c)) : Placed(before, c)[i].id = c.id
      BY <3>1, <3>2, Zenon
    <3>4. after = Placed(before, c)
      BY <2>6
    <3> QED BY <3>3, <3>4
  <2>9. Len(before) \in Nat /\ Len(after) \in Nat /\ n \in Nat /\ Len(after) <= n
    BY <1>1, <2>4, <2>7, <2>8
  <2>10. ASSUME NEW m \in 1 .. n, m <= k PROVE Has(after, m)
    <3>1. CASE m = n
      <4>1. PICK i \in 1 .. Len(after) : after[i].id = c.id
        BY <2>8
      <4>2. i <= k
        BY <2>9, <2>10, <3>1, <4>1
      <4> QED BY <3>1, <4>1, <4>2
    <3>2. CASE m # n
      <4>1. m \in 1 .. n - 1
        BY <2>9, <3>2
      <4>2. PICK i \in 1 .. Len(before) : i <= k /\ before[i].id = s[m].id
        BY <2>7, <2>10, <4>1
      <4>3. i \in 1 .. Len(after) /\ after[i].id = s[m].id
        BY <2>8, <2>9, <4>2
      <4> QED BY <4>2, <4>3
    <3> QED BY <3>1, <3>2
  <2>11. AllIn(after) \subseteq AllIn(s)
    BY <2>6, <2>7, <2>8
  <2>12. Good(n)
    <3> HIDE DEF Has
    <3>1. \A m \in 1 .. n : m <= k => Has(after, m)
      BY <2>10
    <3> QED BY <2>8, <2>9, <2>11, <3>1 DEF Good, after
  <2> QED BY <2>12, <2>2
<1>7. Good(N)
  BY <1>1, <1>6
<1> HIDE DEF N
<1> QED BY <1>4, <1>7 DEF N

\* Candidates keep the order of their list and carry its name.
LEMMA FromProperties ==
  ASSUME NEW S, NEW s \in Seq(S), NEW list
  PROVE  From(list, s) \in Seq([list : {list}, check : S])
<1>1. s \in [1 .. Len(s) -> S] /\ Len(s) \in Nat /\ DOMAIN s = 1 .. Len(s)
  BY LenProperties
<1>2. From(list, s) \in [1 .. Len(s) -> [list : {list}, check : S]]
  BY <1>1 DEF From
<1>3. \A R, n \in Nat : \A f \in [1 .. n -> R] : f \in Seq(R)
  OBVIOUS
<1> DEFINE R == [list : {list}, check : S]
<1>4. \E f, n : n \in Nat /\ f \in [1 .. n -> R] /\ f = From(list, s)
  BY <1>1, <1>2
<1> HIDE DEF R
<1>5. From(list, s) \in Seq(R)
  BY <1>3, <1>4
<1> QED BY <1>5 DEF R

\* A list whose members are in T is a list over T.
LEMMA SeqOfMembers ==
  ASSUME NEW S, NEW T, NEW s \in Seq(S), \A i \in 1 .. Len(s) : s[i] \in T
  PROVE  s \in Seq(T)
<1>1. s \in [1 .. Len(s) -> S] /\ Len(s) \in Nat
  BY LenProperties
<1>2. s \in [1 .. Len(s) -> T]
  BY <1>1
<1> QED BY <1>1, <1>2

-----------------------------------------------------------------------------
(* The inductive invariant of the recovery calls.                          *)

\* Candidates with the list they come from, samples and probes.
Items == [list : {"witness", "facet", "public", "contract"}, check : AllChecks]
Samples == {"violates", "meets"}
Probes == [contract : Contracts, clean : Seq(Samples), working : Nat,
           cleanTries : Nat, workingTries : Nat]

\* A probe stays within the number of its runs and of its attempts.
Bounded(p) ==
  /\ Len(p.clean) <= StabilityRuns /\ p.working <= StabilityRuns
  /\ p.cleanTries <= AttemptLimit /\ p.workingTries <= AttemptLimit

\* The lists of a call hold checks, in their order (TypeOK only says which).
CallType ==
  /\ stage \in {"idle", "classify", "agent", "promote", "exhausted"}
  /\ quota \in 1 .. MaxProbes /\ transport \in BOOLEAN /\ review \in BOOLEAN
  /\ queue \in Seq(Items)
  /\ found \in Seq(AllChecks) /\ kept \subseteq AllChecks
  /\ baseline \subseteq AllChecks \X Outcomes

\* The conversation of a call.
AgentType ==
  /\ probes \in Seq(Probes) /\ Len(probes) <= quota
  /\ \A i \in 1 .. Len(probes) : Bounded(probes[i])
  /\ stage = "idle" => probes = <<>>
  /\ turns \in 0 .. MaxTurns
  /\ promoting \in Nat \ {0}

\* What the calls leave in the state of the case.
CaseType ==
  /\ recovered \in Nat
  /\ targetChecks \in Seq(AllChecks) /\ preservationChecks \subseteq AllChecks
  /\ executable \subseteq Ids

\* A check that may judge a patch: of a goal, and failed by the snapshot.
IsGrounded(runs, c) == c.trusted /\ c.goal \in Goals /\ Grounds(c) \cap runs # {}
\* A check that must go on passing: the snapshot passed it.
IsPreserved(runs, c) == c.trusted /\ <<c, "PASS">> \in runs

\* A facet waits to be run only after its witness failed on the snapshot.
FacetIsGrounded(runs, c) ==
  \E w \in AllIn(IssueWitnesses) : c \in AllIn(Facets[w.name]) /\ <<w, "FAIL">> \in runs

\* A candidate is named after the list it comes from.
ItemIsKnown(runs, item) ==
  /\ item.list = "witness" => item.check \in AllIn(IssueWitnesses)
  /\ item.list = "facet" => FacetIsGrounded(runs, item.check)

\* Not only the checks of the case are grounded, those of the call at hand are.
CallIsGrounded ==
  /\ \A c \in AllIn(found) : IsGrounded(baseline, c)
  /\ \A c \in kept : IsPreserved(baseline, c)
  /\ \A i \in 1 .. Len(queue) : ItemIsKnown(baseline, queue[i])

-----------------------------------------------------------------------------
(* The inductive invariant of the ledger.                                  *)

\* Results of checks.
ResultType == [phase : {"none", "PARENT", "PARENT_CHALLENGE", "TRIAL"}, status : Statuses,
               held : BOOLEAN]
Records == [Ids -> ResultType]

\* The state of the case has its types, and the case has not crashed.
LedgerType ==
  /\ at \in {"pre", "p0", "head", "parent", "again", "refreshed", "open", "audited",
             "certified", "exhausted", "sealed", "refused", "lost"}
  /\ working \in Checkpoints /\ final \in Checkpoints
  /\ status \in [Checkpoints -> {"none", "OPEN", "REJECTED", "CERTIFIED"}]
  /\ challengeChecks \subseteq Challenges
  /\ results \in Records /\ record \in [Checkpoints -> Records]
  /\ audits \in [Checkpoints -> [AllChecks -> {"none", "SURVIVOR", "DISCRIMINATES"}]]

\* Where the loop of the case is decides how many calls there have been and
\* whether one is under way.
CallsAreCounted ==
  /\ at = "pre" => recovered <= 1 /\ (stage # "idle" => recovered = 0)
  /\ at = "p0" => recovered \in 1 .. 2 /\ (stage # "idle" => recovered = 1)
  /\ at = "head" => recovered >= 2 /\ (stage # "idle" => recovered < 2 + TargetRecoveryAttempts)
  /\ at \in {"parent", "again", "refreshed", "open", "audited", "certified"} =>
       recovered >= 2 /\ stage = "idle"
  /\ at \in {"exhausted", "sealed", "refused", "lost"} => stage \in {"idle", "exhausted"}
  /\ recovered <= 2 + TargetRecoveryAttempts

\* An id keeps its place: nothing runs before the list of targets is cut to its
\* length for good, and from then on no id leaves it.
HandlesAreKept ==
  /\ executable \subseteq IdsOf(StateChecks)
  /\ at \in {"pre", "p0"} => executable = {}
  /\ recovered >= 2 => Len(targetChecks) <= MaxProbes

\* Results that are not persisted yet are those of the last execution.
ResultsAreHeld == \A id \in Ids : results[id].held

\* A surviving mutant belongs to a check of a hard goal.
SurvivorsAreHard ==
  \A p \in Checkpoints, c \in AllChecks :
    audits[p][c] = "SURVIVOR" => c.goal \in HardGoals /\ c \in Mutable

\* The invariant of the recovery calls.
RecoveryInv ==
  CallType /\ AgentType /\ CaseType /\ ChecksAreGrounded /\ CallIsGrounded

\* The inductive invariant of the case.
Inv ==
  /\ RecoveryInv
  /\ LedgerType /\ CallsAreCounted /\ HandlesAreKept
  /\ ResultsAreHeld /\ EvidenceIsWhole
  /\ SurvivorsAreHard /\ ReachedIsFailToPass

-----------------------------------------------------------------------------
(* Each step of a recovery call.                                           *)

\* The lists of the constants hold checks.
LEMMA ListsHoldChecks ==
  /\ IssueWitnesses \in Seq(AllChecks) /\ PublicCandidates \in Seq(AllChecks)
  /\ ContractRecords \in Seq(AllChecks)
  /\ AgentChecks \subseteq AllChecks
  /\ \A w \in AllIn(IssueWitnesses) : Facets[w.name] \in Seq(AllChecks)
  /\ \A w \in AllIn(IssueWitnesses) : \A c \in AllIn(Facets[w.name]) : c.goal \in Goals /\ c.trusted
<1>1. \A w \in AllIn(IssueWitnesses) : w.name \in DOMAIN Facets
  BY RecoveryLists
<1>2. \A w \in AllIn(IssueWitnesses) : Facets[w.name] \in Seq(AllChecks)
  BY <1>1, RecoveryLists
<1>3. \A w \in AllIn(IssueWitnesses) : \A c \in AllIn(Facets[w.name]) : c.goal \in Goals /\ c.trusted
  BY <1>1, RecoveryChecks DEF FacetChecks
<1>4. AgentChecks \subseteq AllChecks
  BY DEF AllChecks
<1> QED BY <1>2, <1>3, <1>4, RecoveryLists

\* The bounds are numbers.
LEMMA Bounds ==
  /\ MaxProbes \in Nat \ {0} /\ StabilityRuns \in Nat \ {0} /\ MaxTurns \in Nat \ {0}
  /\ CandidateAllowance \in Nat /\ TargetRecoveryAttempts \in Nat
  /\ AttemptLimit \in Nat
BY RecoveryBounds DEF AttemptLimit

\* A case starts with nothing recovered.
LEMMA InitRecoveryEstablishes ==
  ASSUME InitRecovery PROVE RecoveryInv
<1> USE DEF InitRecovery
<1>1. CallType
  <2>1. \A S : <<>> \in Seq(S)
    BY EmptySeq
  <2>2. queue \in Seq(Items) /\ found \in Seq(AllChecks)
    BY <2>1
  <2>3. quota \in 1 .. MaxProbes
    BY Bounds
  <2> QED BY <2>2, <2>3 DEF CallType
<1>2. AgentType
  BY Bounds DEF AgentType
<1>3. CaseType
  BY DEF CaseType
<1>4. ChecksAreGrounded /\ CallIsGrounded
  BY AllInEmpty DEF ChecksAreGrounded, CallIsGrounded
<1> QED BY <1>1, <1>2, <1>3, <1>4 DEF RecoveryInv

\* Grounds are runs that have been seen: more runs leave them standing.
LEMMA GroundsStand ==
  ASSUME baseline \subseteq baseline'
  PROVE  /\ \A c : IsGrounded(baseline, c) => IsGrounded(baseline', c)
         /\ \A c : IsPreserved(baseline, c) => IsPreserved(baseline', c)
         /\ \A c : FacetIsGrounded(baseline, c) => FacetIsGrounded(baseline', c)
         /\ \A item : ItemIsKnown(baseline, item) => ItemIsKnown(baseline', item)
BY DEF IsGrounded, IsPreserved, FacetIsGrounded, ItemIsKnown

\* The invariant in the words of the predicates on single checks.
LEMMA GroundedInWords ==
  /\ ChecksAreGrounded <=> /\ \A c \in AllIn(targetChecks) : IsGrounded(baseline, c)
                           /\ \A c \in preservationChecks : IsPreserved(baseline, c)
  /\ ChecksAreGrounded' <=> /\ \A c \in AllIn(targetChecks') : IsGrounded(baseline', c)
                            /\ \A c \in preservationChecks' : IsPreserved(baseline', c)
BY DEF ChecksAreGrounded, IsGrounded, IsPreserved

\* The conversation and the promotion of probes that come to nothing leave
\* what was found alone.
LEMMA TalkChangesNothing ==
  ASSUME RecoveryInv, UNCHANGED <<recovered, call, baseline, lists, executable>>,
         stage' \in {"idle", "classify", "agent", "promote", "exhausted"}
  PROVE  CallType' /\ CaseType' /\ ChecksAreGrounded' /\ CallIsGrounded'
<1> USE DEF RecoveryInv, call, lists
<1>1. CallType' /\ CaseType'
  BY DEF CallType, CaseType
<1>2. ChecksAreGrounded' /\ CallIsGrounded'
  BY DEF ChecksAreGrounded, CallIsGrounded, IsGrounded, IsPreserved, ItemIsKnown, FacetIsGrounded
<1> QED BY <1>1, <1>2

\* A call starts on candidates none of which is a facet.
LEMMA BeginKeeps ==
  ASSUME RecoveryInv,
         NEW limit \in 1 .. MaxProbes, NEW allowance \in Nat, NEW public \in Seq(AllChecks),
         NEW withAgent \in BOOLEAN, NEW reviewed \in BOOLEAN,
         Begin(limit, allowance, public, withAgent, reviewed)
  PROVE  RecoveryInv'
<1> USE DEF RecoveryInv, Begin, lists, agent
<1> DEFINE Plain == {item \in Items : /\ item.list # "facet"
                                      /\ item.list = "witness" => item.check \in AllIn(IssueWitnesses)}
<1>1. queue' \in Seq(Plain)
  <2>1. IssueWitnesses \in Seq(AllIn(IssueWitnesses)) /\ AllIn(IssueWitnesses) \subseteq AllChecks
    <3>1. \A i \in 1 .. Len(IssueWitnesses) : IssueWitnesses[i] \in AllIn(IssueWitnesses)
      BY ListsHoldChecks, AllInSeq
    <3> QED BY <3>1, ListsHoldChecks, SeqOfMembers, AllInSeq
  <2>2. /\ From("witness", IssueWitnesses) \in Seq([list : {"witness"}, check : AllIn(IssueWitnesses)])
        /\ From("contract", ContractRecords) \in Seq([list : {"contract"}, check : AllChecks])
    BY <2>1, ListsHoldChecks, FromProperties
  <2>3. limit + allowance \in Nat
    BY Bounds
  <2>4. FirstOf(public, limit + allowance) \in Seq(AllChecks)
    BY <2>3, FirstOfProperties
  <2>5. From("public", FirstOf(public, limit + allowance)) \in Seq([list : {"public"}, check : AllChecks])
    BY <2>4, FromProperties
  <2>6. /\ [list : {"witness"}, check : AllIn(IssueWitnesses)] \subseteq Plain
        /\ \A list \in {"public", "contract"} : [list : {list}, check : AllChecks] \subseteq Plain
    BY <2>1 DEF Items
  <2>7. /\ From("witness", IssueWitnesses) \in Seq(Plain)
        /\ From("public", FirstOf(public, limit + allowance)) \in Seq(Plain)
        /\ From("contract", ContractRecords) \in Seq(Plain)
    BY <2>2, <2>5, <2>6, SeqMonotonic, ZenonT(60)
  <2> HIDE DEF Plain
  <2>8. \A s \in Seq(Plain), t \in Seq(Plain) : s \o t \in Seq(Plain)
    BY ConcatProperties
  <2>9. queue' = From("witness", IssueWitnesses)
                   \o From("public", FirstOf(public, limit + allowance))
                   \o From("contract", ContractRecords)
    OBVIOUS
  <2> QED BY <2>7, <2>8, <2>9
<1>2. queue' \in Seq(Items) /\ \A i \in 1 .. Len(queue') : queue'[i] \in Plain
  <2>1. Plain \subseteq Items /\ \A i \in 1 .. Len(queue') : queue'[i] \in Plain
    BY <1>1, ElementOfSeq
  <2> QED BY <1>1, <2>1, SeqMonotonic
<1>3. CallType'
  BY <1>2 DEF CallType
<1>4. AgentType'
  BY Bounds DEF AgentType
<1>5. CaseType'
  BY DEF CaseType
<1>6. \A i \in 1 .. Len(queue') : ItemIsKnown(baseline', queue'[i])
  <2>1. \A item \in Plain : ItemIsKnown(baseline', item)
    <3> HIDE DEF RecoveryInv, Begin
    <3> SUFFICES ASSUME NEW item \in Plain PROVE ItemIsKnown(baseline', item)
      OBVIOUS
    <3>1. item.list # "facet" /\ (item.list = "witness" => item.check \in AllIn(IssueWitnesses))
      OBVIOUS
    <3> QED BY <3>1, Zenon DEF ItemIsKnown
  <2> HIDE DEF Plain
  <2> QED BY <1>2, <2>1
<1>7. ChecksAreGrounded' /\ CallIsGrounded'
  <2>1. UNCHANGED <<baseline, found, kept, targetChecks, preservationChecks>>
    OBVIOUS
  <2> QED BY <1>6, <2>1, GroundedInWords DEF CallIsGrounded
<1> QED BY <1>3, <1>4, <1>5, <1>7

\* A probe is replaced by one within its bounds.
LEMMA ProbeReplaced ==
  ASSUME NEW s \in Seq(Probes), \A i \in 1 .. Len(s) : Bounded(s[i]),
         NEW i \in 1 .. Len(s), NEW p \in Probes, Bounded(p)
  PROVE  /\ [s EXCEPT ![i] = p] \in Seq(Probes) /\ Len([s EXCEPT ![i] = p]) = Len(s)
         /\ \A j \in 1 .. Len(s) : Bounded([s EXCEPT ![i] = p][j])
<1>1. /\ [s EXCEPT ![i] = p] \in Seq(Probes) /\ Len([s EXCEPT ![i] = p]) = Len(s)
      /\ \A j \in 1 .. Len(s) : [s EXCEPT ![i] = p][j] = IF j = i THEN p ELSE s[j]
  BY ExceptSeq
<1>2. \A j \in 1 .. Len(s) : Bounded([s EXCEPT ![i] = p][j])
  BY <1>1
<1> QED BY <1>1, <1>2

\* Turns that write, register or run a probe.
LEMMA WriteProbeKeeps ==
  ASSUME RecoveryInv, WriteProbe PROVE RecoveryInv'
<1> USE DEF RecoveryInv, WriteProbe, InTurn, Turn, unchangedByTurn
<1>1. CallType' /\ CaseType' /\ ChecksAreGrounded' /\ CallIsGrounded'
  BY TalkChangesNothing
<1>2. NewProbe \in Probes /\ Bounded(NewProbe)
  <2>1. <<>> \in Seq(Samples) /\ Len(<<>>) = 0
    BY EmptySeq
  <2> QED BY <2>1, Bounds DEF NewProbe, Probes, Bounded, Contracts
<1>3. /\ probes' \in Seq(Probes) /\ Len(probes') = Len(probes) + 1
      /\ \A i \in 1 .. Len(probes) : probes'[i] = probes[i]
      /\ probes'[Len(probes) + 1] = NewProbe
  BY <1>2, AppendProperties DEF AgentType
<1>4. Len(probes) \in Nat /\ quota \in Nat
  BY DEF AgentType, CallType
<1>5. \A i \in 1 .. Len(probes') : Bounded(probes'[i])
  <2> TAKE i \in 1 .. Len(probes')
  <2>1. CASE i = Len(probes) + 1
    BY <2>1, <1>2, <1>3
  <2>2. CASE i \in 1 .. Len(probes)
    BY <2>2, <1>3 DEF AgentType
  <2> QED BY <2>1, <2>2, <1>3, <1>4
<1>6. AgentType'
  BY <1>3, <1>4, <1>5, Bounds DEF AgentType, call
<1> QED BY <1>1, <1>6

\* What replacing one probe within its bounds leaves of the conversation.
LEMMA ProbeTurnKeeps ==
  ASSUME RecoveryInv, stage = "agent", stage' = stage, Turn, turns < MaxTurns,
         UNCHANGED unchangedByTurn,
         NEW i \in DOMAIN probes, NEW p \in Probes, Bounded(p),
         probes' = [probes EXCEPT ![i] = p]
  PROVE  RecoveryInv'
<1> USE DEF RecoveryInv, Turn, unchangedByTurn
<1>1. CallType' /\ CaseType' /\ ChecksAreGrounded' /\ CallIsGrounded'
  BY TalkChangesNothing
<1>2. i \in 1 .. Len(probes)
  BY DEF AgentType
<1>3. /\ probes' \in Seq(Probes) /\ Len(probes') = Len(probes)
      /\ \A j \in 1 .. Len(probes) : Bounded(probes'[j])
  BY <1>2, ProbeReplaced DEF AgentType
<1>4. AgentType'
  BY <1>3, Bounds DEF AgentType, call
<1> QED BY <1>1, <1>4

\* A contract, also one that replaces another, leaves the runs of the probe.
LEMMA RegisterContractKeeps ==
  ASSUME RecoveryInv, RegisterContract PROVE RecoveryInv'
<1> USE DEF RegisterContract, InTurn
<1>1. PICK i \in DOMAIN probes, contract \in Contracts \ {"none"} :
        probes' = [probes EXCEPT ![i].contract = contract]
  OBVIOUS
<1> DEFINE p == [probes[i] EXCEPT !.contract = contract]
<1>2. probes[i] \in Probes /\ Bounded(probes[i])
  <2>1. i \in 1 .. Len(probes)
    BY DEF RecoveryInv, AgentType
  <2> QED BY <2>1, ElementOfSeq DEF RecoveryInv, AgentType
<1>3. p \in Probes /\ Bounded(p)
  BY <1>2 DEF Probes, Bounded
<1>4. probes' = [probes EXCEPT ![i] = p]
  BY <1>1
<1> HIDE DEF p
<1> QED BY <1>1, <1>3, <1>4, ProbeTurnKeeps

\* The fields that a run of a probe writes.
LEMMA ProbeFields ==
  ASSUME NEW q \in Probes, NEW clean \in Seq(Samples), NEW runs \in Nat, NEW tries \in Nat
  PROVE  /\ [q EXCEPT !.cleanTries = tries, !.clean = clean] \in Probes
         /\ [q EXCEPT !.workingTries = tries, !.working = runs] \in Probes
BY DEF Probes

\* A run on the clean snapshot stays within the bounds of its probe.
LEMMA RunProbeOnCleanKeeps ==
  ASSUME RecoveryInv, RunProbeOnClean PROVE RecoveryInv'
<1> USE DEF RunProbeOnClean, InTurn
<1>1. PICK i \in DOMAIN probes, sample \in {<<>>, <<"violates">>, <<"meets">>} :
        /\ MayRun(Len(probes[i].clean), probes[i].cleanTries)
        /\ probes' = [probes EXCEPT ![i].cleanTries = @ + 1, ![i].clean = @ \o sample]
  OBVIOUS
<1> DEFINE q == probes[i]
           clean == q.clean \o sample
           p == [q EXCEPT !.cleanTries = q.cleanTries + 1, !.clean = clean]
<1>2. q \in Probes /\ Bounded(q)
  <2>1. i \in 1 .. Len(probes)
    BY DEF RecoveryInv, AgentType
  <2> QED BY <2>1, ElementOfSeq DEF RecoveryInv, AgentType
<1>3. sample \in Seq(Samples) /\ Len(sample) <= 1
  <2>1. CASE sample = <<>>
    BY <2>1, EmptySeq
  <2>2. CASE sample = <<"violates">>
    BY <2>2 DEF Samples
  <2>3. CASE sample = <<"meets">>
    BY <2>3 DEF Samples
  <2> QED BY <2>1, <2>2, <2>3
<1>4. clean \in Seq(Samples) /\ Len(clean) = Len(q.clean) + Len(sample)
  BY <1>2, <1>3, ConcatProperties DEF Probes
<1>5. /\ q.cleanTries + 1 \in Nat /\ q.cleanTries \in Nat
      /\ Len(q.clean) \in Nat /\ Len(sample) \in Nat
  BY <1>2, <1>3 DEF Probes
<1>6. probes' = [probes EXCEPT ![i] = p]
  BY <1>1, <1>2 DEF Probes
<1>7. /\ p.clean = clean /\ p.cleanTries = q.cleanTries + 1
      /\ p.working = q.working /\ p.workingTries = q.workingTries
  BY <1>2 DEF Probes
<1>8. MayRun(Len(q.clean), q.cleanTries)
  BY <1>1, SMTT(30)
<1> HIDE DEF q, clean
<1>9. p \in Probes
  BY <1>2, <1>4, <1>5, ProbeFields
<1> HIDE DEF p
<1>10. Bounded(p)
  BY <1>2, <1>3, <1>4, <1>5, <1>7, <1>8, Bounds DEF Bounded, MayRun
<1> QED BY <1>1, <1>6, <1>9, <1>10, ProbeTurnKeeps

\* A run on the working tree stays within the bounds of its probe.
LEMMA RunProbeOnWorkingKeeps ==
  ASSUME RecoveryInv, RunProbeOnWorking PROVE RecoveryInv'
<1> USE DEF RunProbeOnWorking, InTurn
<1>1. PICK i \in DOMAIN probes, sample \in {0, 1} :
        /\ MayRun(probes[i].working, probes[i].workingTries)
        /\ probes' = [probes EXCEPT ![i].workingTries = @ + 1, ![i].working = @ + sample]
  OBVIOUS
<1> DEFINE q == probes[i]
           p == [q EXCEPT !.workingTries = q.workingTries + 1, !.working = q.working + sample]
<1>2. q \in Probes /\ Bounded(q)
  <2>1. i \in 1 .. Len(probes)
    BY DEF RecoveryInv, AgentType
  <2> QED BY <2>1, ElementOfSeq DEF RecoveryInv, AgentType
<1>3. q.workingTries \in Nat /\ q.working \in Nat /\ q.working + sample \in Nat
  BY <1>2 DEF Probes
<1>4. probes' = [probes EXCEPT ![i] = p]
  BY <1>1, <1>2 DEF Probes
<1>5. /\ p.clean = q.clean /\ p.cleanTries = q.cleanTries
      /\ p.working = q.working + sample /\ p.workingTries = q.workingTries + 1
  BY <1>2 DEF Probes
<1>6. MayRun(q.working, q.workingTries)
  BY <1>1
<1> HIDE DEF q
<1>7. p \in Probes
  <2>1. q.clean \in Seq(Samples) /\ q.workingTries + 1 \in Nat
    BY <1>2, <1>3 DEF Probes
  <2> QED BY <1>2, <1>3, <2>1, ProbeFields
<1> HIDE DEF p
<1>8. Bounded(p)
  BY <1>2, <1>3, <1>5, <1>6, Bounds DEF Bounded, MayRun
<1> QED BY <1>1, <1>4, <1>7, <1>8, ProbeTurnKeeps

\* Every step between the classification and the end of the call.
LEMMA ConversationKeeps ==
  ASSUME RecoveryInv,
         \/ SilentTurn \/ IdleTurn \/ WriteProbe \/ RegisterContract
         \/ RunProbeOnClean \/ RunProbeOnWorking \/ EndConversation
         \/ PassOver \/ PromotionFails
  PROVE  RecoveryInv'
<1>1. CASE SilentTurn
  <2> USE <1>1 DEF SilentTurn, Turn, unchangedByTurn, RecoveryInv
  <2>1. CallType' /\ CaseType' /\ ChecksAreGrounded' /\ CallIsGrounded'
    BY TalkChangesNothing
  <2>2. AgentType'
    BY Bounds DEF AgentType, call, Bounded
  <2> QED BY <2>1, <2>2
<1>2. CASE IdleTurn
  <2> USE <1>2 DEF IdleTurn, InTurn, Turn, unchangedByTurn, RecoveryInv
  <2>1. CallType' /\ CaseType' /\ ChecksAreGrounded' /\ CallIsGrounded'
    BY TalkChangesNothing
  <2>2. AgentType'
    BY Bounds DEF AgentType, call, Bounded
  <2> QED BY <2>1, <2>2
<1>3. CASE EndConversation
  <2> USE <1>3 DEF EndConversation, FinishTool, InTurn, Turn, unchangedByTurn, RecoveryInv
  <2>1. CallType' /\ CaseType' /\ ChecksAreGrounded' /\ CallIsGrounded'
    BY TalkChangesNothing
  <2>2. AgentType'
    BY Bounds DEF AgentType, call, Bounded
  <2> QED BY <2>1, <2>2
<1>4. CASE PassOver
  <2> USE <1>4 DEF PassOver, RecoveryInv
  <2>1. CallType' /\ CaseType' /\ ChecksAreGrounded' /\ CallIsGrounded'
    BY TalkChangesNothing
  <2>2. AgentType'
    BY DEF AgentType, call, Bounded
  <2> QED BY <2>1, <2>2
<1>5. CASE PromotionFails
  <2> USE <1>5 DEF PromotionFails, RecoveryInv
  <2>1. CallType' /\ CaseType' /\ ChecksAreGrounded' /\ CallIsGrounded'
    BY TalkChangesNothing
  <2>2. AgentType'
    BY DEF AgentType, call, Bounded
  <2> QED BY <2>1, <2>2
<1> QED BY <1>1, <1>2, <1>3, <1>4, <1>5, WriteProbeKeeps, RegisterContractKeeps,
           RunProbeOnCleanKeeps, RunProbeOnWorkingKeeps

\* Steps of the classification that run nothing.
LEMMA SkipKeeps ==
  ASSUME RecoveryInv, Skip \/ ExhaustInClassification \/ EndClassification
  PROVE  RecoveryInv'
<1> USE DEF RecoveryInv
<1>1. CASE Skip
  <2> USE <1>1 DEF Skip, agent, lists
  <2>1. /\ queue' \in Seq(Items) /\ Len(queue') = Len(queue) - 1
        /\ \A i \in 1 .. Len(queue') : queue'[i] = queue[i + 1]
    BY HeadTailProperties DEF CallType, Rest
  <2>2. \A i \in 1 .. Len(queue') : i + 1 \in 1 .. Len(queue)
    BY <2>1 DEF CallType
  <2>3. \A i \in 1 .. Len(queue') : ItemIsKnown(baseline, queue[i + 1])
    BY <2>2 DEF CallIsGrounded
  <2>4. CallType' /\ AgentType' /\ CaseType'
    BY <2>1 DEF CallType, AgentType, CaseType
  <2>5. ChecksAreGrounded' /\ CallIsGrounded'
    BY <2>1, <2>3, GroundsStand DEF ChecksAreGrounded, CallIsGrounded, IsGrounded, IsPreserved
  <2> QED BY <2>4, <2>5
<1>2. CASE ExhaustInClassification \/ EndClassification
  <2> USE <1>2 DEF ExhaustInClassification, EndClassification
  <2>1. CallType' /\ CaseType' /\ ChecksAreGrounded' /\ CallIsGrounded'
    BY TalkChangesNothing
  <2>2. AgentType'
    BY DEF AgentType, agent, call
  <2> QED BY <2>1, <2>2
<1> QED BY <1>1, <1>2

\* A candidate is classified: what becomes a target is grounded by the run that
\* has just been seen or, as a facet, by that of its witness.
LEMMA ClassifyKeeps ==
  ASSUME RecoveryInv, Classify PROVE RecoveryInv'
<1> USE DEF RecoveryInv
<1> DEFINE item == Head(queue)
           c == item.check
<1>1. PICK outcome \in Shows[c] :
        /\ baseline' = baseline \cup {<<c, outcome>>}
        /\ found' = IF IsTarget(item, outcome) THEN Append(found, c) ELSE found
        /\ kept' = IF IsPreservation(item, outcome) THEN kept \cup {c} ELSE kept
        /\ queue' = IF item.list = "witness" /\ IsTarget(item, outcome)
                      THEN From("facet", Facets[c.name]) \o Rest
                      ELSE Rest
  BY DEF Classify
<1>2. /\ stage = "classify" /\ queue # <<>>
      /\ UNCHANGED <<stage, recovered, quota, transport, review, agent, lists, executable>>
  BY DEF Classify
<1>3. /\ item \in Items /\ c \in AllChecks /\ ItemIsKnown(baseline, item)
      /\ item.list = "witness" => c \in AllIn(IssueWitnesses)
      /\ item.list = "facet" => FacetIsGrounded(baseline, c)
  <2>1. 1 \in 1 .. Len(queue) /\ item = queue[1]
    BY <1>2 DEF CallType
  <2>2. item \in Items
    BY <1>2, HeadTailProperties DEF CallType
  <2> QED BY <2>1, <2>2 DEF CallIsGrounded, ItemIsKnown, Items
<1>4. /\ Rest \in Seq(Items)
      /\ \A i \in 1 .. Len(Rest) : ItemIsKnown(baseline, Rest[i])
  <2>1. /\ Rest \in Seq(Items) /\ Len(Rest) = Len(queue) - 1
        /\ \A i \in 1 .. Len(Rest) : Rest[i] = queue[i + 1]
    BY <1>2, HeadTailProperties DEF CallType, Rest
  <2>2. \A i \in 1 .. Len(Rest) : i + 1 \in 1 .. Len(queue)
    BY <2>1 DEF CallType
  <2> QED BY <2>1, <2>2 DEF CallIsGrounded
<1> HIDE DEF item, c
<1>5. outcome \in Outcomes /\ baseline' \subseteq AllChecks \X Outcomes /\ baseline \subseteq baseline'
  <2>1. outcome \in Outcomes
    BY <1>1, <1>3, RecoveryChecks
  <2> QED BY <1>1, <1>3, <2>1 DEF CallType
<1>6. \A x : IsGrounded(baseline, x) => IsGrounded(baseline', x)
  BY <1>5, GroundsStand
<1>7. \A x : IsPreserved(baseline, x) => IsPreserved(baseline', x)
  BY <1>5, GroundsStand
<1>8. \A x : ItemIsKnown(baseline, x) => ItemIsKnown(baseline', x)
  BY <1>5, GroundsStand
<1>9. ASSUME IsTarget(item, outcome) PROVE IsGrounded(baseline', c)
  <2>1. c.trusted /\ c.goal # NoGoal
    BY <1>9 DEF IsTarget, c
  <2>2. c.goal \in Goals
    BY <2>1, <1>3, RecoveryChecks
  <2>3. CASE outcome = "FAIL"
    <3>1. <<c, "FAIL">> \in Grounds(c) \cap baseline'
      BY <2>3, <1>1 DEF Grounds
    <3> QED BY <2>1, <2>2, <3>1 DEF IsGrounded
  <2>4. CASE item.list = "facet"
    <3>1. PICK w \in AllIn(IssueWitnesses) : c \in AllIn(Facets[w.name]) /\ <<w, "FAIL">> \in baseline
      BY <2>4, <1>3 DEF FacetIsGrounded
    <3>2. <<w, "FAIL">> \in Grounds(c) \cap baseline'
      BY <3>1, <1>5 DEF Grounds
    <3> QED BY <2>1, <2>2, <3>2 DEF IsGrounded
  <2> QED BY <1>9, <2>3, <2>4 DEF IsTarget
<1>10. found' \in Seq(AllChecks) /\ \A x \in AllIn(found') : IsGrounded(baseline', x)
  <2>1. CASE IsTarget(item, outcome)
    <3>1. found' \in Seq(AllChecks) /\ AllIn(found') = AllIn(found) \cup {c}
      BY <2>1, <1>1, <1>3, AllInAppend DEF CallType
    <3>2. \A x \in AllIn(found) : IsGrounded(baseline', x)
      BY <1>6 DEF CallIsGrounded
    <3> QED BY <3>1, <3>2, <2>1, <1>9
  <2>2. CASE ~IsTarget(item, outcome)
    BY <2>2, <1>1, <1>6 DEF CallType, CallIsGrounded
  <2> QED BY <2>1, <2>2
<1>11. kept' \subseteq AllChecks /\ \A x \in kept' : IsPreserved(baseline', x)
  <2>1. CASE IsPreservation(item, outcome)
    <3>1. IsPreserved(baseline', c)
      BY <2>1, <1>1 DEF IsPreservation, IsPreserved, c
    <3> QED BY <2>1, <3>1, <1>1, <1>3, <1>7 DEF CallType, CallIsGrounded
  <2>2. CASE ~IsPreservation(item, outcome)
    BY <2>2, <1>1, <1>7 DEF CallType, CallIsGrounded
  <2> QED BY <2>1, <2>2
<1>12. queue' \in Seq(Items) /\ \A i \in 1 .. Len(queue') : ItemIsKnown(baseline', queue'[i])
  <2>1. CASE ~(item.list = "witness" /\ IsTarget(item, outcome))
    BY <2>1, <1>1, <1>4, <1>8
  <2>2. CASE item.list = "witness" /\ IsTarget(item, outcome)
    <3> DEFINE Known == {x \in Items : ItemIsKnown(baseline', x)}
               facets == Facets[c.name]
    <3>1. c \in AllIn(IssueWitnesses)
      BY <2>2, <1>3
    <3>2. <<c, "FAIL">> \in baseline'
      <4>1. outcome = "FAIL"
        BY <2>2 DEF IsTarget
      <4> QED BY <4>1, <1>1
    <3>3. facets \in Seq(AllChecks) /\ facets \in Seq(AllIn(facets)) /\ AllIn(facets) \subseteq AllChecks
      <4>1. facets \in Seq(AllChecks)
        BY <3>1, ListsHoldChecks
      <4> HIDE DEF facets
      <4>2. AllIn(facets) \subseteq AllChecks /\ \A i \in 1 .. Len(facets) : facets[i] \in AllIn(facets)
        BY <4>1, AllInSeq
      <4> QED BY <4>1, <4>2, SeqOfMembers
    <3>4. From("facet", facets) \in Seq([list : {"facet"}, check : AllIn(facets)])
      BY <3>3, FromProperties
    <3>5. [list : {"facet"}, check : AllIn(facets)] \subseteq Known
      <4>1. \A x \in AllIn(facets) : FacetIsGrounded(baseline', x)
        BY <3>1, <3>2 DEF FacetIsGrounded
      <4> HIDE DEF facets
      <4> QED BY <4>1, <3>3 DEF ItemIsKnown, Items
    <3>6. Rest \in Seq(Known)
      BY <1>4, <1>8, ElementOfSeq, SeqOfMembers
    <3> HIDE DEF facets
    <3>7. From("facet", facets) \in Seq(Known)
      BY <3>4, <3>5, SeqMonotonic
    <3>8. queue' \in Seq(Known)
      <4> HIDE DEF Known
      <4>1. From("facet", facets) \o Rest \in Seq(Known)
        BY <3>6, <3>7, ConcatProperties
      <4> QED BY <4>1, <2>2, <1>1 DEF facets
    <3>9. \A i \in 1 .. Len(queue') : queue'[i] \in Known
      BY <3>8, ElementOfSeq
    <3> QED BY <3>8, <3>9, SeqMonotonic
  <2> QED BY <2>1, <2>2
<1>13. CallType' /\ CallIsGrounded'
  BY <1>2, <1>5, <1>10, <1>11, <1>12 DEF CallType, CallIsGrounded
<1>14. AgentType' /\ CaseType'
  BY <1>2 DEF AgentType, CaseType, agent, lists
<1>15. ChecksAreGrounded'
  BY <1>2, <1>6, <1>7, GroundedInWords DEF lists
<1> QED BY <1>13, <1>14, <1>15

\* A probe is promoted on a last pair of runs that fails.
LEMMA PromoteKeeps ==
  ASSUME RecoveryInv, Promote PROVE RecoveryInv'
<1> USE DEF RecoveryInv
<1> DEFINE c == TargetOfProbe(promoting)
<1>1. PICK outcome \in Shows[c] :
        /\ baseline' = baseline \cup {<<c, outcome>>}
        /\ found' = IF outcome = "FAIL" THEN Append(found, c) ELSE found
  BY DEF Promote
<1>2. /\ stage = "promote" /\ promoting \in DOMAIN probes /\ Promotable(probes[promoting])
      /\ promoting' = promoting + 1
      /\ UNCHANGED <<stage, recovered, quota, transport, review, queue, seen, kept, probes, turns,
                     reads, repeats, lists, executable>>
  BY DEF Promote
<1>3. c \in AgentChecks
  <2>1. promoting \in 1 .. MaxProbes
    BY <1>2, Bounds DEF AgentType, CallType
  <2>2. probes[promoting].contract \in HardGoals
    BY <1>2 DEF Promotable
  <2>3. \E d \in AgentChecks : d.name = ProbeNames[promoting] /\ d.goal = probes[promoting].contract
    BY <2>1, <2>2, RecoveryLists
  <2> QED BY <2>3 DEF TargetOfProbe
<1> HIDE DEF c
<1>4. c \in AllChecks /\ c.trusted /\ c.goal \in Goals
  <2>1. c \in AllChecks
    BY <1>3, ListsHoldChecks
  <2> QED BY <2>1, <1>3, RecoveryChecks DEF Goals
<1>5. baseline' \subseteq AllChecks \X Outcomes /\ baseline \subseteq baseline'
  <2>1. outcome \in Outcomes
    BY <1>1, <1>4, RecoveryChecks
  <2> QED BY <1>1, <1>4, <2>1 DEF CallType
<1>6. /\ \A x : IsGrounded(baseline, x) => IsGrounded(baseline', x)
      /\ \A x : IsPreserved(baseline, x) => IsPreserved(baseline', x)
      /\ \A x : ItemIsKnown(baseline, x) => ItemIsKnown(baseline', x)
  BY <1>5, GroundsStand
<1>7. found' \in Seq(AllChecks) /\ \A x \in AllIn(found') : IsGrounded(baseline', x)
  <2>1. CASE outcome = "FAIL"
    <3>1. found' \in Seq(AllChecks) /\ AllIn(found') = AllIn(found) \cup {c}
      BY <2>1, <1>1, <1>4, AllInAppend DEF CallType
    <3>2. <<c, "FAIL">> \in Grounds(c) \cap baseline'
      BY <2>1, <1>1 DEF Grounds
    <3>3. IsGrounded(baseline', c)
      BY <3>2, <1>4 DEF IsGrounded
    <3> QED BY <3>1, <3>3, <1>6 DEF CallIsGrounded
  <2>2. CASE outcome # "FAIL"
    BY <2>2, <1>1, <1>6 DEF CallType, CallIsGrounded
  <2> QED BY <2>1, <2>2
<1>8. CallType' /\ CallIsGrounded'
  BY <1>2, <1>5, <1>6, <1>7 DEF CallType, CallIsGrounded
<1>9. AgentType' /\ CaseType'
  BY <1>2 DEF AgentType, CaseType, lists
<1>10. ChecksAreGrounded'
  BY <1>2, <1>6, GroundedInWords DEF lists
<1> QED BY <1>8, <1>9, <1>10

\* A list and one that follows it hold what both hold, the first in its places.
LEMMA ConcatHolds ==
  ASSUME NEW S, NEW s \in Seq(S), NEW t \in Seq(S)
  PROVE  /\ s \o t \in Seq(S) /\ AllIn(s \o t) \subseteq AllIn(s) \cup AllIn(t)
         /\ \A i \in 1 .. Len(s) : i \in 1 .. Len(s \o t) /\ (s \o t)[i] = s[i]
<1> DEFINE u == s \o t
<1>1. /\ u \in Seq(S) /\ Len(u) = Len(s) + Len(t)
      /\ \A i \in 1 .. Len(u) : u[i] = IF i <= Len(s) THEN s[i] ELSE t[i - Len(s)]
  BY ConcatProperties
<1>2. Len(s) \in Nat /\ Len(t) \in Nat
  OBVIOUS
<1> HIDE DEF u
<1>3. ASSUME NEW i \in 1 .. Len(u) PROVE u[i] \in AllIn(s) \cup AllIn(t)
  <2>1. CASE i <= Len(s)
    BY <2>1, <1>1, <1>2, AllInSeq
  <2>2. CASE ~(i <= Len(s))
    <3>1. i - Len(s) \in 1 .. Len(t) /\ u[i] = t[i - Len(s)]
      BY <2>2, <1>1, <1>2
    <3> QED BY <3>1, AllInSeq
  <2> QED BY <2>1, <2>2
<1>4. AllIn(u) \subseteq AllIn(s) \cup AllIn(t)
  BY <1>1, <1>3, AllInSeq
<1>5. \A i \in 1 .. Len(s) : i \in 1 .. Len(u) /\ u[i] = s[i]
  BY <1>1, <1>2
<1> QED BY <1>1, <1>4, <1>5 DEF u

\* Once the list of targets is within its length, merging and cutting loses no
\* id; whatever is recovered, no target comes from elsewhere.
LEMMA RecoveredProperties ==
  ASSUME RecoveryInv
  PROVE  /\ Recovered(targetChecks, found) \in Seq(AllChecks)
         /\ AllIn(Recovered(targetChecks, found)) \subseteq AllIn(targetChecks) \cup AllIn(found)
         /\ recovered > 0 => Len(Recovered(targetChecks, found)) <= MaxProbes
         /\ recovered > 0 /\ Len(targetChecks) <= MaxProbes =>
              IdsOf(AllIn(targetChecks)) \subseteq IdsOf(AllIn(Recovered(targetChecks, found)))
<1> USE DEF RecoveryInv
<1>1. CASE recovered = 0
  BY <1>1 DEF Recovered, CallType
<1>2. CASE recovered # 0
  <2> DEFINE both == targetChecks \o found
             merged == ById(both)
             cut == FirstOf(merged, MaxProbes)
  <2>1. /\ both \in Seq(AllChecks) /\ AllIn(both) \subseteq AllIn(targetChecks) \cup AllIn(found)
        /\ \A i \in 1 .. Len(targetChecks) : i \in 1 .. Len(both) /\ both[i] = targetChecks[i]
    BY ConcatHolds DEF CallType, CaseType
  <2>2. Recovered(targetChecks, found) = cut
    BY <1>2 DEF Recovered
  <2> HIDE DEF both
  <2>3. /\ merged \in Seq(AllChecks) /\ AllIn(merged) \subseteq AllIn(both)
        /\ \A m \in 1 .. Len(both) : m <= MaxProbes =>
             \E n \in 1 .. Len(merged) : n <= MaxProbes /\ merged[n].id = both[m].id
    BY <2>1, Bounds, ByIdProperties
  <2> HIDE DEF merged
  <2>4. /\ cut \in Seq(AllChecks) /\ Len(cut) <= MaxProbes /\ AllIn(cut) \subseteq AllIn(merged)
        /\ \A i \in 1 .. Len(merged) : i <= MaxProbes => merged[i] \in AllIn(cut)
    BY <2>3, Bounds, FirstOfProperties
  <2> HIDE DEF cut
  <2>5. ASSUME Len(targetChecks) <= MaxProbes, NEW c \in AllIn(targetChecks)
        PROVE  c.id \in IdsOf(AllIn(cut))
    <3>1. PICK i \in 1 .. Len(targetChecks) : targetChecks[i] = c
      BY AllInSeq DEF CaseType
    <3>2. Len(targetChecks) \in Nat /\ i <= MaxProbes
      BY <3>1, <2>5, Bounds DEF CaseType
    <3>3. PICK n \in 1 .. Len(merged) : n <= MaxProbes /\ merged[n].id = c.id
      BY <3>1, <3>2, <2>1, <2>3
    <3>4. merged[n] \in AllIn(cut)
      BY <3>3, <2>4
    <3> QED BY <3>3, <3>4 DEF IdsOf
  <2>6. Len(targetChecks) <= MaxProbes => IdsOf(AllIn(targetChecks)) \subseteq IdsOf(AllIn(cut))
    BY <2>5 DEF IdsOf
  <2> QED BY <2>1, <2>2, <2>3, <2>4, <2>6
<1> QED BY <1>1, <1>2

\* A call hands the state of the case nothing but grounded checks.
LEMMA EndRecoveryKeeps ==
  ASSUME RecoveryInv, EndRecovery PROVE RecoveryInv'
<1> USE DEF RecoveryInv, EndRecovery
<1>1. targetChecks' \in Seq(AllChecks) /\ AllIn(targetChecks') \subseteq AllIn(targetChecks) \cup AllIn(found)
  BY RecoveredProperties
<1>2. CallType'
  <2>1. <<>> \in Seq(AllChecks)
    BY EmptySeq
  <2>2. MaxProbes \in 1 .. MaxProbes
    BY Bounds
  <2>3. UNCHANGED <<queue, baseline>>
    OBVIOUS
  <2>4. stage' = "idle" /\ quota' = MaxProbes /\ transport' = FALSE /\ review' = FALSE
        /\ found' = <<>> /\ kept' = {}
    OBVIOUS
  <2> HIDE DEF EndRecovery
  <2> QED BY <2>1, <2>2, <2>3, <2>4 DEF CallType
<1>3. AgentType'
  <2>1. <<>> \in Seq(Probes) /\ Len(<<>>) = 0
    BY EmptySeq
  <2> QED BY <2>1, Bounds DEF AgentType
<1>4. CaseType'
  BY <1>1 DEF CaseType, CallType, MergeSets
<1>5. CallIsGrounded'
  BY AllInEmpty DEF CallIsGrounded
<1>6. ChecksAreGrounded'
  <2>1. preservationChecks' \subseteq preservationChecks \cup kept /\ baseline' = baseline
    BY DEF MergeSets
  <2> QED BY <1>1, <2>1, GroundedInWords DEF CallIsGrounded
<1> QED BY <1>2, <1>3, <1>4, <1>5, <1>6

\* The invariant of the recovery calls is inductive over their steps.
LEMMA RecoveryStepKeeps ==
  ASSUME RecoveryInv, RecoveryStep PROVE RecoveryInv'
BY SkipKeeps, ClassifyKeeps, ConversationKeeps, PromoteKeeps, EndRecoveryKeeps DEF RecoveryStep

\* The three ways in which the loop starts a call.
LEMMA CallsBegin ==
  ASSUME RecoveryInv,
         BeginPreRecovery \/ BeginPostRecovery \/ \E reviewed \in BOOLEAN : BeginRound(reviewed)
  PROVE  RecoveryInv'
<1>1. MaxProbes \in 1 .. MaxProbes /\ 1 \in 1 .. MaxProbes /\ 0 \in Nat /\ CandidateAllowance \in Nat
  BY Bounds
<1>2. PublicCandidates \in Seq(AllChecks) /\ \A c \in Representatives : <<c>> \in Seq(AllChecks)
  <2>1. AllIn(targetChecks) \subseteq AllChecks /\ AllIn(PublicCandidates) \subseteq AllChecks
    BY ListsHoldChecks, AllInSeq DEF RecoveryInv, CaseType
  <2>2. Representatives \subseteq AllChecks
    BY <2>1, RecoveryRebuilds DEF Representatives, PublicAgain
  <2> QED BY <2>2, ListsHoldChecks
<1>3. CASE BeginPreRecovery
  BY <1>1, <1>2, <1>3, BeginKeeps DEF BeginPreRecovery
<1>4. CASE BeginPostRecovery
  <2>1. CASE CoveredByPreRecovery
    BY <2>1, <1>1, <1>2, <1>4, BeginKeeps DEF BeginPostRecovery
  <2>2. CASE ~CoveredByPreRecovery
    BY <2>2, <1>1, <1>2, <1>4, BeginKeeps DEF BeginPostRecovery
  <2> QED BY <2>1, <2>2
<1>5. ASSUME NEW reviewed \in BOOLEAN, BeginRound(reviewed) PROVE RecoveryInv'
  BY <1>1, <1>2, <1>5, BeginKeeps DEF BeginRound
<1> QED BY <1>3, <1>4, <1>5

-----------------------------------------------------------------------------
(* Each step of the ledger.                                                *)

\* The steps of a call change the state of the case only at its end.
LEMMA StepsOfACall ==
  ASSUME RecoveryStep
  PROVE  /\ stage \in {"classify", "agent", "promote"}
         /\ \/ EndRecovery
            \/ UNCHANGED <<recovered, lists, executable>>
<1>1. CASE Skip \/ Classify \/ ExhaustInClassification \/ EndClassification
  BY <1>1 DEF Skip, Classify, ExhaustInClassification, EndClassification
<1>2. CASE SilentTurn \/ IdleTurn \/ WriteProbe \/ RegisterContract
  BY <1>2 DEF SilentTurn, IdleTurn, WriteProbe, RegisterContract, InTurn, unchangedByTurn
<1>3. CASE RunProbeOnClean \/ RunProbeOnWorking \/ EndConversation
  BY <1>3 DEF RunProbeOnClean, RunProbeOnWorking, EndConversation, InTurn, unchangedByTurn
<1>4. CASE PassOver \/ Promote \/ PromotionFails
  BY <1>4 DEF PassOver, Promote, PromotionFails
<1>5. CASE EndRecovery
  BY <1>5 DEF EndRecovery
<1> QED BY <1>1, <1>2, <1>3, <1>4, <1>5 DEF RecoveryStep

\* A call goes on between two steps of the loop; when it ends, no target and
\* no preservation check that the graph refers to is lost.
LEMMA RecoveryKeepsLedger ==
  ASSUME Inv, RecoveryStep, UNCHANGED caseVars PROVE Inv'
<1> USE DEF Inv, caseVars
<1>1. RecoveryInv'
  BY RecoveryStepKeeps
<1>2. LedgerType' /\ ResultsAreHeld' /\ EvidenceIsWhole'
  BY DEF LedgerType, ResultsAreHeld, EvidenceIsWhole, EvidenceHolds
<1>3. stage \in {"classify", "agent", "promote"} /\ at \in {"pre", "p0", "head"}
  BY StepsOfACall DEF LedgerType, CallsAreCounted
<1>4. ReachedIsFailToPass'
  BY <1>3 DEF ReachedIsFailToPass
<1>5. CASE UNCHANGED <<recovered, lists, executable>>
  <2> USE <1>5 DEF lists
  <2>1. CallsAreCounted'
    BY <1>3 DEF CallsAreCounted
  <2>2. HandlesAreKept' /\ SurvivorsAreHard'
    BY DEF HandlesAreKept, SurvivorsAreHard, StateChecks
  <2> QED BY <1>1, <1>2, <1>4, <2>1, <2>2
<1>6. CASE EndRecovery
  <2> USE <1>6 DEF EndRecovery
  <2>1. /\ recovered \in Nat /\ recovered' = recovered + 1 /\ stage' = "idle"
        /\ targetChecks' = Recovered(targetChecks, found)
        /\ preservationChecks' = MergeSets(preservationChecks, kept)
        /\ executable' = executable \ IdsOf(AllIn(found) \cup kept)
    BY DEF RecoveryInv, CaseType
  <2>2. CallsAreCounted'
    BY <1>3, <2>1, Bounds DEF CallsAreCounted
  <2>3. recovered' >= 2 => Len(targetChecks') <= MaxProbes
    BY <2>1, RecoveredProperties
  <2>4. at = "head" => IdsOf(AllIn(targetChecks)) \subseteq IdsOf(AllIn(targetChecks'))
    BY <2>1, RecoveredProperties DEF CallsAreCounted, HandlesAreKept
  <2>5. HandlesAreKept'
    <3>1. IdsOf(preservationChecks) \subseteq IdsOf(preservationChecks')
      BY <2>1 DEF MergeSets, IdsOf
    <3>2. ASSUME NEW old, NEW new, NEW kept1, NEW kept2, NEW posed,
                 IdsOf(old) \subseteq IdsOf(new), IdsOf(kept1) \subseteq IdsOf(kept2)
          PROVE  IdsOf(old \cup kept1 \cup posed) \subseteq IdsOf(new \cup kept2 \cup posed)
      BY <3>2 DEF IdsOf
    <3>3. challengeChecks' = challengeChecks
      OBVIOUS
    <3>4. at = "head" => IdsOf(StateChecks) \subseteq IdsOf(StateChecks')
      BY <2>4, <3>1, <3>2, <3>3 DEF StateChecks
    <3> QED BY <1>3, <2>1, <2>3, <3>4 DEF HandlesAreKept
  <2>6. SurvivorsAreHard'
    BY DEF SurvivorsAreHard
  <2> QED BY <1>1, <1>2, <1>4, <2>2, <2>5, <2>6
<1> QED BY <1>5, <1>6, StepsOfACall

\* The loop starts a call: before P0, after it, or for missing evidence.
LEMMA CallsKeepLedger ==
  ASSUME Inv, PreRecovery \/ PostRecovery \/ RecoverEvidence PROVE Inv'
<1> USE DEF Inv
<1>1. /\ BeginPreRecovery \/ BeginPostRecovery \/ \E reviewed \in BOOLEAN : BeginRound(reviewed)
      /\ stage = "idle" /\ stage' = "classify"
      /\ UNCHANGED <<recovered, lists, executable, baseline>>
      /\ UNCHANGED <<working, status, challengeChecks, results, record, audits, final>>
  BY DEF PreRecovery, PostRecovery, RecoverEvidence, caseVars, BeginPreRecovery,
         BeginPostRecovery, BeginRound, Begin
<1>2. \/ at = "pre" /\ at' = "pre" /\ recovered = 0
      \/ at = "p0" /\ at' = "p0" /\ recovered = 1
      \/ /\ at \in {"open", "audited"} /\ at' = "head"
         /\ recovered >= 2 /\ recovered < 2 + TargetRecoveryAttempts
  BY DEF PreRecovery, PostRecovery, RecoverEvidence, caseVars, BeginPreRecovery,
         BeginPostRecovery, BeginRound, Uncertified
<1>3. RecoveryInv'
  BY <1>1, CallsBegin
<1>4. LedgerType' /\ ResultsAreHeld'
  BY <1>1, <1>2 DEF LedgerType, ResultsAreHeld
<1>5. EvidenceIsWhole'
  BY <1>1, <1>2 DEF EvidenceIsWhole, EvidenceHolds
<1>6. CallsAreCounted'
  BY <1>1, <1>2 DEF CallsAreCounted
<1>7. HandlesAreKept' /\ SurvivorsAreHard' /\ ReachedIsFailToPass'
  BY <1>1, <1>2 DEF HandlesAreKept, SurvivorsAreHard, ReachedIsFailToPass, StateChecks, lists
<1> QED BY <1>3, <1>4, <1>5, <1>6, <1>7

\* Steps of the loop that touch neither checks nor evidence.
LEMMA QuietStepKeeps ==
  ASSUME Inv, UNCHANGED <<recoveryVars, challengeChecks, results, record, audits>>,
         LedgerType', CallsAreCounted', EvidenceIsWhole',
         at' # "certified", at' \in {"pre", "p0"} => at \in {"pre", "p0"}
  PROVE  Inv'
<1> USE DEF Inv, recoveryVars, call, agent, lists
<1>1. RecoveryInv'
  <2>1. CallType' /\ CaseType'
    BY DEF RecoveryInv, CallType, CaseType
  <2>2. AgentType'
    BY DEF RecoveryInv, AgentType
  <2>3. ChecksAreGrounded' /\ CallIsGrounded'
    BY DEF RecoveryInv, ChecksAreGrounded, CallIsGrounded
  <2> QED BY <2>1, <2>2, <2>3 DEF RecoveryInv
<1>2. HandlesAreKept' /\ SurvivorsAreHard' /\ ReachedIsFailToPass' /\ ResultsAreHeld'
  BY DEF HandlesAreKept, SurvivorsAreHard, ReachedIsFailToPass, ResultsAreHeld, StateChecks
<1> QED BY <1>1, <1>2

\* Steps of the loop that touch no evidence.
LEMMA LoopStepKeeps ==
  ASSUME Inv,
         \/ SaveP0 \/ EnterLoop \/ Switch \/ NextIteration
         \/ Exhaust \/ ExhaustInRecovery \/ Seal
  PROVE  Inv'
<1> USE DEF Inv, recoveryVars
<1>1. CASE SaveP0
  <2> USE <1>1 DEF SaveP0, Idle
  <2>1. LedgerType'
    BY DEF LedgerType, Checkpoints
  <2>2. CallsAreCounted' /\ EvidenceIsWhole'
    BY Bounds DEF CallsAreCounted, EvidenceIsWhole, EvidenceHolds
  <2> QED BY <2>1, <2>2, QuietStepKeeps
<1>2. CASE EnterLoop
  <2> USE <1>2 DEF EnterLoop, Idle
  <2>1. LedgerType'
    BY DEF LedgerType
  <2>2. CallsAreCounted' /\ EvidenceIsWhole'
    BY Bounds DEF CallsAreCounted, EvidenceIsWhole, EvidenceHolds
  <2> QED BY <2>1, <2>2, QuietStepKeeps
<1>3. CASE Switch
  <2> USE <1>3 DEF Switch, Idle
  <2>1. LedgerType'
    BY DEF LedgerType
  <2>2. CallsAreCounted' /\ EvidenceIsWhole'
    BY DEF CallsAreCounted, EvidenceIsWhole, EvidenceHolds
  <2> QED BY <2>1, <2>2, QuietStepKeeps
<1>4. CASE NextIteration
  <2> USE <1>4 DEF NextIteration, Uncertified
  <2>1. LedgerType'
    BY DEF LedgerType
  <2>2. CallsAreCounted' /\ EvidenceIsWhole'
    BY DEF CallsAreCounted, EvidenceIsWhole, EvidenceHolds
  <2> QED BY <2>1, <2>2, QuietStepKeeps
<1>5. CASE Exhaust
  <2> USE <1>5 DEF Exhaust, Idle
  <2>1. LedgerType'
    BY DEF LedgerType
  <2>2. CallsAreCounted' /\ EvidenceIsWhole'
    BY DEF CallsAreCounted, EvidenceIsWhole, EvidenceHolds
  <2> QED BY <2>1, <2>2, QuietStepKeeps
<1>6. CASE ExhaustInRecovery
  <2> USE <1>6 DEF ExhaustInRecovery
  <2>1. LedgerType'
    BY DEF LedgerType
  <2>2. CallsAreCounted' /\ EvidenceIsWhole'
    BY DEF CallsAreCounted, EvidenceIsWhole, EvidenceHolds
  <2> QED BY <2>1, <2>2, QuietStepKeeps
<1>7. CASE Seal
  <2> USE <1>7 DEF Seal, Idle
  <2>1. at \in {"exhausted", "head"} /\ at' \in {"sealed", "refused"} /\ final' \in Checkpoints
    OBVIOUS
  <2>2. UNCHANGED <<recoveryVars, working, status, challengeChecks, results, record, audits>>
    OBVIOUS
  <2>3. LedgerType'
    BY <2>1, <2>2 DEF LedgerType
  <2>4. at = "head" => stage = "idle"
    OBVIOUS
  <2>5. CallsAreCounted' /\ EvidenceIsWhole'
    BY <2>1, <2>2, <2>4 DEF CallsAreCounted, EvidenceIsWhole, EvidenceHolds
  <2> QED BY <2>1, <2>2, <2>3, <2>5, QuietStepKeeps
<1> QED BY <1>1, <1>2, <1>3, <1>4, <1>5, <1>6, <1>7

\* What a queue of checks ends with is a record of held results.
LEMMA ExecutionsAreRecords ==
  ASSUME NEW queued \in SUBSET Ids,
         NEW phase \in {"PARENT", "PARENT_CHALLENGE", "TRIAL"},
         NEW run \in Executions(queued, phase)
  PROVE  run \in Records /\ \A id \in Ids : run[id].held
<1>1. PICK s \in [queued -> Statuses] :
        run = [id \in Ids |-> IF id \in queued
                 THEN [phase |-> phase, status |-> s[id], held |-> TRUE] ELSE NotRun]
  BY DEF Executions
<1>2. ASSUME NEW id \in Ids PROVE run[id] \in ResultType /\ run[id].held
  <2>1. CASE id \in queued
    BY <2>1, <1>1 DEF ResultType
  <2>2. CASE id \notin queued
    <3>1. run[id] = NotRun
      BY <2>2, <1>1
    <3> QED BY <3>1 DEF NotRun, ResultType, Statuses
  <2> QED BY <2>1, <2>2
<1>3. run = [id \in Ids |-> run[id]]
  BY <1>1
<1> QED BY <1>2, <1>3 DEF Records

\* An execution only takes away that a result is held.
LEMMA OverwrittenIsRecord ==
  ASSUME NEW old \in Records, NEW new \in Records PROVE Overwritten(old, new) \in Records
<1>1. ASSUME NEW r \in ResultType
      PROVE  [r EXCEPT !.held = FALSE] \in ResultType
  BY DEF ResultType
<1>2. \A id \in Ids : Overwritten(old, new)[id] \in ResultType
  BY <1>1 DEF Overwritten, Records
<1> QED BY <1>2 DEF Records, Overwritten

\* The checks that are run belong to the case.
LEMMA QueuesAreChecks ==
  ASSUME Inv, NEW checks \in SUBSET CaseChecks, NEW p, NEW queued \in Queues(checks, p)
  PROVE  queued \in SUBSET Ids
BY DEF Inv, RecoveryInv, CaseType, Queues, Registered, Ids, IdsOf

\* The checks of the state belong to the case, and its targets come from the
\* recovery.
LEMMA StateChecksAreChecks ==
  ASSUME Inv
  PROVE  /\ StateChecks \subseteq CaseChecks /\ AllIn(targetChecks) \subseteq AllChecks
         /\ AllIn(targetChecks) \subseteq CaseChecks
<1>1. AllIn(targetChecks) \subseteq AllChecks
  BY AllInSeq DEF Inv, RecoveryInv, CaseType
<1>2. AllIn(targetChecks) \subseteq CaseChecks
  BY <1>1 DEF CaseChecks
<1> QED BY <1>1, <1>2 DEF Inv, RecoveryInv, CaseType, LedgerType, StateChecks, CaseChecks

\* Steps that write handles only.
LEMMA HandlesWritten ==
  ASSUME Inv, UNCHANGED <<stage, recovered, call, agent, baseline, lists>>,
         executable' \subseteq Ids
  PROVE  RecoveryInv'
<1> USE DEF Inv, call, agent, lists
<1>1. CallType' /\ CaseType'
  BY DEF RecoveryInv, CallType, CaseType
<1>2. AgentType'
  BY DEF RecoveryInv, AgentType
<1>3. ChecksAreGrounded' /\ CallIsGrounded'
  BY DEF RecoveryInv, ChecksAreGrounded, CallIsGrounded
<1> QED BY <1>1, <1>2, <1>3 DEF RecoveryInv

\* Every obligation of the graph has its check: an execution is never refused.
LEMMA ExecuteKeeps ==
  ASSUME Inv, stage = "idle", at \in {"head", "again"}, recovered >= 2,
         NEW phase \in {"PARENT", "PARENT_CHALLENGE"}, NEW next \in {"parent", "refreshed"},
         Execute(phase, next)
  PROVE  Inv'
<1> USE DEF Inv, Execute
<1>1. /\ executable' = executable \cup IdsOf(StateChecks) /\ executable \subseteq IdsOf(StateChecks)
      /\ IdsOf(StateChecks) \subseteq Ids
  BY StateChecksAreChecks DEF HandlesAreKept, Registered, Ids, IdsOf
<1>2. Resolves(StateChecks)
  BY <1>1 DEF Resolves, Registered
<1>3. PICK queued \in Queues(StateChecks, working) : \E run \in Executions(queued, phase) :
        /\ results' = run
        /\ record' = [record EXCEPT ![working] = Overwritten(@, run)]
        /\ at' = next
  BY <1>2
<1>4. queued \in SUBSET Ids
  BY QueuesAreChecks, StateChecksAreChecks
<1>5. results' \in Records /\ \A id \in Ids : results'[id].held
  <2>1. results' \in Executions(queued, phase)
    BY <1>3
  <2> QED BY <2>1, <1>4, ExecutionsAreRecords
<1>6. /\ record' = [record EXCEPT ![working] = Overwritten(@, results')]
      /\ at' = next
  BY <1>3
<1>7. record' \in [Checkpoints -> Records]
  <2>1. Overwritten(record[working], results') \in Records
    BY <1>5, OverwrittenIsRecord DEF LedgerType
  <2> QED BY <2>1, <1>6 DEF LedgerType
<1>8. UNCHANGED <<stage, recovered, call, agent, baseline, lists, working, status,
                  challengeChecks, audits, final>>
  OBVIOUS
<1>9. RecoveryInv'
  BY <1>1, <1>8, HandlesWritten DEF RecoveryInv, CaseType
<1>10. LedgerType' /\ ResultsAreHeld'
  BY <1>5, <1>6, <1>7, <1>8 DEF LedgerType, ResultsAreHeld
<1>11. CallsAreCounted'
  BY <1>6, <1>8 DEF CallsAreCounted
<1>12. StateChecks' = StateChecks
  BY <1>8 DEF StateChecks, lists
<1>13. HandlesAreKept'
  BY <1>1, <1>6, <1>8, <1>12 DEF HandlesAreKept, lists
<1>14. EvidenceIsWhole'
  <2>1. \A p \in Checkpoints \ {working} : record'[p] = record[p]
    BY <1>6 DEF LedgerType
  <2> QED BY <2>1, <1>6, <1>8 DEF EvidenceIsWhole, EvidenceHolds
<1>15. SurvivorsAreHard' /\ ReachedIsFailToPass'
  BY <1>6, <1>8 DEF SurvivorsAreHard, ReachedIsFailToPass, lists
<1> QED BY <1>9, <1>10, <1>11, <1>13, <1>14, <1>15

\* Both executions of an iteration keep the invariant.
LEMMA ExecutionsKeep ==
  ASSUME Inv, ExecuteParent \/ ExecuteAgain PROVE Inv'
BY ExecuteKeeps DEF ExecuteParent, ExecuteAgain, Idle, Inv, CallsAreCounted

\* A challenge has no result and no obligation until it is run.
LEMMA DeriveChallengesKeeps ==
  ASSUME Inv, DeriveChallenges PROVE Inv'
<1> USE DEF Inv, DeriveChallenges
<1>1. /\ at = "parent" /\ at' = "again" /\ challengeChecks \subseteq challengeChecks'
      /\ challengeChecks' \subseteq Challenges
      /\ UNCHANGED <<recoveryVars, working, status, results, record, audits, final>>
  BY DEF LedgerType
<1>2. RecoveryInv'
  BY <1>1, HandlesWritten DEF recoveryVars, RecoveryInv, CaseType
<1>3. LedgerType' /\ ResultsAreHeld'
  BY <1>1 DEF LedgerType, ResultsAreHeld
<1>4. CallsAreCounted' /\ EvidenceIsWhole'
  BY <1>1 DEF CallsAreCounted, EvidenceIsWhole, EvidenceHolds, recoveryVars
<1>5. IdsOf(StateChecks) \subseteq IdsOf(StateChecks')
  BY <1>1 DEF StateChecks, IdsOf, recoveryVars, lists
<1>6. HandlesAreKept' /\ SurvivorsAreHard' /\ ReachedIsFailToPass'
  BY <1>1, <1>5 DEF HandlesAreKept, SurvivorsAreHard, ReachedIsFailToPass, recoveryVars, lists
<1> QED BY <1>2, <1>3, <1>4, <1>6

\* The results that are persisted are those the nodes in the graph carry.
LEMMA RefreshKeeps ==
  ASSUME Inv, Refresh PROVE Inv'
<1> USE DEF Inv, Refresh, Persisted
<1>1. /\ at \in {"parent", "refreshed"} /\ at' = "open"
      /\ record' = [record EXCEPT ![working] = results] /\ results' = NoResults
      /\ UNCHANGED <<recoveryVars, working, status, challengeChecks, audits, final>>
  OBVIOUS
<1>2. RecoveryInv'
  BY <1>1, HandlesWritten DEF recoveryVars, RecoveryInv, CaseType
<1>3. NoResults \in Records /\ \A id \in Ids : NoResults[id].held
  <2>1. NotRun \in ResultType /\ NotRun.held
    BY DEF NotRun, ResultType, Statuses
  <2> QED BY <2>1 DEF NoResults, Records
<1>4. record' \in [Checkpoints -> Records]
  BY <1>1 DEF LedgerType
<1>5. LedgerType' /\ ResultsAreHeld'
  BY <1>1, <1>3, <1>4 DEF LedgerType, ResultsAreHeld
<1>6. EvidenceIsWhole'
  <2>1. record'[working] = results /\ \A p \in Checkpoints \ {working} : record'[p] = record[p]
    BY <1>1 DEF LedgerType
  <2> QED BY <2>1, <1>1 DEF EvidenceIsWhole, EvidenceHolds, ResultsAreHeld
<1>7. CallsAreCounted'
  BY <1>1 DEF CallsAreCounted, recoveryVars
<1>8. HandlesAreKept' /\ SurvivorsAreHard' /\ ReachedIsFailToPass'
  BY <1>1
     DEF HandlesAreKept, SurvivorsAreHard, ReachedIsFailToPass, StateChecks, recoveryVars, lists
<1> QED BY <1>2, <1>5, <1>6, <1>7, <1>8

\* An audit forgets no survivor, blames only checks of hard goals, and certifies only
\* a patch that closes every hard goal and that no mutant of its targets survived.
LEMMA AuditKeeps ==
  ASSUME Inv, NEW p \in Checkpoints, NEW run \in Records, NEW otherwise \in {"audited", "head"},
         AuditAndDecide(p, run, otherwise)
  PROVE  /\ audits' \in [Checkpoints -> [AllChecks -> {"none", "SURVIVOR", "DISCRIMINATES"}]]
         /\ at' \in {"certified", otherwise}
         /\ \A q \in Checkpoints, c \in AllChecks :
              audits[q][c] = "SURVIVOR" => audits'[q][c] = "SURVIVOR"
         /\ \A q \in Checkpoints, c \in AllChecks :
              audits'[q][c] = "SURVIVOR" => c.goal \in HardGoals /\ c \in Mutable
         /\ at' = "certified" => Closed(run) /\ \A c \in AllIn(targetChecks) : audits[p][c] # "SURVIVOR"
<1> USE DEF Inv
<1>1. PICK verdict \in [Audited(run) -> Verdicts] :
        /\ \A c \in Audited(run) : verdict[c] \in AuditOf(p, c)
        /\ audits' = [audits EXCEPT ![p] =
                        [c \in AllChecks |->
                           IF c \in Audited(run) /\ verdict[c] # "INCONCLUSIVE" THEN verdict[c] ELSE @[c]]]
        /\ at' = IF {c \in Audited(run) : Blocks(verdict[c], c)} = {} /\ Closed(run)
                   THEN "certified" ELSE otherwise
  BY DEF AuditAndDecide
<1>2. Audited(run) \subseteq AllIn(targetChecks) /\ Audited(run) \subseteq AllChecks
  BY StateChecksAreChecks DEF Audited
<1>3. audits \in [Checkpoints -> [AllChecks -> {"none", "SURVIVOR", "DISCRIMINATES"}]]
  BY DEF LedgerType
<1>4. \A q \in Checkpoints \ {p} : audits'[q] = audits[q]
  BY <1>1, <1>3
<1>5. \A c \in AllChecks :
        audits'[p][c] = IF c \in Audited(run) /\ verdict[c] # "INCONCLUSIVE"
                          THEN verdict[c] ELSE audits[p][c]
  BY <1>1, <1>3
<1>6. audits' \in [Checkpoints -> [AllChecks -> {"none", "SURVIVOR", "DISCRIMINATES"}]]
  <2> DEFINE row == [c \in AllChecks |->
                       IF c \in Audited(run) /\ verdict[c] # "INCONCLUSIVE"
                         THEN verdict[c] ELSE audits[p][c]]
  <2>1. row \in [AllChecks -> {"none", "SURVIVOR", "DISCRIMINATES"}]
    BY <1>3 DEF Verdicts
  <2>2. audits' = [audits EXCEPT ![p] = row]
    BY <1>1
  <2> HIDE DEF row
  <2> QED BY <2>1, <2>2, <1>3
<1>7. ASSUME NEW c \in Audited(run), audits[p][c] = "SURVIVOR" PROVE verdict[c] = "SURVIVOR"
  <2>1. c \in Mutable
    BY <1>2, <1>7 DEF SurvivorsAreHard
  <2> QED BY <2>1, <1>1, <1>7 DEF AuditOf, Cached
<1>8. ASSUME NEW q \in Checkpoints, NEW c \in AllChecks, audits[q][c] = "SURVIVOR"
      PROVE  audits'[q][c] = "SURVIVOR"
  <2>1. CASE q = p
    BY <2>1, <1>5, <1>7, <1>8
  <2>2. CASE q # p
    BY <2>2, <1>4, <1>8
  <2> QED BY <2>1, <2>2
<1>9. ASSUME NEW q \in Checkpoints, NEW c \in AllChecks, audits'[q][c] = "SURVIVOR"
      PROVE  c.goal \in HardGoals /\ c \in Mutable
  <2>1. CASE audits[q][c] = "SURVIVOR"
    BY <2>1 DEF SurvivorsAreHard
  <2>2. CASE audits[q][c] # "SURVIVOR"
    <3>1. q = p /\ c \in Audited(run) /\ verdict[c] = "SURVIVOR"
      BY <2>2, <1>4, <1>5, <1>9
    <3>2. c \in Mutable
      BY <3>1, <1>1 DEF AuditOf
    <3> QED BY <3>1, <3>2 DEF Audited
  <2> QED BY <2>1, <2>2
<1>10. ASSUME at' = "certified"
       PROVE  Closed(run) /\ \A c \in AllIn(targetChecks) : audits[p][c] # "SURVIVOR"
  <2>1. Closed(run) /\ \A c \in Audited(run) : ~Blocks(verdict[c], c)
    BY <1>1, <1>10
  <2>2. ASSUME NEW c \in AllIn(targetChecks), audits[p][c] = "SURVIVOR" PROVE FALSE
    <3>1. c \in AllChecks
      BY StateChecksAreChecks
    <3>2. c.goal \in HardGoals
      BY <2>2, <3>1 DEF SurvivorsAreHard
    <3>3. c \in Audited(run)
      BY <3>2, <2>1 DEF Closed, Audited
    <3> QED BY <3>3, <2>1, <2>2, <1>7 DEF Blocks
  <2> QED BY <2>1, <2>2
<1>11. at' \in {"certified", otherwise}
  BY <1>1
<1> QED BY <1>6, <1>8, <1>9, <1>10, <1>11

\* What the certificate of a run promises.
FailToPass(run) ==
  /\ \A g \in HardGoals : \E c \in AllIn(targetChecks) :
       c.goal = g /\ Grounds(c) \cap baseline # {} /\ Passes(run, c.id)
  /\ \A id \in Ids :
       WasRun(run[id]) /\ ~Passes(run, id) =>
         /\ \A c \in AllIn(targetChecks) : c.id = id => c.goal \in SoftGoals
         /\ id \in IdsOf(AllIn(targetChecks)) \ IdsOf(preservationChecks)

\* The property in these words.
LEMMA ReachedInWords ==
  /\ ReachedIsFailToPass <=> (at = "certified" => FailToPass(record[final]))
  /\ ReachedIsFailToPass' <=> (at' = "certified" => FailToPass(record[final])')
BY DEF ReachedIsFailToPass, FailToPass

\* What closes every hard goal, and fails only what may stay open, changes from
\* failing to passing.
LEMMA ClosedIsFailToPass ==
  ASSUME Inv, NEW run \in Records, PotentiallyReached(run), Closed(run)
  PROVE  FailToPass(run)
<1> USE DEF Inv
<1>1. \A c \in AllIn(targetChecks) : c.goal \in Goals /\ Grounds(c) \cap baseline # {}
  BY DEF RecoveryInv, ChecksAreGrounded
<1>2. \A g \in HardGoals : \E c \in AllIn(targetChecks) : c.goal = g /\ Passes(run, c.id)
  BY DEF PotentiallyReached, PassesHardGoals, GoalsOf
<1>3. ASSUME NEW id \in Ids, WasRun(run[id]), ~Passes(run, id)
      PROVE  /\ \A c \in AllIn(targetChecks) : c.id = id => c.goal \in SoftGoals
             /\ id \in IdsOf(AllIn(targetChecks)) \ IdsOf(preservationChecks)
  <2>1. id \in MayStayOpen
    BY <1>3 DEF PotentiallyReached
  <2>2. \A c \in AllIn(targetChecks) : c.goal \in HardGoals => Passes(run, c.id)
    BY DEF Closed
  <2>3. \A c \in AllIn(targetChecks) : c.id = id => c.goal \in SoftGoals
    BY <1>1, <1>3, <2>2 DEF Goals
  <2> QED BY <2>1, <2>3 DEF MayStayOpen, IdsOf
<1> QED BY <1>1, <1>2, <1>3 DEF FailToPass

\* A certificate needs every goal closed by a passing target check.
LEMMA CertifyKeeps ==
  ASSUME Inv, Certify PROVE Inv'
<1> USE DEF Inv
<1> DEFINE run == record[working]
<1>1. /\ at = "open" /\ PotentiallyReached(run) /\ AuditAndDecide(working, run, "audited")
      /\ status' = [status EXCEPT ![working] = IF at' = "certified" THEN "CERTIFIED" ELSE @]
      /\ final' = IF at' = "certified" THEN working ELSE final
      /\ UNCHANGED <<recoveryVars, working, challengeChecks, results, record>>
  BY DEF Certify
<1>2. run \in Records /\ working \in Checkpoints
  BY DEF LedgerType
<1>3. /\ audits' \in [Checkpoints -> [AllChecks -> {"none", "SURVIVOR", "DISCRIMINATES"}]]
      /\ at' \in {"certified", "audited"}
      /\ \A q \in Checkpoints, c \in AllChecks :
           audits'[q][c] = "SURVIVOR" => c.goal \in HardGoals /\ c \in Mutable
      /\ at' = "certified" => Closed(run)
  BY <1>1, <1>2, AuditKeeps
<1>4. RecoveryInv'
  BY <1>1, HandlesWritten DEF recoveryVars, RecoveryInv, CaseType
<1>5. LedgerType' /\ ResultsAreHeld'
  BY <1>1, <1>3 DEF LedgerType, ResultsAreHeld
<1>6. CallsAreCounted' /\ EvidenceIsWhole'
  BY <1>1, <1>3 DEF CallsAreCounted, EvidenceIsWhole, EvidenceHolds, recoveryVars
<1>7. HandlesAreKept' /\ SurvivorsAreHard'
  BY <1>1, <1>3 DEF HandlesAreKept, SurvivorsAreHard, StateChecks, recoveryVars, lists
<1>8. ReachedIsFailToPass'
  <2> SUFFICES ASSUME at' = "certified" PROVE FailToPass(record[final])'
    BY ReachedInWords
  <2>1. record'[final'] = run /\ UNCHANGED <<targetChecks, preservationChecks, baseline>>
    BY <1>1 DEF recoveryVars, lists
  <2>2. Closed(run)
    BY <1>3
  <2>3. FailToPass(run)
    BY <2>2, <1>1, <1>2, ClosedIsFailToPass
  <2> HIDE DEF run
  <2> QED BY <2>1, <2>3 DEF FailToPass, Passes
<1> QED BY <1>4, <1>5, <1>6, <1>7, <1>8

\* A child is run on the checks of its parent and its own, all of which have
\* their nodes, and judged by what the run shows.
LEMMA TrialRuns ==
  ASSUME Inv, NEW p \in Trials, Trial(p)
  PROVE  /\ at \in {"open", "audited"} /\ status[p] = "none" /\ p \in Checkpoints
         /\ challengeChecks \subseteq challengeChecks' /\ challengeChecks' \subseteq Challenges
         /\ executable' = executable \cup IdsOf(StateChecks \cup challengeChecks')
         /\ executable \subseteq IdsOf(StateChecks \cup challengeChecks')
         /\ StateChecks \cup challengeChecks' \in SUBSET CaseChecks
         /\ UNCHANGED <<stage, recovered, call, agent, baseline, lists, results>>
         /\ \E run \in Records : Judge(p, run) /\ \A id \in Ids : run[id].held
<1> USE DEF Inv
<1> DEFINE checks == StateChecks \cup challengeChecks'
<1>1. /\ at \in {"open", "audited"} /\ status[p] = "none" /\ p \in Checkpoints
      /\ challengeChecks \subseteq challengeChecks' /\ challengeChecks' \subseteq Challenges
      /\ executable' = Registered(checks)
      /\ UNCHANGED <<stage, recovered, call, agent, baseline, lists, results>>
  BY DEF Trial, Uncertified, LedgerType, Checkpoints
<1>2. executable' = executable \cup IdsOf(checks) /\ executable \subseteq IdsOf(checks) /\ Resolves(checks)
  <2>1. IdsOf(StateChecks) \subseteq IdsOf(checks)
    BY DEF IdsOf
  <2> HIDE DEF checks
  <2> QED BY <1>1, <2>1 DEF HandlesAreKept, Registered, Resolves
<1>3. checks \in SUBSET CaseChecks
  BY <1>1, StateChecksAreChecks DEF CaseChecks
<1>4. PICK ofParent \in Queues(checks, working), ofTrial \in Queues(checks, p) :
        \E run \in Executions(ofParent \cup ofTrial, "TRIAL") : Judge(p, run)
  BY <1>2 DEF Trial
<1>5. ofParent \cup ofTrial \in SUBSET Ids
  <2> HIDE DEF checks
  <2> QED BY <1>3, <1>4, QueuesAreChecks
<1>6. PICK run \in Executions(ofParent \cup ofTrial, "TRIAL") : Judge(p, run)
  BY <1>4
<1>7. run \in Records /\ \A id \in Ids : run[id].held
  BY <1>5, <1>6, ExecutionsAreRecords
<1>8. \E r \in Records : Judge(p, r) /\ \A id \in Ids : r[id].held
  BY <1>6, <1>7
<1> QED BY <1>1, <1>2, <1>3, <1>8

\* A child enters the case with the results of one run, is retained, rejected
\* or certified, and disturbs nobody else's evidence.
LEMMA TrialKeeps ==
  ASSUME Inv, NEW p \in Trials, Trial(p) PROVE Inv'
<1> USE DEF Inv
<1> DEFINE checks == StateChecks \cup challengeChecks'
<1>1. /\ at \in {"open", "audited"} /\ status[p] = "none" /\ p \in Checkpoints
      /\ challengeChecks \subseteq challengeChecks' /\ challengeChecks' \subseteq Challenges
      /\ UNCHANGED <<stage, recovered, call, agent, baseline, lists, results>>
  BY TrialRuns
<1>2. executable' = executable \cup IdsOf(checks) /\ executable \subseteq IdsOf(checks)
  BY TrialRuns
<1>3. checks \in SUBSET CaseChecks
  BY TrialRuns
<1>4. PICK run \in Records : Judge(p, run) /\ \A id \in Ids : run[id].held
  BY TrialRuns
<1>6. Judge(p, run)
  BY <1>4
<1>7. run \in Records /\ \A id \in Ids : run[id].held
  BY <1>4
<1>8. record' = [record EXCEPT ![p] = run]
  BY <1>6 DEF Judge
<1>9. record' \in [Checkpoints -> Records] /\ record'[p] = run
      /\ \A q \in Checkpoints \ {p} : record'[q] = record[q]
  BY <1>1, <1>7, <1>8 DEF LedgerType
<1>10. RecoveryInv'
  <2>1. IdsOf(checks) \subseteq Ids
    BY <1>3 DEF Ids, IdsOf
  <2> QED BY <1>1, <1>2, <2>1, HandlesWritten DEF RecoveryInv, CaseType
<1>11. StateChecks' = checks
  BY <1>1 DEF StateChecks, lists
<1>12. /\ at' \in {"head", "certified"} /\ working' \in {p, working}
       /\ status' \in [Checkpoints -> {"none", "OPEN", "REJECTED", "CERTIFIED"}]
       /\ audits' \in [Checkpoints -> [AllChecks -> {"none", "SURVIVOR", "DISCRIMINATES"}]]
       /\ final' \in Checkpoints
       /\ \A q \in Checkpoints, c \in AllChecks :
            audits'[q][c] = "SURVIVOR" => c.goal \in HardGoals /\ c \in Mutable
       /\ at' = "certified" => PotentiallyReached(run) /\ Closed(run) /\ final' = p
  <2>1. CASE PotentiallyReached(run)
    <3>1. /\ AuditAndDecide(p, run, "head")
          /\ status' = [status EXCEPT ![p] = IF at' = "certified" THEN "CERTIFIED" ELSE "OPEN"]
          /\ working' = p
          /\ final' = IF at' = "certified" THEN p ELSE final
      BY <2>1, <1>6 DEF Judge
    <3>2. /\ audits' \in [Checkpoints -> [AllChecks -> {"none", "SURVIVOR", "DISCRIMINATES"}]]
          /\ at' \in {"certified", "head"}
          /\ \A q \in Checkpoints, c \in AllChecks :
               audits'[q][c] = "SURVIVOR" => c.goal \in HardGoals /\ c \in Mutable
          /\ at' = "certified" => Closed(run)
      BY <3>1, <1>1, <1>7, AuditKeeps
    <3>3. status' \in [Checkpoints -> {"none", "OPEN", "REJECTED", "CERTIFIED"}] /\ final' \in Checkpoints
      BY <3>1, <1>1 DEF LedgerType
    <3> QED BY <2>1, <3>1, <3>2, <3>3
  <2>2. CASE ~PotentiallyReached(run)
    <3>1. /\ at' = "head" /\ UNCHANGED <<audits, final>>
          /\ \E verdict \in {"OPEN", "REJECTED"} : status' = [status EXCEPT ![p] = verdict]
          /\ working' = IF status'[p] = "OPEN" THEN p ELSE working
      BY <2>2, <1>6 DEF Judge
    <3>2. status' \in [Checkpoints -> {"none", "OPEN", "REJECTED", "CERTIFIED"}]
      BY <3>1, <1>1 DEF LedgerType
    <3>3. working' \in {p, working}
      BY <3>1
    <3> QED BY <3>1, <3>2, <3>3 DEF LedgerType, SurvivorsAreHard
  <2> QED BY <2>1, <2>2
<1>13. LedgerType' /\ ResultsAreHeld'
  BY <1>1, <1>9, <1>12 DEF LedgerType, ResultsAreHeld
<1>14. CallsAreCounted'
  BY <1>1, <1>12 DEF CallsAreCounted
<1>15. HandlesAreKept'
  BY <1>1, <1>2, <1>11, <1>12 DEF HandlesAreKept, CallsAreCounted, lists
<1>16. EvidenceIsWhole'
  <2>1. \A q \in Checkpoints : EvidenceHolds(q)
    BY <1>1 DEF EvidenceIsWhole
  <2>2. \A q \in Checkpoints : EvidenceHolds(q)'
    <3> TAKE q \in Checkpoints
    <3>1. CASE q = p
      BY <3>1, <1>7, <1>9 DEF EvidenceHolds
    <3>2. CASE q # p
      BY <3>2, <2>1, <1>9 DEF EvidenceHolds
    <3> QED BY <3>1, <3>2
  <2>3. working' \in Checkpoints
    BY <1>13 DEF LedgerType
  <2> QED BY <2>2, <2>3 DEF EvidenceIsWhole, EvidenceHolds
<1>17. SurvivorsAreHard'
  BY <1>1, <1>12 DEF SurvivorsAreHard, lists
<1>18. ReachedIsFailToPass'
  <2> SUFFICES ASSUME at' = "certified" PROVE FailToPass(record[final])'
    BY ReachedInWords
  <2>1. record'[final'] = run /\ UNCHANGED <<targetChecks, preservationChecks, baseline>>
    BY <1>1, <1>9, <1>12 DEF lists
  <2>2. FailToPass(run)
    BY <1>7, <1>12, ClosedIsFailToPass
  <2> QED BY <2>1, <2>2 DEF FailToPass, Passes
<1> QED BY <1>10, <1>13, <1>14, <1>15, <1>16, <1>17, <1>18

-----------------------------------------------------------------------------
(* The theorems.                                                           *)

\* The case starts with the invariant.
LEMMA InitEstablishes == ASSUME Init PROVE Inv
<1> USE DEF Init
<1>1. RecoveryInv
  BY InitRecoveryEstablishes
<1>2. /\ recovered = 0 /\ stage = "idle" /\ targetChecks = <<>> /\ preservationChecks = {}
      /\ executable = {}
  BY DEF InitRecovery
<1>3. NoResults \in Records /\ \A id \in Ids : NoResults[id].held
  <2>1. NotRun \in ResultType /\ NotRun.held
    BY DEF NotRun, ResultType, Statuses
  <2> QED BY <2>1 DEF NoResults, Records
<1>4. LedgerType
  BY <1>3 DEF LedgerType, Checkpoints
<1>5. CallsAreCounted /\ HandlesAreKept /\ ResultsAreHeld
  <2>1. CallsAreCounted
    <3>1. at = "pre" /\ recovered <= 1 /\ recovered <= 2 + TargetRecoveryAttempts
      BY <1>2, Bounds
    <3> QED BY <1>2, <3>1 DEF CallsAreCounted
  <2>2. HandlesAreKept
    <3>1. ~(recovered >= 2)
      BY <1>2
    <3> QED BY <1>2, <3>1 DEF HandlesAreKept
  <2>3. ResultsAreHeld
    BY <1>3 DEF ResultsAreHeld
  <2> QED BY <2>1, <2>2, <2>3
<1>6. EvidenceIsWhole
  <2>1. \A q \in Checkpoints : EvidenceHolds(q)
    BY <1>3 DEF EvidenceHolds
  <2> QED BY <2>1, <1>4 DEF EvidenceIsWhole, LedgerType
<1>7. SurvivorsAreHard /\ ReachedIsFailToPass
  BY DEF SurvivorsAreHard, ReachedIsFailToPass
<1> QED BY <1>1, <1>4, <1>5, <1>6, <1>7 DEF Inv

\* Every step of the case keeps it.
LEMMA NextKeeps == ASSUME Inv, [Next]_vars PROVE Inv'
<1>1. CASE RecoveryStep /\ UNCHANGED caseVars
  BY <1>1, RecoveryKeepsLedger
<1>2. CASE PreRecovery \/ PostRecovery \/ RecoverEvidence
  BY <1>2, CallsKeepLedger
<1>3. CASE SaveP0 \/ EnterLoop \/ Switch \/ NextIteration \/ Exhaust \/ ExhaustInRecovery \/ Seal
  BY <1>3, LoopStepKeeps
<1>4. CASE ExecuteParent \/ ExecuteAgain
  BY <1>4, ExecutionsKeep
<1>5. CASE DeriveChallenges
  BY <1>5, DeriveChallengesKeeps
<1>6. CASE Refresh
  BY <1>6, RefreshKeeps
<1>7. CASE Certify
  BY <1>7, CertifyKeeps
<1>8. CASE \E p \in Trials : Trial(p)
  BY <1>8, TrialKeeps
<1>9. CASE UNCHANGED vars
  <2> USE <1>9 DEF vars, caseVars, recoveryVars
  <2>1. LedgerType' /\ CallsAreCounted' /\ EvidenceIsWhole' /\ ReachedIsFailToPass'
    BY DEF Inv, LedgerType, CallsAreCounted, EvidenceIsWhole, EvidenceHolds, ReachedIsFailToPass,
           lists
  <2>2. RecoveryInv'
    BY HandlesWritten DEF Inv, RecoveryInv, CaseType
  <2>3. HandlesAreKept' /\ SurvivorsAreHard' /\ ResultsAreHeld'
    BY DEF Inv, HandlesAreKept, SurvivorsAreHard, ResultsAreHeld, StateChecks, lists
  <2> QED BY <2>1, <2>2, <2>3 DEF Inv
<1> QED BY <1>1, <1>2, <1>3, <1>4, <1>5, <1>6, <1>7, <1>8, <1>9 DEF Next

\* The evidence of a case keeps the invariant, for all candidates and bounds.
THEOREM Invariance == Spec => []Inv
<1>1. Init => Inv
  BY InitEstablishes
<1>2. Inv /\ [Next]_vars => Inv'
  BY NextKeeps
<1> QED BY <1>1, <1>2, PTL DEF Spec

-----------------------------------------------------------------------------
(* What follows from it.                                                   *)

\* Of a conversation that stays within its bounds every turn offers a tool that
\* has a call the executor of the tools accepts.
LEMMA SomeToolIsUsable ==
  ASSUME RecoveryInv PROVE ForcedToolIsUsable
<1> USE DEF RecoveryInv, CallType, AgentType
<1>1. /\ DOMAIN probes = 1 .. Len(probes) /\ Len(probes) \in Nat /\ Len(probes) <= quota /\ quota \in Nat
      /\ quota >= 1 /\ \A p \in AllIn(probes) : \E i \in DOMAIN probes : probes[i] = p
  BY Bounds DEF AllIn
<1>2. CASE probes = <<>>
  <2>1. Len(probes) < quota
    BY <1>1, <1>2
  <2>2. Usable("write_probe")
    BY <2>1 DEF Usable
  <2>3. "write_probe" \in Offered
    BY <1>2 DEF Offered, Tools
  <2> QED BY <2>2, <2>3 DEF ForcedToolIsUsable
<1>3. CASE probes # <<>>
  <2> DEFINE Some(P(_)) == \E p \in AllIn(probes) : P(p)
  <2>1. CASE Some(NeedsContract)
    <3>1. "register_observation_contract" \in Offered
      BY <1>3, <2>1 DEF Offered
    <3>2. Usable("register_observation_contract")
      BY <1>3 DEF Usable
    <3> QED BY <3>1, <3>2 DEF ForcedToolIsUsable
  <2>2. CASE ~Some(NeedsContract) /\ Some(NeedsCleanRun)
    <3>1. "run_probe_on_clean" \in Offered
      BY <1>3, <2>2 DEF Offered
    <3>2. \E i \in DOMAIN probes : MayRun(Len(probes[i].clean), probes[i].cleanTries)
      BY <1>1, <2>2 DEF NeedsCleanRun, MayRun
    <3>3. Usable("run_probe_on_clean")
      BY <3>2 DEF Usable
    <3> QED BY <3>1, <3>3 DEF ForcedToolIsUsable
  <2>3. CASE ~Some(NeedsContract) /\ ~Some(NeedsCleanRun) /\ Some(NeedsWorkingRun)
    <3>1. "run_probe_on_working" \in Offered
      BY <1>3, <2>3 DEF Offered
    <3>2. \E i \in DOMAIN probes : MayRun(probes[i].working, probes[i].workingTries)
      BY <1>1, <2>3 DEF NeedsWorkingRun, MayRun
    <3>3. Usable("run_probe_on_working")
      BY <3>2 DEF Usable
    <3> QED BY <3>1, <3>3 DEF ForcedToolIsUsable
  <2>4. CASE ~Some(NeedsContract) /\ ~Some(NeedsCleanRun) /\ ~Some(NeedsWorkingRun)
    <3>1. CASE Len(probes) >= quota \/ Some(Complete)
      <4>1. "finish_target_recovery" \in Offered
        BY <1>3, <2>4, <3>1 DEF Offered
      <4>2. Usable("finish_target_recovery")
        BY DEF Usable
      <4> QED BY <4>1, <4>2 DEF ForcedToolIsUsable
    <3>2. CASE ~(Len(probes) >= quota \/ Some(Complete))
      <4>1. "write_probe" \in Offered
        BY <1>3, <2>4, <3>2 DEF Offered
      <4>2. Len(probes) < quota
        BY <1>1, <3>2
      <4>3. Usable("write_probe")
        BY <4>2 DEF Usable
      <4> QED BY <4>1, <4>3 DEF ForcedToolIsUsable
    <3> QED BY <3>1, <3>2
  <2> QED BY <2>1, <2>2, <2>3, <2>4
<1> QED BY <1>2, <1>3

\* The type invariants of the two components follow from the inductive one.
LEMMA TypesHold == ASSUME Inv PROVE TypeOKLedger
<1> USE DEF Inv, RecoveryInv, CallType, AgentType, CaseType
<1>1. /\ stage \in {"idle", "classify", "agent", "promote", "exhausted"}
      /\ quota \in 1 .. MaxProbes /\ transport \in BOOLEAN /\ review \in BOOLEAN
      /\ kept \subseteq AllChecks /\ turns \in 0 .. MaxTurns
      /\ baseline \subseteq AllChecks \X Outcomes /\ preservationChecks \subseteq AllChecks
  OBVIOUS
<1>2. recovered \in 0 .. 2 + TargetRecoveryAttempts
  BY Bounds DEF CallsAreCounted
<1>3. \A i \in DOMAIN queue :
        queue[i].check \in AllChecks /\ queue[i].list \in {"witness", "facet", "public", "contract"}
  <2> TAKE i \in DOMAIN queue
  <2>1. queue[i] \in Items
    BY ElementOfSeq
  <2> QED BY <2>1 DEF Items
<1>4. AllIn(found) \subseteq AllChecks /\ AllIn(targetChecks) \subseteq AllChecks
  BY AllInSeq
<1>5. /\ Len(probes) <= MaxProbes
      /\ DOMAIN probes = 1 .. Len(probes) /\ \A i \in 1 .. Len(probes) : probes[i] \in Probes
  <2>1. Len(probes) \in Nat /\ \A i \in 1 .. Len(probes) : probes[i] \in Probes
    BY ElementOfSeq
  <2> QED BY <2>1, Bounds
<1>6. \A i \in DOMAIN probes :
        /\ probes[i].contract \in Contracts
        /\ Len(probes[i].clean) <= StabilityRuns /\ probes[i].working <= StabilityRuns
        /\ probes[i].cleanTries <= AttemptLimit /\ probes[i].workingTries <= AttemptLimit
  BY <1>5 DEF Probes, Bounded
<1>7. TypeOK
  BY <1>1, <1>2, <1>3, <1>4, <1>5, <1>6 DEF TypeOK
<1>8. \A id \in Ids : results[id].status \in Statuses
  BY DEF LedgerType, Records, ResultType
<1>9. /\ \A p \in Checkpoints, id \in Ids :
           record[p][id].phase \in {"none", "PARENT", "PARENT_CHALLENGE", "TRIAL"}
      /\ \A p \in Checkpoints, c \in AllChecks :
           audits[p][c] \in {"none", "SURVIVOR", "DISCRIMINATES"}
  BY DEF LedgerType, Records, ResultType
<1> QED BY <1>7, <1>8, <1>9 DEF TypeOKLedger, LedgerType

\* A certified checkpoint has no mutant that survives one of the target checks the
\* case has, and an audit is not drawn again until it is lucky.
LEMMA SurvivorStands ==
  ASSUME Inv, [Next]_vars,
         NEW p \in Checkpoints, NEW c \in AllChecks, audits[p][c] = "SURVIVOR"
  PROVE  /\ audits'[p][c] = "SURVIVOR"
         /\ ~(at # "certified" /\ at' = "certified" /\ final' = p /\ c \in AllIn(targetChecks))
<1> USE DEF Inv
<1>1. CASE RecoveryStep /\ UNCHANGED caseVars
  BY <1>1 DEF caseVars
<1>2. CASE PreRecovery \/ PostRecovery \/ RecoverEvidence
  BY <1>2 DEF PreRecovery, PostRecovery, RecoverEvidence, caseVars
<1>3. CASE SaveP0 \/ EnterLoop \/ Switch \/ NextIteration \/ Exhaust \/ ExhaustInRecovery \/ Seal
  BY <1>3 DEF SaveP0, EnterLoop, Switch, NextIteration, Exhaust, ExhaustInRecovery, Seal
<1>4. CASE ExecuteParent \/ ExecuteAgain
  BY <1>4 DEF ExecuteParent, ExecuteAgain, Execute
<1>5. CASE DeriveChallenges \/ Refresh
  BY <1>5 DEF DeriveChallenges, Refresh
<1>6. CASE Certify
  <2>1. /\ AuditAndDecide(working, record[working], "audited")
        /\ final' = IF at' = "certified" THEN working ELSE final
        /\ record[working] \in Records /\ working \in Checkpoints
    BY <1>6 DEF Certify, LedgerType
  <2>2. /\ audits'[p][c] = "SURVIVOR"
        /\ at' = "certified" /\ c \in AllIn(targetChecks) => audits[working][c] # "SURVIVOR"
    BY <2>1, AuditKeeps
  <2> QED BY <2>1, <2>2
<1>7. CASE \E q \in Trials : Trial(q)
  <2>1. PICK q \in Trials : Trial(q)
    BY <1>7
  <2>2. PICK run \in Records : Judge(q, run)
    BY <2>1, TrialRuns
  <2>3. CASE ~PotentiallyReached(run)
    BY <2>2, <2>3 DEF Judge
  <2>4. CASE PotentiallyReached(run)
    <3>1. AuditAndDecide(q, run, "head") /\ final' = IF at' = "certified" THEN q ELSE final
      BY <2>2, <2>4 DEF Judge
    <3>2. q \in Checkpoints
      BY DEF Checkpoints
    <3>3. /\ audits'[p][c] = "SURVIVOR"
          /\ at' = "certified" /\ c \in AllIn(targetChecks) => audits[q][c] # "SURVIVOR"
      BY <3>1, <3>2, AuditKeeps
    <3> QED BY <3>1, <3>3
  <2> QED BY <2>3, <2>4
<1>8. CASE UNCHANGED vars
  BY <1>8 DEF vars, caseVars
<1> QED BY <1>1, <1>2, <1>3, <1>4, <1>5, <1>6, <1>7, <1>8 DEF Next

\* Whatever the candidates show, the model answers and a second call rebuilds, every
\* target check of the case failed on the clean snapshot with the comparator and goal
\* it has now, or its witness did, and states a goal; every preservation check passed
\* there, and no turn of the agent is forced to a tool that can only refuse
\* (recover_target_checks and its agent).
THEOREM ChecksComeFromFailures == Spec => []RecoveryIsGrounded
<1>1. Inv => RecoveryIsGrounded
  BY SomeToolIsUsable DEF Inv, RecoveryInv, RecoveryIsGrounded
<1> QED BY <1>1, Invariance, PTL

\* However recoveries, truncated lists and executions follow each other, the case
\* keeps the check of every executable obligation (no KeyError in _graph_checks),
\* and what the checkpoints persisted is what the graph observed wherever the loop
\* may seal the case by itself (validate_evidence).
THEOREM LedgerIsKept == Spec => []EvidenceIsKept
<1>1. Inv => EvidenceIsKept
  BY TypesHold DEF Inv, LedgerType, HandlesResolve, EvidenceIsKept
<1> QED BY <1>1, Invariance, PTL

\* A certified patch passes, for every hard goal, a check the clean snapshot
\* failed, and nothing that was run on it fails or is unknown but targets of soft
\* goals (all_reach_conditions_pass with evaluate_validation_closure).
THEOREM CertificatesAreFailToPass == Spec => []ReachedIsFailToPass
<1>1. Inv => ReachedIsFailToPass
  BY DEF Inv
<1> QED BY <1>1, Invariance, PTL

\* A surviving return mutation of a patch is never forgotten, and no certificate of
\* this patch follows it while the case has the check it survived
\* (audit_return_oracles).
THEOREM SurvivorsBlock == Spec => SurvivorBlocksForGood
<1>1. Inv /\ [Next]_vars =>
        \A p \in Checkpoints, c \in AllChecks :
          audits[p][c] = "SURVIVOR" =>
            /\ audits'[p][c] = "SURVIVOR"
            /\ ~(at # "certified" /\ at' = "certified" /\ final' = p /\ c \in AllIn(targetChecks))
  BY SurvivorStands
<1> QED BY <1>1, Invariance, PTL DEF Spec, SurvivorBlocksForGood

=============================================================================
