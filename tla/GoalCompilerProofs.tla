-------------------------- MODULE GoalCompilerProofs --------------------------
(***************************************************************************)
(* The budget of a case and the compilation of its goals.  The budget      *)
(* invariants hold for every budget, every request and every overrun; the  *)
(* compiler in front of the budget keeps to it, and the goals it compiles  *)
(* are grounded and keep their quotes, for every issue and every answer of *)
(* the model.                                                              *)
(*                                                                         *)
(* A fold has no induction theorem the provers can use, so the module      *)
(* proves once that the library's folds run through a sequence in order,   *)
(* and states it for each operator the compiler folds with.                *)
(***************************************************************************)
EXTENDS GoalCompiler, FiniteSetTheorems, WellFoundedInduction, TLAPS

-----------------------------------------------------------------------------
(* The budget of a case.                                                     *)

\* Least picks a lower bound that is one of the two, or three, values.
LEMMA LeastOfTwo ==
  ASSUME NEW a \in Int, NEW b \in Int
  PROVE  /\ Least({a, b}) \in {a, b}
         /\ Least({a, b}) <= a /\ Least({a, b}) <= b
<1>1. \E x \in {a, b} : \A y \in {a, b} : x <= y
  <2>1. CASE a <= b  BY <2>1
  <2>2. CASE b <= a  BY <2>2
  <2> QED  BY <2>1, <2>2
<1> QED  BY <1>1 DEF Least

LEMMA LeastOfThree ==
  ASSUME NEW a \in Int, NEW b \in Int, NEW c \in Int
  PROVE  /\ Least({a, b, c}) \in {a, b, c}
         /\ Least({a, b, c}) <= a /\ Least({a, b, c}) <= b /\ Least({a, b, c}) <= c
<1>1. \E x \in {a, b, c} : \A y \in {a, b, c} : x <= y
  <2>1. CASE a <= b /\ a <= c  BY <2>1
  <2>2. CASE b <= a /\ b <= c  BY <2>2
  <2>3. CASE c <= a /\ c <= b  BY <2>3
  <2> QED  BY <2>1, <2>2, <2>3
<1> QED  BY <1>1 DEF Least

\* The limits an operation computes before it starts.
LEMMA OutputLimitBounds ==
  ASSUME TypeOK, NEW input \in Inputs, NEW limit \in OutputLimits
  PROVE  /\ OutputLimit(input, limit) \in Int
         /\ tokens + input + OutputLimit(input, limit) <= MaxTokens
<1>1. limit \in Int /\ input \in Nat  BY RequestsArePositive
<1>2. MaxTokens - tokens - input \in Int  BY <1>1, BudgetIsPositive DEF TypeOK
<1>3. /\ OutputLimit(input, limit) \in Int
      /\ OutputLimit(input, limit) <= MaxTokens - tokens - input
  BY <1>1, <1>2, LeastOfTwo DEF OutputLimit
<1> QED  BY <1>1, <1>3, BudgetIsPositive DEF TypeOK

LEMMA RemainingWallBounds ==
  ASSUME TypeOK
  PROVE  remaining_wall \in Nat /\ (remaining_wall > 0 => now + remaining_wall = WallSeconds)
BY BudgetIsPositive DEF TypeOK, remaining_wall, NonNegative

LEMMA AllowanceBounds ==
  ASSUME TypeOK, NEW requested \in Timeouts, ExecutionAllowance(requested) > 0
  PROVE  /\ ExecutionAllowance(requested) \in Nat
         /\ now + ExecutionAllowance(requested) <= WallSeconds
         /\ execution_used + ExecutionAllowance(requested) <= ExecutionSeconds
<1> DEFINE left == NonNegative(ExecutionSeconds - execution_used)
<1>1. left \in Nat /\ (left > 0 => execution_used + left = ExecutionSeconds)
  BY BudgetIsPositive DEF TypeOK, NonNegative
<1>2. requested \in Nat  BY RequestsArePositive
<1>3. remaining_wall \in Nat /\ (remaining_wall > 0 => now + remaining_wall = WallSeconds)
  BY RemainingWallBounds
<1> HIDE DEF left
<1>4. ExecutionAllowance(requested) = Least({requested, remaining_wall, left})
  BY DEF ExecutionAllowance, left
<1>5. /\ ExecutionAllowance(requested) \in Nat
      /\ ExecutionAllowance(requested) <= remaining_wall
      /\ ExecutionAllowance(requested) <= left
  <2>1. /\ Least({requested, remaining_wall, left}) \in {requested, remaining_wall, left}
        /\ Least({requested, remaining_wall, left}) <= remaining_wall
        /\ Least({requested, remaining_wall, left}) <= left
    BY <1>1, <1>2, <1>3, LeastOfThree
  <2> QED  BY <2>1, <1>1, <1>2, <1>3, <1>4
<1> QED  BY <1>1, <1>3, <1>5, BudgetIsPositive DEF TypeOK

-----------------------------------------------------------------------------
\* The inductive invariant: the checked ones together, and nothing is reserved
\* but for a model call.
IInv ==
  /\ TypeOK
  /\ TokensWithinBudget
  /\ ChargesAreLogged
  /\ ReserveIsKept
  /\ ExecutionWithinBudget
  /\ inflight.kind # "MODEL" => inflight.reserved = 0

LEMMA IInvInit == Init => IInv
<1> SUFFICES ASSUME Init PROVE IInv
  OBVIOUS
<1> USE BudgetIsPositive, SlackIsNatural DEF Init, Idle
<1>1. TypeOK
  <2>1. inflight \in Calls /\ events \in [tokens : Nat, seconds : Nat]  BY DEF Calls
  <2>2. model_calls \in 0..MaxModelCalls  OBVIOUS
  <2> QED  BY <2>1, <2>2 DEF TypeOK
<1>2. TokensWithinBudget /\ ChargesAreLogged
  BY DEF TokensWithinBudget, ChargesAreLogged
<1>3. ReserveIsKept /\ ExecutionWithinBudget
  BY DEF ReserveIsKept, ExecutionWithinBudget
<1> QED  BY <1>1, <1>2, <1>3 DEF IInv

LEMMA IInvStep == IInv /\ [Next]_vars => IInv'
<1> SUFFICES ASSUME IInv, [Next]_vars PROVE IInv'
  OBVIOUS
<1> USE BudgetIsPositive, SlackIsNatural
<1> USE DEF IInv, TokensWithinBudget, ChargesAreLogged, ReserveIsKept,
            ExecutionWithinBudget
<1>1. CASE Tick
  <2>1. TypeOK'  BY <1>1 DEF Tick, TypeOK
  <2>2. now' <= inflight.deadline + Overrun \/ inflight = Idle
    BY <1>1 DEF Tick, TypeOK, Calls
  <2> QED  BY <1>1, <2>1, <2>2 DEF Tick, TypeOK, Calls, Idle
<1>2. CASE Bootstrap
  BY <1>2 DEF Bootstrap, TypeOK
<1>3. ASSUME NEW input \in Inputs, NEW limit \in OutputLimits, NEW timeout \in Timeouts,
             StartModelCall(input, limit, timeout)
      PROVE  IInv'
  <2> DEFINE output == OutputLimit(input, limit)
             room == remaining_wall - FinalValidationReserve
             time == Least({timeout, room})
  <2>1. input \in Nat /\ timeout \in Nat /\ timeout > 0  BY RequestsArePositive
  <2>2. output \in Nat /\ output > 0 /\ tokens + input + output <= MaxTokens
    BY <1>3, OutputLimitBounds DEF StartModelCall
  <2>3. room \in Nat /\ now + room + FinalValidationReserve = WallSeconds
    BY <1>3, RemainingWallBounds DEF StartModelCall, MayCallModel, TypeOK
  <2> HIDE DEF output, room
  <2>4. time \in Nat /\ time <= room
    <3>1. timeout \in Int /\ room \in Int  BY <2>1, <2>3
    <3>2. time \in {timeout, room} /\ time <= room  BY <3>1, LeastOfTwo
    <3> HIDE DEF time
    <3> QED  BY <2>1, <2>3, <3>2
  <2> HIDE DEF time
  <2>5. /\ tokens' = tokens + (input + output)
        /\ inflight' = [kind |-> "MODEL", reserved |-> input + output,
                        started |-> now, deadline |-> now + time]
        /\ model_calls' = model_calls + 1 /\ model_calls < MaxModelCalls
        /\ inflight = Idle
        /\ UNCHANGED <<now, execution_used, events, bootstrapped, ended>>
    BY <1>3 DEF StartModelCall, MayCallModel, Ready, output, room, time
  <2>6. TypeOK'
    BY <2>1, <2>2, <2>4, <2>5 DEF TypeOK, Calls
  <2>7. (TokensWithinBudget /\ ChargesAreLogged)'
    BY <2>1, <2>2, <2>5 DEF TypeOK, Idle
  <2>8. (ReserveIsKept /\ ExecutionWithinBudget)'
    BY <2>3, <2>4, <2>5 DEF TypeOK
  <2> QED  BY <2>5, <2>6, <2>7, <2>8
<1>4. ASSUME NEW input \in Inputs, NEW limit \in OutputLimits, NEW caller \in ModelCallers,
             RefuseModelCall(caller, input, limit)
      PROVE  IInv'
  BY <1>4 DEF RefuseModelCall, Exhausted, TypeOK
<1>5. CASE ModelCallEnds
  <2>1. PICK charged \in 0..(inflight.reserved + Excess) :
          tokens' = Settled(charged) /\ events' = [events EXCEPT !.tokens = @ + charged]
    BY <1>5 DEF ModelCallEnds
  <2>2. inflight.kind = "MODEL" /\ inflight' = Idle
        /\ UNCHANGED <<now, model_calls, execution_used, bootstrapped, ended>>
    BY <1>5 DEF ModelCallEnds
  <2>3. charged \in Nat /\ charged <= inflight.reserved + Excess
    BY DEF TypeOK, Calls
  <2>4. /\ tokens' = events.tokens + charged /\ tokens' <= tokens + Excess
        /\ events'.tokens = events.tokens + charged
        /\ events'.seconds = events.seconds
        /\ events' \in [tokens : Nat, seconds : Nat]
    BY <2>1, <2>3 DEF Settled, TypeOK, Calls
  <2>5. TypeOK'
    BY <2>2, <2>3, <2>4 DEF TypeOK, Calls, Idle
  <2> QED  BY <2>2, <2>3, <2>4, <2>5 DEF TypeOK, Idle
<1>6. CASE ModelCallFails
  BY <1>6 DEF ModelCallFails, TypeOK, Calls, Idle
<1>7. ASSUME NEW requested \in Timeouts, StartExecution(requested)
      PROVE  IInv'
  BY <1>7, AllowanceBounds DEF StartExecution, Ready, TypeOK, Calls, Idle
<1>8. ASSUME NEW requested \in Timeouts, NEW caller \in ExecutionCallers,
             RefuseExecution(caller, requested)
      PROVE  IInv'
  BY <1>8 DEF RefuseExecution, Exhausted, TypeOK
<1>9. CASE ExecutionEnds
  BY <1>9 DEF ExecutionEnds, TypeOK, Calls, Idle
<1>10. CASE CaseEnds
  BY <1>10 DEF CaseEnds, TypeOK
<1>11. CASE Finished \/ UNCHANGED vars
  BY <1>11 DEF Finished, vars, TypeOK
<1> QED
  BY <1>1, <1>2, <1>3, <1>4, <1>5, <1>6, <1>7, <1>8, <1>9, <1>10, <1>11 DEF Next

LEMMA IInvHolds == Spec => []IInv
<1>1. Init => IInv  BY IInvInit
<1>2. IInv /\ [Next]_vars => IInv'  BY IInvStep
<1> QED  BY <1>1, <1>2, PTL DEF Spec

-----------------------------------------------------------------------------
\* The accounts keep their shape, and the call counter its limit.
THEOREM TypeCorrect == Spec => []TypeOK
<1>1. IInv => TypeOK  BY DEF IInv
<1> QED  BY <1>1, IInvHolds, PTL

\* Whatever is reserved, settled, refused or failed, in any order, the tokens
\* charged to a case exceed its budget by at most the excess of one answer.
THEOREM TokensAreBounded == Spec => []TokensWithinBudget
<1>1. IInv => TokensWithinBudget  BY DEF IInv
<1> QED  BY <1>1, IInvHolds, PTL

\* Every token and every second charged is in the event log exactly once.
THEOREM ChargesAreAccounted == Spec => []ChargesAreLogged
<1>1. IInv => ChargesAreLogged  BY DEF IInv
<1> QED  BY <1>1, IInvHolds, PTL

\* Model calls stay out of the reserve and executions within the wall clock.
THEOREM ReserveIsSafe == Spec => []ReserveIsKept
<1>1. IInv => ReserveIsKept  BY DEF IInv
<1> QED  BY <1>1, IInvHolds, PTL

\* The execution budget is exceeded by at most the overrun of one execution.
THEOREM ExecutionIsBounded == Spec => []ExecutionWithinBudget
<1>1. IInv => ExecutionWithinBudget  BY DEF IInv
<1> QED  BY <1>1, IInvHolds, PTL

\* No account of a case exceeds its budget by more than one answer or one
\* execution, and every charge is in the log.
THEOREM BudgetHolds == Spec => []BudgetIsKept
BY TypeCorrect, TokensAreBounded, ExecutionIsBounded, ChargesAreAccounted, PTL
   DEF BudgetIsKept

-----------------------------------------------------------------------------
(* Folds.                                                                    *)

\* What holds at 0 and passes on to each next number up to n.
LEMMA PrefixInduction ==
  ASSUME NEW n \in Nat, NEW Good, 0 \in Good, \A k \in 1 .. n : k - 1 \in Good => k \in Good
  PROVE  \A k \in 0 .. n : k \in Good
<1> DEFINE Less == {pair \in Nat \X Nat : pair[1] < pair[2]}
           T    == {k \in 0 .. n : k \notin Good}
<1>1. SUFFICES T = {}  OBVIOUS
<1>2. SUFFICES ASSUME T # {} PROVE FALSE  OBVIOUS
<1>3. IsWellFoundedOn(Less, Nat)  BY NatLessThanWellFounded DEF OpToRel
<1>4. T \in SUBSET Nat  OBVIOUS
<1>5. PICK k \in T : \A m \in T : <<m, k>> \notin Less  BY <1>2, <1>3, <1>4, WFMin
<1>6. k \in Nat /\ k # 0 /\ k \in 1 .. n  BY <1>5
<1>7. k - 1 \in Nat /\ k - 1 < k /\ k - 1 \in 0 .. n  BY <1>6
<1>8. k - 1 \notin T  BY <1>5, <1>6, <1>7
<1> QED  BY <1>5, <1>6, <1>7, <1>8

LEMMA MaxOfPrefix ==
  ASSUME NEW k \in Nat, NEW s \in SUBSET (1 .. k), k \in s
  PROVE  Max(s) = k
<1>1. \A y \in s : k >= y  OBVIOUS
<1>2. \A x \in s : (\A y \in s : x >= y) => x = k  OBVIOUS
<1> QED  BY <1>1, <1>2 DEF Max

LEMMA MaxExists ==
  ASSUME NEW n \in Nat, NEW s \in SUBSET (0 .. n), s # {}
  PROVE  Max(s) \in s /\ \A y \in s : y <= Max(s)
<1> DEFINE Good == {k \in 0 .. n : \A r \in SUBSET (0 .. k) :
                      r # {} => \E x \in r : \A y \in r : x >= y}
<1>1. 0 \in Good
  <2>1. 0 .. 0 = {0}  OBVIOUS
  <2>2. ASSUME NEW r \in SUBSET {0}, r # {}  PROVE 0 \in r /\ \A y \in r : 0 >= y
    <3>1. \A y \in r : y = 0  OBVIOUS
    <3>2. PICK x \in r : TRUE  BY <2>2
    <3>3. 0 \in r  BY <3>1, <3>2
    <3> QED  BY <3>1, <3>3
  <2> QED  BY <2>1, <2>2
<1>2. ASSUME NEW k \in 1 .. n, k - 1 \in Good  PROVE k \in Good
  <2>1. SUFFICES ASSUME NEW r \in SUBSET (0 .. k), r # {}
                 PROVE  \E x \in r : \A y \in r : x >= y
    OBVIOUS
  <2>2. CASE k \in r  BY <2>2
  <2>3. CASE k \notin r
    <3>1. r \in SUBSET (0 .. k - 1)  BY <2>3
    <3> QED  BY <3>1, <2>1, <1>2
  <2> QED  BY <2>2, <2>3
<1>3. n \in Good  
  <2> HIDE DEF Good
  <2> QED BY <1>1, <1>2, PrefixInduction
<1>4. \E x \in s : \A y \in s : x >= y  BY <1>3
<1> QED  BY <1>4 DEF Max

LEMMA MaxInPrefix ==
  ASSUME NEW n \in Nat, NEW s \in SUBSET (1 .. n), s # {}
  PROVE  Max(s) \in 1 .. n
<1>1. s \in SUBSET (0 .. n)  OBVIOUS
<1> QED  BY <1>1, MaxExists

\* g folds F over every subset of the places 1 .. n; h is the run along the places.
IsFold(g, n, A, base, F) ==
  /\ g \in [SUBSET (1 .. n) -> A]
  /\ \A s \in SUBSET (1 .. n) :
       g[s] = IF s = {} THEN base ELSE F[<<g[s \ {Max(s)}], Max(s)>>]

IsRun(h, n, A, base, F) ==
  /\ h \in [0 .. n -> A] /\ h[0] = base
  /\ \A k \in 1 .. n : h[k] = F[<<h[k - 1], k>>]

Along(g, n) == [k \in 0 .. n |-> g[1 .. k]]

IsFoldFrom(g, n, A, base, F) ==
  /\ g[{}] = base
  /\ \A s \in SUBSET (1 .. n) :
       s # {} /\ g[s \ {Max(s)}] \in A => g[s] = F[<<g[s \ {Max(s)}], Max(s)>>]

\* A fold is well defined.
LEMMA FoldExists ==
  ASSUME NEW n \in Nat, NEW A, NEW base \in A, NEW F \in [A \X (1 .. n) -> A]
  PROVE  \E g : IsFold(g, n, A, base, F)
<1> DEFINE Good == {k \in 0 .. n : \E g : IsFold(g, k, A, base, F)}
<1>1. 0 \in Good
  <2> DEFINE h == [s \in SUBSET (1 .. 0) |-> base]
  <2>1. 1 .. 0 = {}  OBVIOUS
  <2>2. IsFold(h, 0, A, base, F)  BY <2>1 DEF IsFold
  <2> QED  BY <2>2
<1>2. ASSUME NEW k \in 1 .. n, k - 1 \in Good  PROVE k \in Good
  <2>1. PICK g : IsFold(g, k - 1, A, base, F)  BY <1>2
  <2> DEFINE h == [s \in SUBSET (1 .. k) |-> IF k \in s THEN F[<<g[s \ {k}], k>>] ELSE g[s]]
  <2>2. \A s \in SUBSET (1 .. k) : s \ {k} \in SUBSET (1 .. k - 1)  OBVIOUS
  <2>3. h \in [SUBSET (1 .. k) -> A]
    <3>1. ASSUME NEW s \in SUBSET (1 .. k)
          PROVE  (IF k \in s THEN F[<<g[s \ {k}], k>>] ELSE g[s]) \in A
      <4>1. CASE k \in s
        <5>1. g[s \ {k}] \in A  BY <2>1, <2>2 DEF IsFold
        <5> QED  BY <4>1, <5>1
      <4>2. CASE k \notin s
        <5>1. s = s \ {k}  BY <4>2
        <5>2. g[s] \in A  BY <2>1, <2>2, <5>1 DEF IsFold
        <5> QED  BY <4>2, <5>2
      <4> QED  BY <4>1, <4>2
    <3> QED  BY <3>1
  <2>4. ASSUME NEW s \in SUBSET (1 .. k)
        PROVE  h[s] = IF s = {} THEN base ELSE F[<<h[s \ {Max(s)}], Max(s)>>]
    <3>1. CASE k \in s
      <4>1. Max(s) = k /\ s # {}  BY <3>1, MaxOfPrefix
      <4>2. h[s \ {k}] = g[s \ {k}]  OBVIOUS
      <4> QED  BY <3>1, <4>1, <4>2
    <3>2. CASE k \notin s
      <4>1. s \in SUBSET (1 .. k - 1)  BY <3>2
      <4>2. h[s] = g[s] /\ h[s \ {Max(s)}] = g[s \ {Max(s)}]  BY <3>2
      <4>3. g[s] = IF s = {} THEN base ELSE F[<<g[s \ {Max(s)}], Max(s)>>]  BY <2>1, <4>1 DEF IsFold
      <4> QED  BY <4>2, <4>3
    <3> QED  BY <3>1, <3>2
  <2> HIDE DEF h
  <2>5. IsFold(h, k, A, base, F)  BY <2>3, <2>4 DEF IsFold
  <2> QED  BY <2>5
<1>3. n \in Good
  <2> HIDE DEF Good
  <2> QED  BY <1>1, <1>2, PrefixInduction
<1> QED  BY <1>3

\* A fold over all places runs through them in order.
LEMMA FoldIsRun ==
  ASSUME NEW n \in Nat, NEW A, NEW base \in A, NEW F \in [A \X (1 .. n) -> A],
         NEW g, IsFoldFrom(g, n, A, base, F)
  PROVE  IsRun(Along(g, n), n, A, base, F)
<1> DEFINE h == Along(g, n)
<1>1. h[0] = base
  <2>1. 1 .. 0 = {}  OBVIOUS
  <2> QED  BY <2>1 DEF IsFoldFrom, Along
<1>2. ASSUME NEW k \in 1 .. n, h[k - 1] \in A  PROVE h[k] = F[<<h[k - 1], k>>]
  <2>1. k \in 1 .. k /\ Max(1 .. k) = k  BY MaxOfPrefix
  <2>2. (1 .. k) \ {k} = 1 .. k - 1 /\ 1 .. k \in SUBSET (1 .. n)  OBVIOUS
  <2>3. h[k - 1] = g[1 .. k - 1] /\ h[k] = g[1 .. k]  BY DEF Along
  <2> HIDE DEF h
  <2>4. g[(1 .. k) \ {k}] \in A  BY <1>2, <2>2, <2>3
  <2> QED  BY <2>1, <2>2, <2>3, <2>4 DEF IsFoldFrom
<1> HIDE DEF h
<1>3. \A k \in 0 .. n : h[k] \in A
  <2> DEFINE Good == {k \in 0 .. n : h[k] \in A}
  <2>1. 0 \in Good  BY <1>1
  <2>2. ASSUME NEW k \in 1 .. n, k - 1 \in Good  PROVE k \in Good
    <3>1. h[k] = F[<<h[k - 1], k>>]  BY <1>2, <2>2
    <3> QED  BY <2>2, <3>1
  <2>3. \A k \in 0 .. n : k \in Good
    <3> HIDE DEF Good
    <3> QED  BY <2>1, <2>2, PrefixInduction
  <2> QED  BY <2>3
<1>4. \A k \in 1 .. n : h[k] = F[<<h[k - 1], k>>]
  <2> TAKE k \in 1 .. n
  <2>1. h[k - 1] \in A  BY <1>3
  <2> QED  BY <1>2, <2>1
<1>5. h \in [0 .. n -> A]  BY <1>3 DEF h, Along
<1> QED  BY <1>1, <1>4, <1>5 DEF IsRun, h

-----------------------------------------------------------------------------
(* The folds of the compiler.                                                *)

\* Claims are added one by one.
LEMMA AddClaimType ==
  ASSUME NEW A, NEW base \in A, NEW seq, seq \in Seq(ToSet(seq)),
         \A x \in A, i \in 1 .. Len(seq) : AddClaim(x, seq[i]) \in A
  PROVE  FoldLeft(AddClaim, base, seq) \in A
<1> DEFINE n == Len(seq)
           F == [p \in A \X (1 .. n) |-> AddClaim(p[1], seq[p[2]])]
           Folded(f) == [s \in SUBSET (1 .. n) |->
                         IF s = {} THEN base ELSE AddClaim(f[s \ {Max(s)}], seq[Max(s)])]
           iter == CHOOSE f : f = Folded(f)
<1>1. n \in Nat /\ DOMAIN seq = 1 .. n /\ F \in [A \X (1 .. n) -> A]  OBVIOUS
<1>2. \A x \in A, i \in 1 .. n : F[<<x, i>>] = AddClaim(x, seq[i])  OBVIOUS
<1> HIDE DEF F
<1>3. PICK g : IsFold(g, n, A, base, F)
  <2> HIDE DEF n
  <2> QED  BY <1>1, FoldExists
<1>4. g = Folded(g)
  <2>1. ASSUME NEW s \in SUBSET (1 .. n)
        PROVE  g[s] = IF s = {} THEN base ELSE AddClaim(g[s \ {Max(s)}], seq[Max(s)])
    <3>1. CASE s = {}  BY <1>3, <3>1 DEF IsFold
    <3>2. CASE s # {}
      <4>1. Max(s) \in 1 .. n  BY <1>1, <3>2, MaxInPrefix
      <4>2. /\ g[s \ {Max(s)}] \in A
            /\ g[s] = F[<<g[s \ {Max(s)}], Max(s)>>]
        BY <1>3, <3>2 DEF IsFold
      <4> QED  BY <1>2, <3>2, <4>1, <4>2
    <3> QED  BY <3>1, <3>2
  <2> QED  BY <1>3, <2>1 DEF IsFold
<1>5. iter = Folded(iter)  BY <1>4
<1>6. iter[1 .. n] = FoldLeft(AddClaim, base, seq)
  BY <1>1 DEF FoldLeft, MapThenFoldSet
<1> HIDE DEF iter
<1>7. IsFoldFrom(iter, n, A, base, F)
  <2>1. ASSUME NEW s \in SUBSET (1 .. n), s # {}, iter[s \ {Max(s)}] \in A
        PROVE  iter[s] = F[<<iter[s \ {Max(s)}], Max(s)>>]
    <3>1. Max(s) \in 1 .. n  BY <1>1, <2>1, MaxInPrefix
    <3> QED  BY <1>2, <1>5, <2>1, <3>1
  <2>2. iter[{}] = base  BY <1>5
  <2> QED  BY <2>1, <2>2 DEF IsFoldFrom
<1> DEFINE h == Along(iter, n)
<1>8. IsRun(h, n, A, base, F)
  <2> HIDE DEF n
  <2> QED  BY <1>1, <1>7, FoldIsRun
<1>9. h[n] = iter[1 .. n]  BY <1>1 DEF Along
<1> HIDE DEF h
<1> QED  BY <1>1, <1>6, <1>8, <1>9 DEF IsRun

\* So are scripts,
LEMMA AddScriptType ==
  ASSUME NEW A, NEW base \in A, NEW seq, seq \in Seq(ToSet(seq)),
         \A x \in A, i \in 1 .. Len(seq) : AddScript(x, seq[i]) \in A
  PROVE  FoldLeft(AddScript, base, seq) \in A
<1> DEFINE n == Len(seq)
           F == [p \in A \X (1 .. n) |-> AddScript(p[1], seq[p[2]])]
           Folded(f) == [s \in SUBSET (1 .. n) |->
                         IF s = {} THEN base ELSE AddScript(f[s \ {Max(s)}], seq[Max(s)])]
           iter == CHOOSE f : f = Folded(f)
<1>1. n \in Nat /\ DOMAIN seq = 1 .. n /\ F \in [A \X (1 .. n) -> A]  OBVIOUS
<1>2. \A x \in A, i \in 1 .. n : F[<<x, i>>] = AddScript(x, seq[i])  OBVIOUS
<1> HIDE DEF F
<1>3. PICK g : IsFold(g, n, A, base, F)
  <2> HIDE DEF n
  <2> QED  BY <1>1, FoldExists
<1>4. g = Folded(g)
  <2>1. ASSUME NEW s \in SUBSET (1 .. n)
        PROVE  g[s] = IF s = {} THEN base ELSE AddScript(g[s \ {Max(s)}], seq[Max(s)])
    <3>1. CASE s = {}  BY <1>3, <3>1 DEF IsFold
    <3>2. CASE s # {}
      <4>1. Max(s) \in 1 .. n  BY <1>1, <3>2, MaxInPrefix
      <4>2. /\ g[s \ {Max(s)}] \in A
            /\ g[s] = F[<<g[s \ {Max(s)}], Max(s)>>]
        BY <1>3, <3>2 DEF IsFold
      <4> QED  BY <1>2, <3>2, <4>1, <4>2
    <3> QED  BY <3>1, <3>2
  <2> QED  BY <1>3, <2>1 DEF IsFold
<1>5. iter = Folded(iter)  BY <1>4
<1>6. iter[1 .. n] = FoldLeft(AddScript, base, seq)
  BY <1>1 DEF FoldLeft, MapThenFoldSet
<1> HIDE DEF iter
<1>7. IsFoldFrom(iter, n, A, base, F)
  <2>1. ASSUME NEW s \in SUBSET (1 .. n), s # {}, iter[s \ {Max(s)}] \in A
        PROVE  iter[s] = F[<<iter[s \ {Max(s)}], Max(s)>>]
    <3>1. Max(s) \in 1 .. n  BY <1>1, <2>1, MaxInPrefix
    <3> QED  BY <1>2, <1>5, <2>1, <3>1
  <2>2. iter[{}] = base  BY <1>5
  <2> QED  BY <2>1, <2>2 DEF IsFoldFrom
<1> DEFINE h == Along(iter, n)
<1>8. IsRun(h, n, A, base, F)
  <2> HIDE DEF n
  <2> QED  BY <1>1, <1>7, FoldIsRun
<1>9. h[n] = iter[1 .. n]  BY <1>1 DEF Along
<1> HIDE DEF h
<1> QED  BY <1>1, <1>6, <1>8, <1>9 DEF IsRun

\* and public checks,
LEMMA AddCheckType ==
  ASSUME NEW A, NEW base \in A, NEW seq, seq \in Seq(ToSet(seq)),
         \A x \in A, i \in 1 .. Len(seq) : AddCheck(x, seq[i]) \in A
  PROVE  FoldLeft(AddCheck, base, seq) \in A
<1> DEFINE n == Len(seq)
           F == [p \in A \X (1 .. n) |-> AddCheck(p[1], seq[p[2]])]
           Folded(f) == [s \in SUBSET (1 .. n) |->
                         IF s = {} THEN base ELSE AddCheck(f[s \ {Max(s)}], seq[Max(s)])]
           iter == CHOOSE f : f = Folded(f)
<1>1. n \in Nat /\ DOMAIN seq = 1 .. n /\ F \in [A \X (1 .. n) -> A]  OBVIOUS
<1>2. \A x \in A, i \in 1 .. n : F[<<x, i>>] = AddCheck(x, seq[i])  OBVIOUS
<1> HIDE DEF F
<1>3. PICK g : IsFold(g, n, A, base, F)
  <2> HIDE DEF n
  <2> QED  BY <1>1, FoldExists
<1>4. g = Folded(g)
  <2>1. ASSUME NEW s \in SUBSET (1 .. n)
        PROVE  g[s] = IF s = {} THEN base ELSE AddCheck(g[s \ {Max(s)}], seq[Max(s)])
    <3>1. CASE s = {}  BY <1>3, <3>1 DEF IsFold
    <3>2. CASE s # {}
      <4>1. Max(s) \in 1 .. n  BY <1>1, <3>2, MaxInPrefix
      <4>2. /\ g[s \ {Max(s)}] \in A
            /\ g[s] = F[<<g[s \ {Max(s)}], Max(s)>>]
        BY <1>3, <3>2 DEF IsFold
      <4> QED  BY <1>2, <3>2, <4>1, <4>2
    <3> QED  BY <3>1, <3>2
  <2> QED  BY <1>3, <2>1 DEF IsFold
<1>5. iter = Folded(iter)  BY <1>4
<1>6. iter[1 .. n] = FoldLeft(AddCheck, base, seq)
  BY <1>1 DEF FoldLeft, MapThenFoldSet
<1> HIDE DEF iter
<1>7. IsFoldFrom(iter, n, A, base, F)
  <2>1. ASSUME NEW s \in SUBSET (1 .. n), s # {}, iter[s \ {Max(s)}] \in A
        PROVE  iter[s] = F[<<iter[s \ {Max(s)}], Max(s)>>]
    <3>1. Max(s) \in 1 .. n  BY <1>1, <2>1, MaxInPrefix
    <3> QED  BY <1>2, <1>5, <2>1, <3>1
  <2>2. iter[{}] = base  BY <1>5
  <2> QED  BY <2>1, <2>2 DEF IsFoldFrom
<1> DEFINE h == Along(iter, n)
<1>8. IsRun(h, n, A, base, F)
  <2> HIDE DEF n
  <2> QED  BY <1>1, <1>7, FoldIsRun
<1>9. h[n] = iter[1 .. n]  BY <1>1 DEF Along
<1> HIDE DEF h
<1> QED  BY <1>1, <1>6, <1>8, <1>9 DEF IsRun

\* and the goals that are kept when the markers go,
TakesAddNamed(A, seq) == \A x \in A, i \in 1 .. Len(seq) : AddNamed(x, seq[i]) \in A
RunsAddNamed(h, A, base, seq) ==
  /\ h \in [0 .. Len(seq) -> A] /\ h[0] = base /\ h[Len(seq)] = FoldLeft(AddNamed, base, seq)
  /\ \A k \in 1 .. Len(seq) : h[k] = AddNamed(h[k - 1], seq[k])

LEMMA AddNamedSteps ==
  ASSUME NEW A, NEW base \in A, NEW seq, seq \in Seq(ToSet(seq)),
         TakesAddNamed(A, seq)
  PROVE  \E h : RunsAddNamed(h, A, base, seq)
<1> DEFINE n == Len(seq)
           F == [p \in A \X (1 .. n) |-> AddNamed(p[1], seq[p[2]])]
           Folded(f) == [s \in SUBSET (1 .. n) |->
                         IF s = {} THEN base ELSE AddNamed(f[s \ {Max(s)}], seq[Max(s)])]
           iter == CHOOSE f : f = Folded(f)
<1>1. n \in Nat /\ DOMAIN seq = 1 .. n /\ F \in [A \X (1 .. n) -> A]  BY DEF TakesAddNamed
<1>2. \A x \in A, i \in 1 .. n : F[<<x, i>>] = AddNamed(x, seq[i])  OBVIOUS
<1> HIDE DEF F
<1>3. PICK g : IsFold(g, n, A, base, F)
  <2> HIDE DEF n
  <2> QED  BY <1>1, FoldExists
<1>4. g = Folded(g)
  <2>1. ASSUME NEW s \in SUBSET (1 .. n)
        PROVE  g[s] = IF s = {} THEN base ELSE AddNamed(g[s \ {Max(s)}], seq[Max(s)])
    <3>1. CASE s = {}  BY <1>3, <3>1 DEF IsFold
    <3>2. CASE s # {}
      <4>1. Max(s) \in 1 .. n  BY <1>1, <3>2, MaxInPrefix
      <4>2. /\ g[s \ {Max(s)}] \in A
            /\ g[s] = F[<<g[s \ {Max(s)}], Max(s)>>]
        BY <1>3, <3>2 DEF IsFold
      <4> QED  BY <1>2, <3>2, <4>1, <4>2
    <3> QED  BY <3>1, <3>2
  <2> QED  BY <1>3, <2>1 DEF IsFold
<1>5. iter = Folded(iter)  BY <1>4
<1>6. iter[1 .. n] = FoldLeft(AddNamed, base, seq)
  BY <1>1 DEF FoldLeft, MapThenFoldSet
<1> HIDE DEF iter
<1>7. IsFoldFrom(iter, n, A, base, F)
  <2>1. ASSUME NEW s \in SUBSET (1 .. n), s # {}, iter[s \ {Max(s)}] \in A
        PROVE  iter[s] = F[<<iter[s \ {Max(s)}], Max(s)>>]
    <3>1. Max(s) \in 1 .. n  BY <1>1, <2>1, MaxInPrefix
    <3> QED  BY <1>2, <1>5, <2>1, <3>1
  <2>2. iter[{}] = base  BY <1>5
  <2> QED  BY <2>1, <2>2 DEF IsFoldFrom
<1> DEFINE h == Along(iter, n)
<1>8. IsRun(h, n, A, base, F)
  <2> HIDE DEF n
  <2> QED  BY <1>1, <1>7, FoldIsRun
<1>9. h[n] = iter[1 .. n]  BY <1>1 DEF Along
<1> HIDE DEF h
<1>10. ASSUME NEW k \in 1 .. n  PROVE h[k] = AddNamed(h[k - 1], seq[k])
  <2>1. k - 1 \in 0 .. n  BY <1>1
  <2> QED  BY <1>2, <1>8, <2>1 DEF IsRun
<1> QED  BY <1>6, <1>8, <1>9, <1>10 DEF IsRun, RunsAddNamed

\* and the goals in merging.
TakesInsert(A, seq) == \A x \in A, i \in 1 .. Len(seq) : Insert(x, seq[i]) \in A
RunsInsert(h, A, base, seq) ==
  /\ h \in [0 .. Len(seq) -> A] /\ h[0] = base /\ h[Len(seq)] = FoldLeft(Insert, base, seq)
  /\ \A k \in 1 .. Len(seq) : h[k] = Insert(h[k - 1], seq[k])

LEMMA InsertSteps ==
  ASSUME NEW A, NEW base \in A, NEW seq, seq \in Seq(ToSet(seq)),
         TakesInsert(A, seq)
  PROVE  \E h : RunsInsert(h, A, base, seq)
<1> DEFINE n == Len(seq)
           F == [p \in A \X (1 .. n) |-> Insert(p[1], seq[p[2]])]
           Folded(f) == [s \in SUBSET (1 .. n) |->
                         IF s = {} THEN base ELSE Insert(f[s \ {Max(s)}], seq[Max(s)])]
           iter == CHOOSE f : f = Folded(f)
<1>1. n \in Nat /\ DOMAIN seq = 1 .. n /\ F \in [A \X (1 .. n) -> A]  BY DEF TakesInsert
<1>2. \A x \in A, i \in 1 .. n : F[<<x, i>>] = Insert(x, seq[i])  OBVIOUS
<1> HIDE DEF F
<1>3. PICK g : IsFold(g, n, A, base, F)
  <2> HIDE DEF n
  <2> QED  BY <1>1, FoldExists
<1>4. g = Folded(g)
  <2>1. ASSUME NEW s \in SUBSET (1 .. n)
        PROVE  g[s] = IF s = {} THEN base ELSE Insert(g[s \ {Max(s)}], seq[Max(s)])
    <3>1. CASE s = {}  BY <1>3, <3>1 DEF IsFold
    <3>2. CASE s # {}
      <4>1. Max(s) \in 1 .. n  BY <1>1, <3>2, MaxInPrefix
      <4>2. /\ g[s \ {Max(s)}] \in A
            /\ g[s] = F[<<g[s \ {Max(s)}], Max(s)>>]
        BY <1>3, <3>2 DEF IsFold
      <4> QED  BY <1>2, <3>2, <4>1, <4>2
    <3> QED  BY <3>1, <3>2
  <2> QED  BY <1>3, <2>1 DEF IsFold
<1>5. iter = Folded(iter)  BY <1>4
<1>6. iter[1 .. n] = FoldLeft(Insert, base, seq)
  BY <1>1 DEF FoldLeft, MapThenFoldSet
<1> HIDE DEF iter
<1>7. IsFoldFrom(iter, n, A, base, F)
  <2>1. ASSUME NEW s \in SUBSET (1 .. n), s # {}, iter[s \ {Max(s)}] \in A
        PROVE  iter[s] = F[<<iter[s \ {Max(s)}], Max(s)>>]
    <3>1. Max(s) \in 1 .. n  BY <1>1, <2>1, MaxInPrefix
    <3> QED  BY <1>2, <1>5, <2>1, <3>1
  <2>2. iter[{}] = base  BY <1>5
  <2> QED  BY <2>1, <2>2 DEF IsFoldFrom
<1> DEFINE h == Along(iter, n)
<1>8. IsRun(h, n, A, base, F)
  <2> HIDE DEF n
  <2> QED  BY <1>1, <1>7, FoldIsRun
<1>9. h[n] = iter[1 .. n]  BY <1>1 DEF Along
<1> HIDE DEF h
<1>10. ASSUME NEW k \in 1 .. n  PROVE h[k] = Insert(h[k - 1], seq[k])
  <2>1. k - 1 \in 0 .. n  BY <1>1
  <2> QED  BY <1>2, <1>8, <2>1 DEF IsRun
<1> QED  BY <1>6, <1>8, <1>9, <1>10 DEF IsRun, RunsInsert

-----------------------------------------------------------------------------
(* What a goal is.                                                           *)

Froms == {"model", "claim", "script", "check"}
GoalsOver(U, S) ==
  [op : U, symbols : U, oracle : U, spans : SUBSET S, trusted : U, hard : BOOLEAN,
   from : Froms, facet : BOOLEAN]

IsGrounded(g) == g.hard => g.from = "check" \/ (g.trusted /\ g.spans \cap Expecting # {})
GroundedOver(U, S) == {g \in GoalsOver(U, S) : IsGrounded(g)}

LEMMA LeastExists ==
  ASSUME NEW n \in Nat, NEW T \in SUBSET (1 .. n), T # {}
  PROVE  Least(T) \in T
<1> DEFINE Less == {pair \in Nat \X Nat : pair[1] < pair[2]}
<1>1. IsWellFoundedOn(Less, Nat)  BY NatLessThanWellFounded DEF OpToRel
<1>2. T \in SUBSET Nat  OBVIOUS
<1>3. PICK x \in T : \A y \in T : <<y, x>> \notin Less  BY <1>1, <1>2, WFMin
<1>4. \A y \in T : x <= y
  <2> TAKE y \in T
  <2>1. x \in Nat /\ y \in Nat /\ <<y, x>> \notin Less  BY <1>2, <1>3
  <2> QED  BY <2>1
<1> QED  BY <1>4 DEF Least

LEMMA MergedFacts ==
  ASSUME NEW U, NEW S, NEW g \in GroundedOver(U, S), NEW h \in GroundedOver(U, S)
  PROVE  Merged(g, h) \in GroundedOver(U, S) /\ Merged(g, h).spans = g.spans \cup h.spans
<1>1. Preferred(g, h) \in {g, h}  BY DEF Preferred
<1> DEFINE p == Preferred(g, h)
           both == g.spans \cup h.spans
<1>2. p \in GoalsOver(U, S) /\ IsGrounded(p) /\ p.spans \subseteq both
      /\ both \subseteq S
  BY <1>1 DEF GroundedOver, GoalsOver
<1> HIDE DEF p, both
<1>3. [p EXCEPT !.spans = both] \in GoalsOver(U, S)  BY <1>2 DEF GoalsOver
<1>4. LET m == [p EXCEPT !.spans = both]
      IN m.spans = both /\ m.hard = p.hard /\ m.from = p.from /\ m.trusted = p.trusted
  BY <1>2 DEF GoalsOver
<1>5. IsGrounded([p EXCEPT !.spans = both])  BY <1>2, <1>4 DEF IsGrounded
<1> QED  BY <1>3, <1>4, <1>5 DEF Merged, GroundedOver, p, both

\* Merging a goal keeps the goals grounded and adds its quotes.
LEMMA InsertFacts ==
  ASSUME NEW U, NEW S, NEW gs \in Seq(GroundedOver(U, S)), NEW g \in GroundedOver(U, S)
  PROVE  /\ Insert(gs, g) \in Seq(GroundedOver(U, S)) /\ Insert(gs, g) # <<>>
         /\ SpansOf(ToSet(Insert(gs, g))) = SpansOf(ToSet(gs)) \cup g.spans
<1> DEFINE alike == {i \in DOMAIN gs : Alike(gs[i], g)}
           G == GroundedOver(U, S)
<1>1. Len(gs) \in Nat /\ DOMAIN gs = 1 .. Len(gs)  OBVIOUS
<1>2. CASE alike = {}
  <2>1. Insert(gs, g) = Append(gs, g)  BY <1>2 DEF Insert
  <2> HIDE DEF G
  <2>2. /\ Append(gs, g) \in Seq(G) /\ DOMAIN Append(gs, g) = 1 .. Len(gs) + 1
        /\ \A i \in 1 .. Len(gs) : Append(gs, g)[i] = gs[i]
        /\ Append(gs, g)[Len(gs) + 1] = g
    BY <1>1 DEF G
  <2>3. Append(gs, g) # <<>>  BY <1>1, <2>2
  <2>4. ToSet(Append(gs, g)) = ToSet(gs) \cup {g}  BY <1>1, <2>2 DEF ToSet
  <2> QED  BY <2>1, <2>2, <2>3, <2>4 DEF SpansOf, G
<1>3. CASE alike # {}
  <2> DEFINE m == Least(alike)
             x == Merged(g, gs[m])
             new == [gs EXCEPT ![m] = x]
  <2>1. m \in alike  BY <1>1, <1>3, LeastExists
  <2>2. m \in 1 .. Len(gs) /\ gs[m] \in G  BY <1>1, <2>1
  <2>3. Insert(gs, g) = new  BY <1>3 DEF Insert
  <2>4. x \in G /\ x.spans = g.spans \cup gs[m].spans
    <3> HIDE DEF m
    <3> QED  BY <2>2, MergedFacts
  <2> HIDE DEF alike, m, x, G
  <2>5. /\ new \in Seq(G) /\ DOMAIN new = 1 .. Len(gs) /\ new[m] = x
        /\ \A i \in 1 .. Len(gs) : i # m => new[i] = gs[i]
    BY <1>1, <2>2, <2>4 DEF G
  <2>6. new # <<>>  BY <1>1, <2>2, <2>5
  <2>7. SpansOf(ToSet(new)) = UNION {new[i].spans : i \in 1 .. Len(gs)}
    BY <2>5 DEF SpansOf, ToSet
  <2>8. SpansOf(ToSet(gs)) = UNION {gs[i].spans : i \in 1 .. Len(gs)}
    BY <1>1 DEF SpansOf, ToSet
  <2>9. \A q : q \in SpansOf(ToSet(new)) <=> q \in SpansOf(ToSet(gs)) \cup g.spans
    <3> HIDE DEF new
    <3> QED  BY <2>2, <2>4, <2>5, <2>7, <2>8
  <2> QED  BY <2>3, <2>5, <2>6, <2>9 DEF G
<1> QED  BY <1>2, <1>3

-----------------------------------------------------------------------------
(* The reading of the report.                                                *)

LEMMA MinExists ==
  ASSUME NEW n \in Nat, NEW T \in SUBSET (1 .. n), T # {}
  PROVE  Min(T) \in T /\ \A y \in T : Min(T) <= y
<1>1. Least(T) \in T  BY LeastExists
<1> DEFINE Less == {pair \in Nat \X Nat : pair[1] < pair[2]}
<1>2. IsWellFoundedOn(Less, Nat)  BY NatLessThanWellFounded DEF OpToRel
<1>3. T \in SUBSET Nat  OBVIOUS
<1>4. PICK x \in T : \A y \in T : <<y, x>> \notin Less  BY <1>2, <1>3, WFMin
<1>5. \A y \in T : x <= y
  <2> TAKE y \in T
  <2>1. x \in Nat /\ y \in Nat /\ <<y, x>> \notin Less  BY <1>3, <1>4
  <2> QED  BY <2>1
<1> QED  BY <1>5 DEF Min

\* The body of a report is a prefix of its lines without discussion.
LEMMA BodyFacts ==
  ASSUME NEW lines, lines \in Seq(ToSet(lines))
  PROVE  /\ Body(lines) \in Seq(ToSet(Body(lines))) /\ Len(Body(lines)) <= Len(lines)
         /\ \A k \in 1 .. Len(Body(lines)) :
              Body(lines)[k] = lines[k] /\ lines[k].label # "discussion"
<1> DEFINE talk == {i \in DOMAIN lines : lines[i].label = "discussion"}
           cut == Min(talk) - 1
<1>1. Len(lines) \in Nat /\ DOMAIN lines = 1 .. Len(lines)  OBVIOUS
<1>2. CASE talk = {}
  <2>1. Body(lines) = lines  BY <1>2 DEF Body
  <2> QED  BY <1>1, <1>2, <2>1
<1>3. CASE talk # {}
  <2>1. Body(lines) = SubSeq(lines, 1, cut)  BY <1>3 DEF Body
  <2>2. Min(talk) \in talk /\ \A y \in talk : Min(talk) <= y  BY <1>1, <1>3, MinExists
  <2>3. cut \in 0 .. Len(lines)  BY <1>1, <2>2
  <2>4. \A k \in 1 .. cut : k \in DOMAIN lines /\ lines[k].label # "discussion"
    <3> TAKE k \in 1 .. cut
    <3>1. k \in DOMAIN lines /\ ~ (Min(talk) <= k)  BY <1>1, <2>2, <2>3
    <3>2. k \notin talk  BY <2>2, <3>1
    <3> QED  BY <3>1, <3>2
  <2> HIDE DEF cut, talk
  <2>5. /\ Len(SubSeq(lines, 1, cut)) = cut
        /\ \A k \in 1 .. cut : SubSeq(lines, 1, cut)[k] = lines[k]
        /\ DOMAIN SubSeq(lines, 1, cut) = 1 .. cut
    BY <1>1, <2>3
  <2>6. SubSeq(lines, 1, cut) \in Seq(ToSet(SubSeq(lines, 1, cut)))
    <3> DEFINE s == SubSeq(lines, 1, cut)
    <3>1. \A k \in 1 .. cut : s[k] \in ToSet(s)  BY <2>5 DEF ToSet
    <3>2. s \in Seq(ToSet(lines))  BY <1>1, <2>3
    <3> HIDE DEF s
    <3> QED  BY <2>3, <2>5, <3>1, <3>2 DEF s
  <2> QED  BY <1>1, <2>1, <2>3, <2>4, <2>5, <2>6
<1> QED  BY <1>2, <1>3

\* The last line so far with one of some labels.
LEMMA LatestFacts ==
  ASSUME NEW lines, NEW labels, NEW k \in Nat
  PROVE  /\ LatestOf(lines, k, labels) \in {0} \cup {j \in 1 .. k : lines[j].label \in labels}
         /\ \A j \in 1 .. k : lines[j].label \in labels => j <= LatestOf(lines, k, labels)
<1> DEFINE T == {0} \cup {j \in 1 .. k : lines[j].label \in labels}
<1>1. T \in SUBSET (0 .. k) /\ 0 \in T  OBVIOUS
<1>2. Max(T) \in T /\ \A y \in T : y <= Max(T)
  <2> HIDE DEF T
  <2> QED  BY <1>1, MaxExists
<1> QED  BY <1>2 DEF LatestOf

LEMMA LatestStep ==
  ASSUME NEW lines, NEW labels, NEW k \in Nat \ {0}
  PROVE  LatestOf(lines, k, labels) =
           IF lines[k].label \in labels THEN k ELSE LatestOf(lines, k - 1, labels)
<1> DEFINE T(m) == {0} \cup {j \in 1 .. m : lines[j].label \in labels}
<1>1. CASE lines[k].label \in labels
  <2>1. LatestOf(lines, k, labels) \in 0 .. k  BY LatestFacts
  <2>2. k <= LatestOf(lines, k, labels)  BY <1>1, LatestFacts
  <2> QED  BY <1>1, <2>1, <2>2
<1>2. CASE lines[k].label \notin labels
  <2>1. T(k) = T(k - 1)  BY <1>2
  <2>2. Max(T(k)) = Max(T(k - 1))  BY <2>1
  <2> QED  BY <1>2, <2>2 DEF LatestOf
<1> QED  BY <1>1, <1>2

\* A fence opens or closes a block.
LEMMA FenceStep ==
  ASSUME NEW lines, NEW k \in Nat \ {0}
  PROVE  Fenced(lines, k) =
           IF lines[k].label = "fence" THEN ~ Fenced(lines, k - 1) ELSE Fenced(lines, k - 1)
<1> DEFINE T(m) == {j \in 1 .. m : lines[j].label = "fence"}
<1>1. IsFiniteSet(T(k - 1))
  <2>1. IsFiniteSet(1 .. k - 1)  BY FS_Interval
  <2> QED  BY <2>1, FS_Subset
<1>2. CASE lines[k].label = "fence"
  <2>1. T(k) = T(k - 1) \cup {k} /\ k \notin T(k - 1)  BY <1>2
  <2>2. Cardinality(T(k)) = Cardinality(T(k - 1)) + 1  
    <3> HIDE DEF T
    <3> QED  BY <1>1, <2>1, FS_AddElement
  <2>3. Cardinality(T(k - 1)) \in Nat  BY <1>1, FS_CardinalityType
  <2> DEFINE c == Cardinality(T(k - 1))
  <2>4. (c + 1) % 2 = 1 <=> ~ (c % 2 = 1)
    <3> HIDE DEF c
    <3> QED  BY <2>3 DEF c
  <2> QED  BY <1>2, <2>2, <2>4 DEF Fenced
<1>3. CASE lines[k].label # "fence"
  <2>1. T(k) = T(k - 1)  BY <1>3
  <2>2. Cardinality(T(k)) = Cardinality(T(k - 1))  BY <2>1
  <2> QED  BY <1>3, <2>2 DEF Fenced
<1> QED  BY <1>2, <1>3

\* The scan takes the lines one by one.
MayScan(i, w, A, seq) ==
  \A x \in A, k \in 1 .. Len(seq) : Scanned(i, w, x, seq[k]) \in A

LastScan(i, w, base, seq) == FoldLeft(LAMBDA scan, line : Scanned(i, w, scan, line), base, seq)

LEMMA ScanSteps ==
  ASSUME NEW i, NEW w, NEW A, NEW base \in A, NEW seq, seq \in Seq(ToSet(seq)),
         MayScan(i, w, A, seq)
  PROVE  \E h \in [0 .. Len(seq) -> A] :
           /\ h[0] = base /\ h[Len(seq)] = LastScan(i, w, base, seq)
           /\ \A k \in 1 .. Len(seq) : h[k] = Scanned(i, w, h[k - 1], seq[k])
<1> DEFINE n == Len(seq)
           F == [p \in A \X (1 .. n) |-> Scanned(i, w, p[1], seq[p[2]])]
           Folded(f) == [s \in SUBSET (1 .. n) |->
                         IF s = {} THEN base ELSE Scanned(i, w, f[s \ {Max(s)}], seq[Max(s)])]
           iter == CHOOSE f : f = Folded(f)
<1>1. n \in Nat /\ DOMAIN seq = 1 .. n /\ F \in [A \X (1 .. n) -> A]
  BY DEF MayScan
<1>2. \A x \in A, k \in 1 .. n : F[<<x, k>>] = Scanned(i, w, x, seq[k])  OBVIOUS
<1> HIDE DEF F
<1>3. PICK g : IsFold(g, n, A, base, F)
  <2> HIDE DEF n
  <2> QED  BY <1>1, FoldExists
<1>4. g = Folded(g)
  <2>1. ASSUME NEW s \in SUBSET (1 .. n)
        PROVE  g[s] = IF s = {} THEN base ELSE Scanned(i, w, g[s \ {Max(s)}], seq[Max(s)])
    <3>1. CASE s = {}  BY <1>3, <3>1 DEF IsFold
    <3>2. CASE s # {}
      <4>1. Max(s) \in 1 .. n  BY <1>1, <3>2, MaxInPrefix
      <4>2. /\ g[s \ {Max(s)}] \in A
            /\ g[s] = F[<<g[s \ {Max(s)}], Max(s)>>]
        BY <1>3, <3>2 DEF IsFold
      <4> QED  BY <1>2, <3>2, <4>1, <4>2
    <3> QED  BY <3>1, <3>2
  <2> QED  BY <1>3, <2>1 DEF IsFold
<1>5. iter = Folded(iter)  BY <1>4
<1>6. iter[1 .. n] = LastScan(i, w, base, seq)
  BY <1>1 DEF LastScan, FoldLeft, MapThenFoldSet
<1> HIDE DEF iter
<1>7. IsFoldFrom(iter, n, A, base, F)
  <2>1. ASSUME NEW s \in SUBSET (1 .. n), s # {}, iter[s \ {Max(s)}] \in A
        PROVE  iter[s] = F[<<iter[s \ {Max(s)}], Max(s)>>]
    <3>1. Max(s) \in 1 .. n  BY <1>1, <2>1, MaxInPrefix
    <3> QED  BY <1>2, <1>5, <2>1, <3>1
  <2>2. iter[{}] = base  BY <1>5
  <2> QED  BY <2>1, <2>2 DEF IsFoldFrom
<1> DEFINE h == Along(iter, n)
<1>8. IsRun(h, n, A, base, F)
  <2> HIDE DEF n
  <2> QED  BY <1>1, <1>7, FoldIsRun
<1>9. h[n] = iter[1 .. n]  BY <1>1 DEF Along
<1> HIDE DEF h
<1>10. ASSUME NEW k \in 1 .. n  PROVE h[k] = Scanned(i, w, h[k - 1], seq[k])
  <2>1. k - 1 \in 0 .. n  BY <1>1
  <2> QED  BY <1>2, <1>8, <2>1 DEF IsRun
<1> QED  BY <1>6, <1>8, <1>9, <1>10 DEF IsRun

Scans(C) == [fence : BOOLEAN, steps : BOOLEAN, expected : BOOLEAN, claims : Seq(C)]

\* What one line does to the scan.
LEMMA SectionFacts ==
  ASSUME NEW C, NEW scan \in Scans(C), NEW line
  PROVE  /\ Sections(scan, line) \in Scans(C)
         /\ Sections(scan, line).claims = scan.claims
         /\ Sections(scan, line).fence = IF line.label = "fence" THEN ~ scan.fence ELSE scan.fence
         /\ Sections(scan, line).steps =
              ((scan.steps /\ line.label \notin {"expected", "expects", "actual"})
               \/ line.label = "steps")
BY DEF Sections, Scans

Claimed(i, w, line, C) ==
  \A e \in BOOLEAN :
    ClaimOf(line, OperationOf(line, e, i.title, w, i.hints), i.scripts, i.hints) \in C

ReadsOn(new, scan, next, line, C) ==
  /\ new \in Scans(C) /\ new.fence = next.fence /\ new.steps = next.steps
  /\ \/ new.claims = scan.claims
     \/ \E c \in C : /\ new.claims = Append(scan.claims, c) /\ c.spans = {line.quote}
                     /\ Speaks(next, line)

LEMMA ScannedFacts ==
  ASSUME NEW i, NEW C, NEW w, NEW scan \in Scans(C), NEW line, Claimed(i, w, line, C)
  PROVE  ReadsOn(Scanned(i, w, scan, line), scan, Sections(scan, line), line, C)
<1> DEFINE next == Sections(scan, line)
           op == OperationOf(line, next.expected, i.title, w, i.hints)
           c == ClaimOf(line, op, i.scripts, i.hints)
           new == Scanned(i, w, scan, line)
<1>1. next \in Scans(C) /\ next.claims = scan.claims  BY SectionFacts
<1>2. next.expected \in BOOLEAN  BY <1>1 DEF Scans
<1>3. c \in C  BY <1>2 DEF Claimed
<1>4. c.spans = {line.quote}  BY DEF ClaimOf
<1>5. \/ new = next
      \/ new = [next EXCEPT !.claims = Append(next.claims, c)] /\ Speaks(next, line)
  BY DEF Scanned
<1> HIDE DEF next, op, c, new
<1>6. CASE new = next  BY <1>1, <1>6 DEF next, new, ReadsOn
<1>7. CASE new = [next EXCEPT !.claims = Append(next.claims, c)] /\ Speaks(next, line)
  <2>1. Append(next.claims, c) \in Seq(C)  BY <1>1, <1>3 DEF Scans
  <2>2. /\ new \in Scans(C) /\ new.fence = next.fence /\ new.steps = next.steps
        /\ new.claims = Append(next.claims, c)
    BY <1>1, <1>7, <2>1 DEF Scans
  <2>3. new.claims = Append(scan.claims, c)  BY <1>1, <2>2
  <2> QED  BY <1>3, <1>4, <1>7, <2>2, <2>3 DEF next, new, ReadsOn
<1> QED  BY <1>5, <1>6, <1>7

\* The scan keeps up with the fences and the steps of the report, and the claims it
\* has made are quotes of lines it may quote.
OfReport(lines, c) ==
  /\ c.spans \subseteq Quotable(lines)
  /\ c.spans # {} => c.spans \cap Expecting # {}

Keeps(lines, scan, k) ==
  /\ scan.fence = Fenced(lines, k)
  /\ InSteps(lines, k) => scan.steps
  /\ \A j \in DOMAIN scan.claims : OfReport(lines, scan.claims[j])

LEMMA ScanKeeps ==
  ASSUME NEW i \in Issues, NEW C, NEW w, NEW scan \in Scans(C),
         NEW k \in 1 .. Len(Body(i.lines)), Keeps(i.lines, scan, k - 1),
         Claimed(i, w, Body(i.lines)[k], C)
  PROVE  Keeps(i.lines, Scanned(i, w, scan, Body(i.lines)[k]), k)
<1> DEFINE lines == i.lines
           line == Body(lines)[k]
           next == Sections(scan, line)
           new == Scanned(i, w, scan, line)
           Stops == {"expected", "expects", "actual"}
<1>1. lines \in Seq(ToSet(lines))  BY QuotesAreRead
<1>2. /\ Len(Body(lines)) \in Nat /\ Len(Body(lines)) <= Len(lines)
      /\ \A j \in 1 .. Len(Body(lines)) : lines[j].label # "discussion"
      /\ line = lines[k] /\ k \in DOMAIN lines /\ k \in Nat \ {0}
  BY <1>1, BodyFacts
<1>3. ReadsOn(new, scan, next, line, C)  BY ScannedFacts
<1>4. /\ next.fence = IF line.label = "fence" THEN ~ scan.fence ELSE scan.fence
      /\ next.steps = ((scan.steps /\ line.label \notin Stops) \/ line.label = "steps")
  BY SectionFacts
<1> HIDE DEF next, new
<1>5. next.fence = Fenced(lines, k)
  <2>1. scan.fence = Fenced(lines, k - 1)  BY DEF Keeps
  <2> QED  BY <1>2, <1>4, <2>1, FenceStep
<1>6. InSteps(lines, k) => next.steps
  <2>1. SUFFICES ASSUME InSteps(lines, k)  PROVE next.steps  OBVIOUS
  <2>2. CASE line.label = "steps"  BY <1>4, <2>2
  <2>3. CASE line.label \in Stops
    <3>1. LatestOf(lines, k, Stops) = k  BY <1>2, <2>3, LatestStep
    <3>2. LatestOf(lines, k, {"steps"}) \in 0 .. k  BY <1>2, LatestFacts
    <3> QED  BY <1>2, <2>1, <3>1, <3>2 DEF InSteps
  <2>4. CASE line.label # "steps" /\ line.label \notin Stops
    <3>1. /\ LatestOf(lines, k, Stops) = LatestOf(lines, k - 1, Stops)
          /\ LatestOf(lines, k, {"steps"}) = LatestOf(lines, k - 1, {"steps"})
      BY <1>2, <2>4, LatestStep
    <3>2. InSteps(lines, k - 1)  BY <2>1, <3>1 DEF InSteps
    <3>3. scan.steps  BY <3>2 DEF Keeps
    <3> QED  BY <1>4, <2>4, <3>3
  <2> QED  BY <2>2, <2>3, <2>4
<1>7. ASSUME Speaks(next, line)
      PROVE  line.quote \in Quotable(lines) /\ line.quote \in Expecting
  <2>1. line.normative /\ ~ next.fence /\ (~ next.steps \/ line.label = "expects")
    BY <1>7 DEF Speaks
  <2>2. ~ next.steps  BY <1>4, <2>1
  <2>3. LatestOf(lines, k, {"discussion"}) = 0
    <3>1. LatestOf(lines, k, {"discussion"})
            \in {0} \cup {j \in 1 .. k : lines[j].label \in {"discussion"}}
      BY <1>2, LatestFacts
    <3> QED  BY <1>2, <3>1
  <2>4. line.quote \in Quotable(lines)  BY <1>2, <1>5, <1>6, <2>1, <2>2, <2>3 DEF Quotable
  <2>5. line \in ToSet(lines)  BY <1>2 DEF ToSet
  <2> QED  BY <2>1, <2>4, <2>5, QuotesAreRead
<1>8. \A j \in DOMAIN new.claims : OfReport(lines, new.claims[j])
  <2>1. \A j \in DOMAIN scan.claims : OfReport(lines, scan.claims[j])  BY DEF Keeps
  <2>2. CASE new.claims = scan.claims  BY <2>1, <2>2
  <2>3. ASSUME NEW c \in C, new.claims = Append(scan.claims, c), c.spans = {line.quote},
               Speaks(next, line)
        PROVE  \A j \in DOMAIN new.claims : OfReport(lines, new.claims[j])
    <3>1. OfReport(lines, c)  BY <1>7, <2>3 DEF OfReport
    <3>2. scan.claims \in Seq(C)  BY DEF Scans
    <3>3. \A j \in DOMAIN Append(scan.claims, c) :
            \/ j \in DOMAIN scan.claims /\ Append(scan.claims, c)[j] = scan.claims[j]
            \/ Append(scan.claims, c)[j] = c
      BY <3>2
    <3> QED  BY <2>1, <2>3, <3>1, <3>3
  <2> QED  BY <1>3, <2>2, <2>3 DEF ReadsOn
<1> QED  BY <1>3, <1>5, <1>6, <1>8 DEF Keeps, new, ReadsOn

\* The claims of the fallback are of the report.
LEMMA ClaimsFacts ==
  ASSUME NEW i \in Issues
  PROVE  /\ Claims(i) \in Seq(ToSet(Claims(i)))
         /\ \A j \in DOMAIN Claims(i) : OfReport(i.lines, Claims(i)[j])
<1> DEFINE body == Body(i.lines)
           n == Len(body)
           w == Witnesses(i)
           C == {ClaimOf(body[k], OperationOf(body[k], e, i.title, w, i.hints),
                         i.scripts, i.hints) : k \in 1 .. n, e \in BOOLEAN}
<1>1. i.lines \in Seq(ToSet(i.lines))  BY QuotesAreRead
<1>2. body \in Seq(ToSet(body)) /\ n \in Nat  BY <1>1, BodyFacts
<1>3. \A k \in 1 .. n : Claimed(i, w, body[k], C)  BY DEF Claimed
<1>4. NothingRead \in Scans(C)  BY DEF NothingRead, Scans
<1>5. MayScan(i, w, Scans(C), body)
  <2> HIDE DEF C
  <2> QED  BY <1>3, ScannedFacts DEF MayScan, ReadsOn
<1> HIDE DEF C
<1>6. PICK h \in [0 .. n -> Scans(C)] :
        /\ h[0] = NothingRead
        /\ h[n] = LastScan(i, w, NothingRead, body)
        /\ \A k \in 1 .. n : h[k] = Scanned(i, w, h[k - 1], body[k])
  <2> HIDE DEF body, w
  <2> QED  BY <1>2, <1>4, <1>5, ScanSteps
<1>7. \A k \in 0 .. n : Keeps(i.lines, h[k], k)
  <2> DEFINE Good == {k \in 0 .. n : Keeps(i.lines, h[k], k)}
  <2>1. 0 \in Good
    <3>1. ~ Fenced(i.lines, 0)
      <4>1. {j \in 1 .. 0 : i.lines[j].label = "fence"} = {}  OBVIOUS
      <4> QED  BY <4>1, FS_EmptySet DEF Fenced
    <3>2. ~ InSteps(i.lines, 0)
      <4>1. \A labels : LatestOf(i.lines, 0, labels) = 0
        <5> TAKE labels
        <5>1. LatestOf(i.lines, 0, labels)
                \in {0} \cup {j \in 1 .. 0 : i.lines[j].label \in labels}
          BY LatestFacts
        <5> QED  BY <5>1
      <4> QED  BY <4>1 DEF InSteps
    <3>3. Keeps(i.lines, NothingRead, 0)  BY <3>1, <3>2 DEF Keeps, NothingRead
    <3> HIDE DEF n
    <3> QED  BY <1>2, <1>6, <3>3
  <2>2. ASSUME NEW k \in 1 .. n, k - 1 \in Good  PROVE k \in Good
    <3>1. h[k - 1] \in Scans(C) /\ Keeps(i.lines, h[k - 1], k - 1)  BY <1>2, <1>6, <2>2
    <3>2. Keeps(i.lines, Scanned(i, w, h[k - 1], body[k]), k)  BY <1>3, <3>1, ScanKeeps
    <3> HIDE DEF n
    <3>3. h[k] = Scanned(i, w, h[k - 1], body[k])  BY <1>6, <2>2
    <3> QED  BY <1>2, <3>2, <3>3
  <2>3. \A k \in 0 .. n : k \in Good
    <3> HIDE DEF Good, n
    <3> QED  BY <1>2, <2>1, <2>2, PrefixInduction
  <2> QED  BY <2>3
<1> DEFINE claims == h[n].claims
<1>8. Claims(i) = IF claims = <<>> THEN <<MarkerClaim>> ELSE claims
  <2>1. Claims(i) = LET last == LastScan(i, w, NothingRead, body).claims
                    IN IF last = <<>> THEN <<MarkerClaim>> ELSE last
    BY DEF Claims, LastScan, FoldLeft, MapThenFoldSet
  <2> QED  BY <1>6, <2>1
<1>9. claims \in Seq(C) /\ \A j \in DOMAIN claims : OfReport(i.lines, claims[j])
  <2> HIDE DEF n
  <2>1. h[n] \in Scans(C) /\ Keeps(i.lines, h[n], n)  BY <1>2, <1>6, <1>7
  <2> QED  BY <2>1 DEF Scans, Keeps
<1>10. OfReport(i.lines, MarkerClaim)  BY DEF OfReport, MarkerClaim
<1> HIDE DEF claims
<1>11. \A s : s \in Seq(C) => s \in Seq(ToSet(s))  BY DEF ToSet
<1>12. CASE claims = <<>>
  <2>1. Claims(i) = <<MarkerClaim>>  BY <1>8, <1>12
  <2>2. ToSet(<<MarkerClaim>>) = {MarkerClaim}  BY DEF ToSet
  <2> QED  BY <1>10, <2>1, <2>2
<1>13. CASE claims # <<>>
  <2>1. Claims(i) = claims  BY <1>8, <1>13
  <2> QED  BY <1>9, <1>11, <2>1
<1> QED  BY <1>12, <1>13

-----------------------------------------------------------------------------
(* What the goals of a case are made from.                                   *)

\* An answer of the model that has been accepted, or the marker.
IsAnswered(gs) ==
  /\ gs \in Seq(ToSet(gs))
  /\ \A g \in ToSet(gs) :
       /\ g = Goal(g.op, g.symbols, g.oracle, g.spans, g.trusted, g.hard, "model")
       /\ g.hard \in BOOLEAN /\ IsGrounded(g)

Sources(i, gs) ==
  ToSet(gs) \cup {GoalOfClaim(c) : c \in ToSet(Claims(i))}
  \cup {GoalOfScript(s) : s \in {t \in ToSet(i.scripts) : t.trusted}}
  \cup {GoalOfCheck(c) : c \in ToSet(i.checks)}

ValuesOf(i, gs) ==
  UNION {{g.op, g.symbols, g.oracle, g.trusted} : g \in Sources(i, gs)}
QuotesOf(i, gs) == UNION {g.spans : g \in Sources(i, gs)}
GoalsFor(i, gs) == GroundedOver(ValuesOf(i, gs), QuotesOf(i, gs))

\* A goal of any source is grounded.
LEMMA SourceIsGoal ==
  ASSUME NEW i \in Issues, NEW gs, IsAnswered(gs), NEW g \in Sources(i, gs)
  PROVE  /\ g = Goal(g.op, g.symbols, g.oracle, g.spans, g.trusted, g.hard, g.from)
         /\ g.hard \in BOOLEAN /\ g.from \in Froms /\ IsGrounded(g)
<1>1. CASE g \in ToSet(gs)
  <2>1. g.from = "model"  BY <1>1 DEF IsAnswered, Goal
  <2> QED  BY <1>1, <2>1 DEF IsAnswered, Froms
<1>2. ASSUME NEW c \in ToSet(Claims(i)), g = GoalOfClaim(c)
      PROVE  /\ g = Goal(g.op, g.symbols, g.oracle, g.spans, g.trusted, g.hard, g.from)
             /\ g.hard \in BOOLEAN /\ g.from \in Froms /\ IsGrounded(g)
  <2>1. OfReport(i.lines, c)  BY ClaimsFacts DEF ToSet
  <2>2. /\ g.spans = c.spans
        /\ g.trusted = (c.spans # {})
        /\ g.from = "claim"
        /\ g.hard \in BOOLEAN
        /\ (g.hard => c.spans # {})
    BY <1>2 DEF GoalOfClaim, Goal
  <2>3. g = Goal(g.op, g.symbols, g.oracle, g.spans, g.trusted, g.hard, g.from)
    BY <1>2 DEF GoalOfClaim, Goal
  <2>4. c.spans # {} => c.spans \cap Expecting # {}  BY <2>1 DEF OfReport
  <2>5. g.hard => g.trusted /\ g.spans \cap Expecting # {}  BY <2>2, <2>4
  <2> QED  BY <2>2, <2>3, <2>5 DEF Froms, IsGrounded
<1>3. ASSUME NEW s \in ToSet(i.scripts), s.trusted, g = GoalOfScript(s)
      PROVE  /\ g = Goal(g.op, g.symbols, g.oracle, g.spans, g.trusted, g.hard, g.from)
             /\ g.hard \in BOOLEAN /\ g.from \in Froms /\ IsGrounded(g)
  <2>1. s.spans \subseteq Expecting  BY <1>3, QuotesAreRead
  <2>2. /\ g.spans = s.spans /\ g.trusted = TRUE /\ g.from = "script"
        /\ g.hard = (s.spans # {})
    BY <1>3 DEF GoalOfScript, Goal
  <2>3. g = Goal(g.op, g.symbols, g.oracle, g.spans, g.trusted, g.hard, g.from)
    BY <1>3 DEF GoalOfScript, Goal
  <2> QED  BY <2>1, <2>2, <2>3 DEF IsGrounded, Froms
<1>4. ASSUME NEW c \in ToSet(i.checks), g = GoalOfCheck(c)
      PROVE  /\ g = Goal(g.op, g.symbols, g.oracle, g.spans, g.trusted, g.hard, g.from)
             /\ g.hard \in BOOLEAN /\ g.from \in Froms /\ IsGrounded(g)
  BY <1>4 DEF GoalOfCheck, Goal, IsGrounded, Froms
<1> QED  BY <1>1, <1>2, <1>3, <1>4 DEF Sources

LEMMA SourcesAreGoals ==
  ASSUME NEW i \in Issues, NEW gs, IsAnswered(gs)
  PROVE  Sources(i, gs) \subseteq GoalsFor(i, gs)
<1> SUFFICES ASSUME NEW g \in Sources(i, gs)  PROVE g \in GoalsFor(i, gs)
  OBVIOUS
<1>1. /\ g = Goal(g.op, g.symbols, g.oracle, g.spans, g.trusted, g.hard, g.from)
      /\ g.hard \in BOOLEAN /\ g.from \in Froms /\ IsGrounded(g)
  BY SourceIsGoal
<1>2. {g.op, g.symbols, g.oracle, g.trusted} \subseteq ValuesOf(i, gs)
      /\ g.spans \subseteq QuotesOf(i, gs)
  BY DEF ValuesOf, QuotesOf
<1>3. Goal(g.op, g.symbols, g.oracle, g.spans, g.trusted, g.hard, g.from)
        \in GoalsOver(ValuesOf(i, gs), QuotesOf(i, gs))
  BY <1>1, <1>2 DEF Goal, GoalsOver
<1> QED  BY <1>1, <1>3 DEF GoalsFor, GroundedOver

\* Goals are only added.
Longer(G, m) == {s \in Seq(G) : Len(s) >= m}

LEMMA LongerStep ==
  ASSUME NEW G, NEW m \in Nat, NEW s \in Longer(G, m), NEW g \in G
  PROVE  Append(s, g) \in Longer(G, m)
BY DEF Longer

LEMMA CollectedFacts ==
  ASSUME issue \in Issues, NEW gs, IsAnswered(gs)
  PROVE  Collected(gs) \in Longer(GoalsFor(issue, gs), Len(gs))
<1> DEFINE G == GoalsFor(issue, gs)
           A == Longer(G, Len(gs))
           claims == Claims(issue)
           answered == WithFallback(gs, claims)
           scripted == FoldLeft(AddScript, answered, issue.scripts)
<1>1. /\ claims \in Seq(ToSet(claims)) /\ issue.scripts \in Seq(ToSet(issue.scripts))
      /\ issue.checks \in Seq(ToSet(issue.checks))
  BY ClaimsFacts, QuotesAreRead
<1>2. Sources(issue, gs) \subseteq G  BY SourcesAreGoals
<1>3. gs \in A
  <2>1. gs \in Seq(ToSet(gs)) /\ ToSet(gs) \subseteq G  BY <1>2 DEF IsAnswered, Sources
  <2> QED  BY <2>1 DEF Longer
<1>4. Len(gs) \in Nat  BY DEF IsAnswered
<1> HIDE DEF A, G
<1>5. \A s \in A, g \in G : Append(s, g) \in A  BY <1>4, LongerStep DEF A
<1>6. answered \in A
  <2>1. \A x \in A, i \in 1 .. Len(claims) : AddClaim(x, claims[i]) \in A
    <3> TAKE x \in A, i \in 1 .. Len(claims)
    <3>1. claims[i] \in ToSet(claims)  BY <1>1 DEF ToSet
    <3>2. GoalOfClaim(claims[i]) \in G  BY <1>2, <3>1 DEF Sources
    <3> QED  BY <1>5, <3>2 DEF AddClaim
  <2> HIDE DEF claims
  <2>2. FoldLeft(AddClaim, gs, claims) \in A  BY <1>1, <1>3, <2>1, AddClaimType
  <2> QED  BY <1>3, <2>2 DEF WithFallback
<1>7. scripted \in A
  <2>1. \A x \in A, i \in 1 .. Len(issue.scripts) : AddScript(x, issue.scripts[i]) \in A
    <3> TAKE x \in A, i \in 1 .. Len(issue.scripts)
    <3>1. issue.scripts[i] \in ToSet(issue.scripts)  BY <1>1 DEF ToSet
    <3>2. issue.scripts[i].trusted => GoalOfScript(issue.scripts[i]) \in G
      BY <1>2, <3>1 DEF Sources
    <3> QED  BY <1>5, <3>2 DEF AddScript
  <2> HIDE DEF answered
  <2> QED  BY <1>1, <1>6, <2>1, AddScriptType
<1>8. FoldLeft(AddCheck, scripted, issue.checks) \in A
  <2>1. \A x \in A, i \in 1 .. Len(issue.checks) : AddCheck(x, issue.checks[i]) \in A
    <3> TAKE x \in A, i \in 1 .. Len(issue.checks)
    <3>1. issue.checks[i] \in ToSet(issue.checks)  BY <1>1 DEF ToSet
    <3>2. GoalOfCheck(issue.checks[i]) \in G  BY <1>2, <3>1 DEF Sources
    <3> QED  BY <1>5, <3>2 DEF AddCheck
  <2> HIDE DEF scripted
  <2> QED  BY <1>1, <1>7, <2>1, AddCheckType
<1> QED  BY <1>8 DEF Collected, A, G


\* Without the markers a list of goals is shorter, but not empty.
LEMMA NamedFacts ==
  ASSUME NEW G, NEW gs \in Seq(G)
  PROVE  WithoutMarkers(gs) \in Seq(G) /\ (gs # <<>> => WithoutMarkers(gs) # <<>>)
<1>1. CASE ~ Some(gs, IsNamed)  BY <1>1 DEF WithoutMarkers
<1>2. CASE Some(gs, IsNamed)
  <2> DEFINE A == Seq(G)
             none == <<>>
  <2>1. none \in A /\ gs \in Seq(ToSet(gs)) /\ Len(gs) \in Nat /\ DOMAIN gs = 1 .. Len(gs)
    BY DEF ToSet
  <2>2. TakesAddNamed(A, gs)  BY DEF AddNamed, TakesAddNamed
  <2>3. PICK h : RunsAddNamed(h, A, none, gs)
    <3> HIDE DEF A, none
    <3> QED  BY <2>1, <2>2, AddNamedSteps
  <2>4. /\ h \in [0 .. Len(gs) -> A] /\ h[0] = <<>> /\ h[Len(gs)] = FoldLeft(AddNamed, <<>>, gs)
        /\ \A k \in 1 .. Len(gs) : h[k] = AddNamed(h[k - 1], gs[k])
    BY <2>3 DEF RunsAddNamed
  <2> DEFINE Good == {k \in 0 .. Len(gs) : (\E j \in 1 .. k : IsNamed(gs[j])) => h[k] # <<>>}
  <2>5. 0 \in Good  OBVIOUS
  <2>6. ASSUME NEW k \in 1 .. Len(gs), k - 1 \in Good  PROVE k \in Good
    <3>1. h[k] = AddNamed(h[k - 1], gs[k]) /\ h[k - 1] \in A  BY <2>1, <2>4
    <3>2. CASE IsNamed(gs[k])
      <4>1. h[k] = Append(h[k - 1], gs[k])  BY <3>1, <3>2 DEF AddNamed
      <4>2. \A x \in Seq(G), y \in G : Append(x, y) # <<>>
        <5> TAKE x \in Seq(G), y \in G
        <5>1. Len(Append(x, y)) = Len(x) + 1 /\ Len(x) \in Nat  OBVIOUS
        <5> QED  BY <5>1
      <4>3. h[k - 1] \in Seq(G) /\ gs[k] \in G  BY <3>1, <2>1
      <4> QED  BY <4>1, <4>2, <4>3
    <3>3. CASE ~ IsNamed(gs[k])
      <4>1. h[k] = h[k - 1]  BY <3>1, <3>3 DEF AddNamed
      <4>2. \A j \in 1 .. k : IsNamed(gs[j]) => j \in 1 .. k - 1  BY <3>3
      <4> QED  BY <2>6, <4>1, <4>2
    <3> QED  BY <3>2, <3>3
  <2>7. \A k \in 0 .. Len(gs) : k \in Good
    <3> HIDE DEF Good
    <3> QED  BY <2>1, <2>5, <2>6, PrefixInduction
  <2>8. \E j \in 1 .. Len(gs) : IsNamed(gs[j])  BY <1>2, <2>1 DEF Some
  <2>9. h[Len(gs)] # <<>> /\ h[Len(gs)] \in A
    <3>1. Len(gs) \in 0 .. Len(gs)  BY <2>1
    <3> QED  BY <2>4, <2>7, <2>8, <3>1
  <2> QED  BY <1>2, <2>4, <2>9 DEF WithoutMarkers
<1> QED  BY <1>1, <1>2

\* Merging keeps the goals grounded and all their quotes.
LEMMA MergingFacts ==
  ASSUME NEW U, NEW S, NEW gs \in Seq(GroundedOver(U, S))
  PROVE  /\ FoldLeft(Insert, <<>>, gs) \in Seq(GroundedOver(U, S))
         /\ SpansOf(ToSet(FoldLeft(Insert, <<>>, gs))) = SpansOf(ToSet(gs))
         /\ gs # <<>> => FoldLeft(Insert, <<>>, gs) # <<>>
<1> DEFINE G == GroundedOver(U, S)
           A == Seq(G)
           To(k) == UNION {gs[j].spans : j \in 1 .. k}
           none == <<>>
<1>1. none \in A /\ gs \in Seq(ToSet(gs)) /\ Len(gs) \in Nat /\ DOMAIN gs = 1 .. Len(gs)
      /\ \A i \in 1 .. Len(gs) : gs[i] \in G
  <2>1. gs \in Seq(G)  OBVIOUS
  <2> HIDE DEF G
  <2>2. none \in A /\ Len(gs) \in Nat /\ DOMAIN gs = 1 .. Len(gs)  BY <2>1
  <2>3. \A i \in 1 .. Len(gs) : gs[i] \in G  BY <2>1
  <2>4. gs \in Seq(ToSet(gs))
    <3>1. \A i \in 1 .. Len(gs) : gs[i] \in ToSet(gs)  BY <2>2 DEF ToSet
    <3> QED  BY <2>1, <2>2, <3>1
  <2> QED  BY <2>2, <2>3, <2>4
<1>2. TakesInsert(A, gs)
  <2> HIDE DEF G
  <2>1. \A x \in Seq(G), g \in G : Insert(x, g) \in Seq(G)  BY InsertFacts DEF G
  <2> QED  BY <1>1, <2>1 DEF TakesInsert
<1>3. PICK h : RunsInsert(h, A, none, gs)
  <2> HIDE DEF A, none
  <2> QED  BY <1>1, <1>2, InsertSteps
<1>4. /\ h \in [0 .. Len(gs) -> A] /\ h[0] = <<>> /\ h[Len(gs)] = FoldLeft(Insert, <<>>, gs)
       /\ \A k \in 1 .. Len(gs) : h[k] = Insert(h[k - 1], gs[k])
  BY <1>3 DEF RunsInsert
<1> DEFINE Good == {k \in 0 .. Len(gs) : SpansOf(ToSet(h[k])) = To(k) /\ (k # 0 => h[k] # <<>>)}
<1>5. 0 \in Good
  <2>1. ToSet(<<>>) = {} /\ To(0) = {}  BY DEF ToSet
  <2> QED  BY <1>1, <1>4, <2>1 DEF SpansOf
<1>6. ASSUME NEW k \in 1 .. Len(gs), k - 1 \in Good  PROVE k \in Good
  <2>1. k - 1 \in 0 .. Len(gs) /\ gs[k] \in G  BY <1>1
  <2>2. h[k - 1] \in A /\ h[k] = Insert(h[k - 1], gs[k])  BY <1>4, <2>1
  <2>3. h[k] # <<>> /\ SpansOf(ToSet(h[k])) = SpansOf(ToSet(h[k - 1])) \cup gs[k].spans
    <3>1. h[k - 1] \in Seq(GroundedOver(U, S))  BY <2>2
    <3>2. gs[k] \in GroundedOver(U, S)  BY <2>1
    <3> DEFINE x == h[k - 1]
               y == gs[k]
    <3> HIDE DEF A, G, x, y
    <3>3. x \in Seq(GroundedOver(U, S)) /\ y \in GroundedOver(U, S)  BY <3>1, <3>2 DEF x, y
    <3>4. Insert(x, y) # <<>> /\ SpansOf(ToSet(Insert(x, y))) = SpansOf(ToSet(x)) \cup y.spans
      BY <3>3, InsertFacts
    <3> QED  BY <2>2, <3>4 DEF x, y
  <2>4. To(k) = To(k - 1) \cup gs[k].spans
    <3>1. \A j : j \in 1 .. k <=> j = k \/ j \in 1 .. k - 1  OBVIOUS
    <3> QED  BY <3>1
  <2> HIDE DEF To
  <2>5. SpansOf(ToSet(h[k])) = To(k)  BY <1>6, <2>3, <2>4
  <2> QED  BY <2>3, <2>5
<1>7. \A k \in 0 .. Len(gs) : k \in Good
  <2> HIDE DEF Good
  <2> QED  BY <1>1, <1>5, <1>6, PrefixInduction
<1>8. Len(gs) \in 0 .. Len(gs) /\ (gs # <<>> => Len(gs) # 0)  BY <1>1
<1>9. To(Len(gs)) = SpansOf(ToSet(gs))  BY <1>1 DEF SpansOf, ToSet
<1> HIDE DEF To, A
<1>10. h[Len(gs)] \in A  BY <1>4, <1>8
<1>11. SpansOf(ToSet(h[Len(gs)])) = SpansOf(ToSet(gs))  BY <1>7, <1>8, <1>9
<1>12. gs # <<>> => h[Len(gs)] # <<>>  BY <1>7, <1>8
<1> QED  BY <1>4, <1>10, <1>11, <1>12 DEF A

\* A facet demands what its goal demands, of the same quotes.
LEMMA FacetFacts ==
  ASSUME NEW U, NEW S, NEW g \in GroundedOver(U, S), NEW f \in FacetsOf(g)
  PROVE  f.spans = g.spans /\ f.hard \in BOOLEAN /\ f.from \in Froms /\ IsGrounded(f)
<1>1. \E o : f = [g EXCEPT !.oracle = o, !.facet = TRUE]
  <2> DEFINE spelt == {e \in UNION {FacetsIn[q] : q \in g.spans} : g.oracle.kind \in e.of}
             As(e) == [g EXCEPT !.oracle = e.oracle, !.facet = TRUE]
  <2>1. f \in {As(e) : e \in spelt}  BY Zenon DEF FacetsOf
  <2>2. PICK e \in spelt : f = As(e)  BY <2>1, Zenon
  <2> QED  BY <2>2, Zenon
<1>2. g \in GoalsOver(U, S) /\ IsGrounded(g)  BY DEF GroundedOver
<1>3. PICK o : f = [g EXCEPT !.oracle = o, !.facet = TRUE]  BY <1>1, Zenon
<1>4. f.spans = g.spans /\ f.hard = g.hard /\ f.from = g.from /\ f.trusted = g.trusted
  BY <1>2, <1>3 DEF GoalsOver
<1> QED  BY <1>2, <1>4 DEF GoalsOver, IsGrounded

\* The goals of a case are grounded, have the quotes that were collected, and are
\* there when the model was accepted.
AreCompiled(gs) ==
  /\ \A g \in Compiled(gs) : g.hard \in BOOLEAN /\ g.from \in Froms /\ IsGrounded(g)
  /\ SpansOf(Compiled(gs)) = SpansOf(ToSet(WithoutMarkers(Collected(gs))))
  /\ gs # <<>> => Compiled(gs) # {}

LEMMA CompiledFacts ==
  ASSUME issue \in Issues, NEW gs, IsAnswered(gs)
  PROVE  AreCompiled(gs)
<1> DEFINE U == ValuesOf(issue, gs)
           S == QuotesOf(issue, gs)
           G == GroundedOver(U, S)
           all == Collected(gs)
           named == WithoutMarkers(all)
           list == FoldLeft(Insert, <<>>, named)
<1>1. all \in Longer(G, Len(gs))  BY CollectedFacts DEF GoalsFor
<1>2. all \in Seq(G) /\ (gs # <<>> => all # <<>>)
  <2>1. gs # <<>> => Len(gs) \in Nat \ {0}  BY DEF IsAnswered
  <2> HIDE DEF all, G
  <2> QED  BY <1>1, <2>1 DEF Longer
<1>3. named \in Seq(G) /\ (gs # <<>> => named # <<>>)
  <2> HIDE DEF all, G
  <2> QED  BY <1>2, NamedFacts
<1> HIDE DEF named, all
<1>4. list \in Seq(G) /\ SpansOf(ToSet(list)) = SpansOf(ToSet(named))
      /\ (gs # <<>> => list # <<>>)
  <2> HIDE DEF U, S
  <2> QED  BY <1>3, MergingFacts
<1> HIDE DEF list
<1>5. Compiled(gs) = ToSet(list) \cup UNION {FacetsOf(g) : g \in ToSet(list)}
  BY DEF Compiled, list, named, all
<1>6. \A g \in ToSet(list) : g \in G
  <2> HIDE DEF G
  <2> QED  BY <1>4 DEF ToSet
<1>7. \A g \in Compiled(gs) :
        /\ g.hard \in BOOLEAN /\ g.from \in Froms /\ IsGrounded(g)
        /\ \E e \in ToSet(list) : g.spans = e.spans
  <2> TAKE g \in Compiled(gs)
  <2>1. CASE g \in ToSet(list)  BY <1>6, <2>1 DEF GroundedOver, GoalsOver
  <2>2. CASE \E e \in ToSet(list) : g \in FacetsOf(e)
    <3>1. PICK e \in ToSet(list) : g \in FacetsOf(e)  BY <2>2
    <3> HIDE DEF U, S
    <3> QED  BY <1>6, <3>1, FacetFacts
  <2> QED  BY <1>5, <2>1, <2>2
<1>8. SpansOf(Compiled(gs)) = SpansOf(ToSet(list))
  <2>1. ToSet(list) \subseteq Compiled(gs)  BY <1>5
  <2> QED  BY <1>7, <2>1 DEF SpansOf
<1>9. gs # <<>> => Compiled(gs) # {}
  <2>1. list # <<>> => ToSet(list) # {}
    <3> HIDE DEF G
    <3> QED  BY <1>4 DEF ToSet
  <2> QED  BY <1>4, <1>5, <2>1
<1> QED  BY <1>4, <1>7, <1>8, <1>9 DEF AreCompiled, named, all

-----------------------------------------------------------------------------
(* What may be compiled: an accepted answer, the marker, or nothing.         *)

LEMMA AcceptedIsAnswered ==
  ASSUME NEW answer \in Answers, Accepted(answer)
  PROVE  IsAnswered(GoalsOfAnswer(answer)) /\ GoalsOfAnswer(answer) # <<>>
<1> DEFINE gs == GoalsOfAnswer(answer)
           n == Len(answer)
<1>1. answer \in Seq(ToSet(answer)) /\ n \in Nat /\ DOMAIN answer = 1 .. n
      /\ \A i \in 1 .. n : answer[i].hard \in BOOLEAN
  BY AnswersAreLists DEF ToSet
<1>2. n # 0  BY <1>1 DEF Accepted
<1>3. DOMAIN gs = 1 .. n /\ gs = [i \in 1 .. n |-> gs[i]]  BY <1>1 DEF GoalsOfAnswer
<1>4. ASSUME NEW i \in 1 .. n
      PROVE  LET item == answer[i]
             IN gs[i] = Goal(item.op, item.symbols, item.oracle, item.spans, item.trusted,
                             item.hard, "model")
  BY <1>1 DEF GoalsOfAnswer
<1> HIDE DEF gs
<1>5. ASSUME NEW i \in 1 .. n
      PROVE  LET g == gs[i]
             IN /\ g = Goal(g.op, g.symbols, g.oracle, g.spans, g.trusted, g.hard, "model")
                /\ g.hard \in BOOLEAN /\ IsGrounded(g)
  <2>1. ~ IsFaulty(answer[i])  BY <1>1 DEF Accepted
  <2>2. answer[i].hard => answer[i].trusted /\ answer[i].spans \cap Expecting # {}
    BY <2>1 DEF IsFaulty, StatesExpectation
  <2> DEFINE g == gs[i]
             item == answer[i]
  <2>3. g = Goal(item.op, item.symbols, item.oracle, item.spans, item.trusted, item.hard, "model")
    BY <1>4
  <2> HIDE DEF g, item
  <2>4. /\ g.hard = item.hard /\ g.trusted = item.trusted /\ g.spans = item.spans
        /\ g = Goal(g.op, g.symbols, g.oracle, g.spans, g.trusted, g.hard, "model")
    BY <2>3 DEF Goal
  <2>5. /\ gs[i].hard = answer[i].hard /\ gs[i].trusted = answer[i].trusted
        /\ gs[i].spans = answer[i].spans
    BY <2>4 DEF g, item
  <2>6. gs[i] = Goal(gs[i].op, gs[i].symbols, gs[i].oracle, gs[i].spans, gs[i].trusted,
                     gs[i].hard, "model")
    BY <2>4 DEF g
  <2>7. IsGrounded(gs[i])  BY <2>2, <2>5 DEF IsGrounded
  <2> QED  BY <1>1, <2>5, <2>6, <2>7
<1>6. gs \in Seq(ToSet(gs))
  <2>1. \A i \in 1 .. n : gs[i] \in ToSet(gs)  BY <1>3 DEF ToSet
  <2> QED  BY <1>1, <1>3, <2>1
<1>7. gs # <<>>
  <2>1. Len(gs) = n  BY <1>1, <1>3, <1>6
  <2> QED  BY <1>2, <2>1
<1> QED  BY <1>3, <1>5, <1>6, <1>7 DEF IsAnswered, gs, ToSet

LEMMA NothingIsAnswered == IsAnswered(<<>>)
<1>1. ToSet(<<>>) = {}  BY DEF ToSet
<1>2. <<>> \in Seq(ToSet(<<>>))  OBVIOUS
<1> QED  BY <1>1, <1>2 DEF IsAnswered

LEMMA MarkerIsAnswered == IsAnswered(<<UnresolvedGoal>>) /\ <<UnresolvedGoal>> # <<>>
<1>1. ToSet(<<UnresolvedGoal>>) = {UnresolvedGoal}  BY DEF ToSet
<1>2. <<UnresolvedGoal>> \in Seq({UnresolvedGoal}) /\ <<UnresolvedGoal>> # <<>>  OBVIOUS
<1>3. LET g == UnresolvedGoal
      IN /\ g = Goal(g.op, g.symbols, g.oracle, g.spans, g.trusted, g.hard, "model")
         /\ g.hard \in BOOLEAN /\ IsGrounded(g)
  BY DEF UnresolvedGoal, Goal, IsGrounded
<1> QED  BY <1>1, <1>2, <1>3 DEF IsAnswered

-----------------------------------------------------------------------------
(* The inductive invariant.  The goals are kept as what compiling the answer *)
(* gave, because the two properties say nothing of a list that was collected *)
(* from anything but answers that were accepted.  An issue that has been     *)
(* read once was not read at the first attempt.                              *)

CompilerInv ==
  /\ issue \in Issues /\ step \in {"ask", "called", "compiled"}
  /\ attempt \in 0 .. MaxAttempts - 1 /\ malformed \in 0 .. MaxMalformed - 1
  /\ parsed \in BOOLEAN
  /\ step # "compiled" => goals = {} /\ direct = <<>> /\ (attempt = 0 => ~ parsed)
  /\ step = "compiled" =>
       IsAnswered(direct) /\ goals = Compiled(direct) /\ (parsed => direct # <<>>)

LEMMA CompilationStays ==
  ASSUME issue' = issue, NEW gs, direct' = gs
  PROVE  Collected(direct)' = Collected(gs) /\ Compiled(direct)' = Compiled(gs)
<1>1. Collected(direct)' = Collected(gs)  BY DEF Collected
<1> QED  BY <1>1 DEF Compiled

LEMMA CompileStep ==
  ASSUME CompilerInv, issue' = issue, NEW gs, IsAnswered(gs), parsed' \in BOOLEAN,
         parsed' => gs # <<>>, Compile(gs)
  PROVE  CompilerInv'
<1>1. /\ step' = "compiled" /\ attempt' = 0 /\ malformed' = 0
      /\ direct' = gs /\ goals' = Compiled(gs)
  BY DEF Compile
<1>2. goals' = Compiled(direct)'  BY <1>1, CompilationStays
<1>3. IsAnswered(direct)'  BY <1>1
<1> QED  BY <1>1, <1>2, <1>3 DEF CompilerInv, MaxAttempts, MaxMalformed

LEMMA NextAttemptStep ==
  ASSUME CompilerInv, step # "compiled", issue' = issue, NEW tried \in 1 .. MaxAttempts,
         NEW unreadable \in 0 .. MaxMalformed, NEW readable \in BOOLEAN, parsed' = readable,
         NextAttempt(tried, unreadable, readable)
  PROVE  CompilerInv'
<1>1. CASE tried = MaxAttempts \/ unreadable = MaxMalformed
  <2>1. CASE readable
    <3>1. Compile(<<UnresolvedGoal>>)  BY <1>1, <2>1 DEF NextAttempt
    <3> QED  BY <3>1, CompileStep, MarkerIsAnswered
  <2>2. CASE ~ readable
    <3>1. Compile(<<>>)  BY <1>1, <2>2 DEF NextAttempt
    <3> QED  BY <2>2, <3>1, CompileStep, NothingIsAnswered
  <2> QED  BY <2>1, <2>2
<1>2. CASE ~ (tried = MaxAttempts \/ unreadable = MaxMalformed)
  <2>1. /\ step' = "ask" /\ attempt' = tried /\ malformed' = unreadable
        /\ UNCHANGED <<direct, goals>>
    BY <1>2 DEF NextAttempt
  <2> QED  BY <1>2, <2>1 DEF CompilerInv, MaxAttempts, MaxMalformed
<1> QED  BY <1>1, <1>2

LEMMA CompilerInvStays ==
  ASSUME CompilerInv, UNCHANGED compilerVars
  PROVE  CompilerInv'
<1>1. UNCHANGED <<issue, step, attempt, malformed, parsed, direct, goals>>
  BY DEF compilerVars
<1>2. Compiled(direct)' = Compiled(direct)  BY <1>1, CompilationStays
<1>3. IsAnswered(direct)' <=> IsAnswered(direct)  BY <1>1
<1> QED  BY <1>1, <1>2, <1>3 DEF CompilerInv

LEMMA CompilerInvHolds == CompilerSpec => []CompilerInv
<1>1. ASSUME CompilerInit  PROVE CompilerInv
  <2>1. issue \in Issues /\ step = "ask" /\ attempt = 0 /\ malformed = 0 /\ parsed = FALSE
    BY <1>1 DEF CompilerInit
  <2>2. direct = <<>> /\ goals = {}  BY <1>1, Zenon DEF CompilerInit
  <2>3. 0 \in 0 .. MaxAttempts - 1 /\ 0 \in 0 .. MaxMalformed - 1
    BY DEF MaxAttempts, MaxMalformed
  <2>4. step # "compiled"  BY <2>1
  <2> QED  BY <2>1, <2>2, <2>3, <2>4, Zenon DEF CompilerInv
<1>2. ASSUME CompilerInv, [CompilerNext]_allVars  PROVE CompilerInv'
  <2>1. ASSUME step # "compiled", Unreadable  PROVE CompilerInv'
    <3>1. NextAttempt(attempt + 1, malformed + 1, parsed) /\ issue' = issue /\ parsed' = parsed
      BY <2>1 DEF Unreadable
    <3>2. /\ attempt + 1 \in 1 .. MaxAttempts /\ malformed + 1 \in 0 .. MaxMalformed
          /\ parsed \in BOOLEAN
      BY <1>2 DEF CompilerInv, MaxAttempts, MaxMalformed
    <3> QED  BY <1>2, <2>1, <3>1, <3>2, NextAttemptStep
  <2>2. CASE CompileOffline
    <3>1. step = "ask" /\ attempt = 0 /\ Compile(<<>>) /\ issue' = issue /\ parsed' = parsed
      BY <2>2 DEF CompileOffline
    <3>2. parsed' = FALSE  BY <1>2, <3>1 DEF CompilerInv
    <3> QED  BY <1>2, <3>1, <3>2, CompileStep, NothingIsAnswered
  <2>3. CASE Ask
    <3>1. /\ step = "ask" /\ step' = "called"
          /\ UNCHANGED <<issue, attempt, malformed, parsed, direct, goals>>
      BY <2>3 DEF Ask
    <3> QED  BY <1>2, <3>1 DEF CompilerInv
  <2>4. CASE AskInVain  BY <2>1, <2>4 DEF AskInVain
  <2>5. CASE UnreadableAnswer  BY <2>1, <2>5 DEF UnreadableAnswer
  <2>6. CASE ReadableAnswer
    <3>1. PICK answer \in Answers :
            IF Accepted(answer) THEN Compile(GoalsOfAnswer(answer))
                                ELSE NextAttempt(attempt + 1, malformed, TRUE)
      BY <2>6 DEF ReadableAnswer
    <3>2. step = "called" /\ parsed' = TRUE /\ issue' = issue  BY <2>6 DEF ReadableAnswer
    <3>3. CASE Accepted(answer)
      BY <1>2, <3>1, <3>2, <3>3, CompileStep, AcceptedIsAnswered
    <3>4. CASE ~ Accepted(answer)
      <4>1. attempt + 1 \in 1 .. MaxAttempts /\ malformed \in 0 .. MaxMalformed
        BY <1>2 DEF CompilerInv, MaxAttempts, MaxMalformed
      <4> QED  BY <1>2, <3>1, <3>2, <3>4, <4>1, NextAttemptStep
    <3> QED  BY <3>3, <3>4
  <2>7. CASE TimePasses  BY <1>2, <2>7, CompilerInvStays DEF TimePasses
  <2>8. CASE RestOfCase  BY <1>2, <2>8, CompilerInvStays DEF RestOfCase
  <2>9. CASE UNCHANGED allVars  BY <1>2, <2>9, CompilerInvStays DEF allVars
  <2> QED  BY <1>2, <2>2, <2>3, <2>4, <2>5, <2>6, <2>7, <2>8, <2>9 DEF CompilerNext
<1> QED  BY <1>1, <1>2, PTL DEF CompilerSpec

\* Whoever named a goal the patch must reach, and whatever it was merged with, a
\* quote of the issue that states expected behaviour asks for it, or a public check
\* does; and the fallback quotes only lines of the report.
THEOREM GoalsAreGroundedHolds == CompilerSpec => []GoalsAreGrounded
<1>1. CompilerInv => GoalsAreGrounded
  <2> SUFFICES ASSUME CompilerInv  PROVE GoalsAreGrounded  OBVIOUS
  <2>1. \A g \in goals : g.hard \in BOOLEAN /\ g.from \in Froms /\ IsGrounded(g)
    <3>1. CASE step = "compiled"
      <4>1. issue \in Issues /\ IsAnswered(direct) /\ goals = Compiled(direct)
        BY <3>1 DEF CompilerInv
      <4>2. AreCompiled(direct)  BY <4>1, CompiledFacts
      <4> QED  BY <4>1, <4>2 DEF AreCompiled
    <3>2. CASE step # "compiled"  BY <3>2 DEF CompilerInv
    <3> QED  BY <3>1, <3>2
  <2>2. TypeOKCompiler  BY <2>1 DEF CompilerInv, TypeOKCompiler, Froms
  <2>3. HardGoalsAreGrounded  BY <2>1 DEF HardGoalsAreGrounded, IsGrounded
  <2>4. ClaimsAreOfTheReport
    <3>1. issue \in Issues  BY DEF CompilerInv
    <3> QED  BY <3>1, ClaimsFacts DEF ClaimsAreOfTheReport, OfReport
  <2> QED  BY <2>2, <2>3, <2>4 DEF GoalsAreGrounded
<1> QED  BY <1>1, CompilerInvHolds, PTL

\* Merging goals that say the same loses no quote of the issue, and a readable answer
\* of the model, however often it was faulty, leaves the case with a goal.
THEOREM ProvenanceHolds == CompilerSpec => []ProvenanceIsKept
<1>1. CompilerInv => ProvenanceIsKept
  <2> SUFFICES ASSUME CompilerInv, step = "compiled"
               PROVE  /\ SpansOf(ToSet(WithoutMarkers(Collected(direct)))) = SpansOf(goals)
                      /\ parsed => goals # {}
    BY DEF ProvenanceIsKept
  <2>1. /\ issue \in Issues /\ IsAnswered(direct) /\ goals = Compiled(direct)
        /\ (parsed => direct # <<>>)
    BY DEF CompilerInv
  <2>2. AreCompiled(direct)  BY <2>1, CompiledFacts
  <2> QED  BY <2>1, <2>2 DEF AreCompiled
<1> QED  BY <1>1, CompilerInvHolds, PTL

-----------------------------------------------------------------------------
(* Compilation spends the budget of the case, and nothing else.              *)

\* Every step of a compilation is a step of the budget or leaves it alone.
THEOREM CompilerSpendsTheBudget == CompilerSpec => Spec
<1>1. CompilerInit => Init  BY DEF CompilerInit
<1>2. ASSUME [CompilerNext]_allVars  PROVE [Next]_vars
  <2>1. CASE CompileOffline  BY <2>1 DEF CompileOffline, budgetVars
  <2>2. CASE Ask
    <3>1. \E input \in Inputs, limit \in OutputLimits, timeout \in Timeouts :
            StartModelCall(input, limit, timeout)
      BY <2>2 DEF Ask
    <3> QED  BY <3>1 DEF Next
  <2>3. CASE AskInVain
    <3>1. \E input \in Inputs, limit \in OutputLimits :
            RefuseModelCall("goal_compiler", input, limit)
      BY <2>3 DEF AskInVain
    <3>2. "goal_compiler" \in ModelCallers  BY DEF ModelCallers
    <3> QED  BY <3>1, <3>2 DEF Next
  <2>4. CASE UnreadableAnswer  BY <2>4 DEF UnreadableAnswer, Next
  <2>5. CASE ReadableAnswer  BY <2>5 DEF ReadableAnswer, Next
  <2>6. CASE TimePasses  BY <2>6 DEF TimePasses, Next
  <2>7. CASE RestOfCase  BY <2>7 DEF RestOfCase
  <2>8. CASE UNCHANGED allVars  BY <2>8 DEF allVars, budgetVars
  <2> QED  BY <1>2, <2>1, <2>2, <2>3, <2>4, <2>5, <2>6, <2>7, <2>8 DEF CompilerNext
<1> QED  BY <1>1, <1>2, PTL DEF CompilerSpec, Spec

\* However its calls end, the compiler exceeds no account by more than one answer.
THEOREM BudgetHoldsInCompilation == CompilerSpec => []BudgetIsKept
BY CompilerSpendsTheBudget, BudgetHolds, PTL

\* No call of the compiler is scheduled into the reserve for the final validation.
THEOREM ReserveIsSafeInCompilation == CompilerSpec => []ReserveIsKept
BY CompilerSpendsTheBudget, ReserveIsSafe, PTL
=============================================================================
