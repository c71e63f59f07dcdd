----------------------- MODULE SolverDecisions_proofs -----------------------
(***************************************************************************)
(* What the solver puts in force, for every set of errors, every threshold *)
(* above 1 and every number of calls and sessions.  Both invariants are    *)
(* about the last call and are inductive as they stand: whatever a call    *)
(* found, its branches compare what they have to.                          *)
(***************************************************************************)
EXTENDS SolverDecisions, TLAPS

\* The limit scaled by the threshold is above the limit: a solution that fails
\* validation and is still in the running beats no transform that validates.
LEMMA OutOfReach ==
  ASSUME NEW p \in Nat, NEW r \in Nat, r > Limit, ~(p * Den < r * Num)
  PROVE  p > Limit
<1>1. Den \in Nat \ {0} /\ Num \in Nat /\ Num > Den
  BY SolverAssumption
<1>2. SUFFICES ASSUME p <= Limit PROVE FALSE
  BY DEF Limit
<1>3. p * Den <= Limit * Den
  BY <1>1, <1>2 DEF Limit
<1>4. Limit * Den < Limit * Num
  BY <1>1 DEF Limit
<1>5. Limit * Num <= r * Num
  BY <1>1 DEF Limit
<1>6. p * Den \in Int /\ r * Num \in Int /\ Limit * Den \in Int /\ Limit * Num \in Int
  BY <1>1 DEF Limit
<1> QED
  BY <1>3, <1>4, <1>5, <1>6

\* What the candidates of a call are, as far as the proofs need it.
LEMMA CandidatesTyped ==
  ASSUME NEW e \in Candidates
  PROVE  /\ e.rel \in Nat /\ e.raw \in Nat /\ e.gap \in Nat
         /\ e.prior \in Nat
<1>1. Errors \subseteq Nat /\ Infinity \in Nat
  BY SolverAssumption
<1> QED
  BY <1>1 DEF Candidates

\* A call that keeps the transform shows nothing.
LEMMA KeepSafe ==
  ASSUME NEW e, Keep(e)
  PROVE  NeverWorse' /\ LockYields'
BY DEF Keep, Put, NeverWorse, LockYields

\* A call that goes by the relation is safe where it betters what validates.
LEMMA RelationSafe ==
  ASSUME NEW e, NEW ax, PutRelation(e, ax),
         valid /\ Validates(e.prior) => e.rel * Num <= e.prior * Den
  PROVE  NeverWorse' /\ LockYields'
BY DEF PutRelation, Put, NeverWorse, LockYields, Validates

LEMMA LockedSafe ==
  ASSUME NEW e \in Candidates, Locked(e)
  PROVE  NeverWorse' /\ LockYields'
BY DEF Locked, Put, NeverWorse, LockYields

LEMMA StaticSafe ==
  ASSUME NEW e \in Candidates, Static(e)
  PROVE  NeverWorse' /\ LockYields'
<1>1. CASE Keep(e)
  BY <1>1, KeepSafe
<1>2. CASE PutRelation(e, 0) /\ Better(e.rel, e.prior)
  <2>1. e.rel * Num \in Int /\ e.prior * Den \in Int
    BY CandidatesTyped, SolverAssumption
  <2>2. e.rel * Num <= e.prior * Den
    BY <1>2, <2>1 DEF Better
  <2> QED
    BY <1>2, <2>2, RelationSafe
<1> QED
  BY <1>1, <1>2 DEF Static

LEMMA SolvedSafe ==
  ASSUME NEW e \in Candidates, Solved(e)
  PROVE  NeverWorse' /\ LockYields'
<1>1. CASE Keep(e)
  BY <1>1, KeepSafe
<1>2. CASE InRunning(e) /\ Validates(e.raw) /\ PutRaw(e)
  <2>1. e.raw * Num \in Int /\ e.prior * Den \in Int
    BY CandidatesTyped, SolverAssumption
  <2>2. valid => e.raw * Num <= e.prior * Den
    BY <1>2, <2>1 DEF InRunning
  <2>3. ctx.lock => ~Validates(e.rel)
    BY DEF Solved, LockHolds
  <2> QED
    BY <1>2, <2>2, <2>3 DEF PutRaw, Put, NeverWorse, LockYields, Validates
<1>3. CASE InRunning(e) /\ Rapid(e) /\ PutRelation(e, e.axis)
  <2>1. e.prior \in Nat /\ e.raw \in Nat
    BY CandidatesTyped
  <2>2. e.raw > Limit
    BY <1>3, <2>1 DEF Rapid, Validates, Limit
  <2>3. valid => ~(e.prior * Den < e.raw * Num)
    BY <1>3 DEF InRunning
  <2>4. valid => e.prior > Limit
    BY <2>1, <2>2, <2>3, OutOfReach
  <2>5. valid => ~Validates(e.prior)
    BY <2>1, <2>4 DEF Validates, Limit
  <2> QED
    BY <1>3, <2>5, RelationSafe
<1> QED
  BY <1>1, <1>2, <1>3 DEF Solved

\* The two invariants together, over every step.
DecisionInv == NeverWorse /\ LockYields

LEMMA DecisionStep ==
  ASSUME DecisionInv, [Next]_vars
  PROVE  DecisionInv'
<1>1. CASE ComputeIncremental
  BY <1>1, LockedSafe, StaticSafe, SolvedSafe DEF ComputeIncremental, DecisionInv
<1>2. CASE StartContinuous \/ EndContinuous \/ Oneshot \/ Restart
  BY <1>2 DEF StartContinuous, EndContinuous, Oneshot, Restart, Cleared, Nothing,
              DecisionInv, NeverWorse, LockYields
<1>3. CASE UNCHANGED last
  BY <1>3 DEF DecisionInv, NeverWorse, LockYields, Validates
<1> QED
  BY <1>1, <1>2, <1>3 DEF Next, vars, ToggleLock, ToggleStatic, ClearContext

LEMMA DecisionsSafe == Spec => []DecisionInv
<1>1. Init => DecisionInv
  BY DEF Init, Nothing, DecisionInv, NeverWorse, LockYields
<1> QED
  BY <1>1, DecisionStep, PTL DEF Spec

\* For every threshold above 1 and whatever errors a call meets, a transform that
\* still validates is only replaced by a better one (ComputeIncremental).
THEOREM NeverWorsened == Spec => []NeverWorse
BY DecisionsSafe, PTL DEF DecisionInv

\* A locked relation is given up only when it does not fit any more.
THEOREM LockHonoured == Spec => []LockYields
BY DecisionsSafe, PTL DEF DecisionInv

-----------------------------------------------------------------------------
(* The types *)

Lasts ==
  [took : {"nothing", "locked", "relation", "raw"}, prior : Errs, rel : Errs,
   raw : Errs, was : BOOLEAN, lock : BOOLEAN]
Contexts == [relation : Relations, relcal : BOOLEAN, lock : BOOLEAN, static : BOOLEAN]

\* Whatever a call puts in force is well formed.
LEMMA PutTyped ==
  ASSUME TypeOK, NEW e \in Candidates,
         NEW took \in {"nothing", "locked", "relation", "raw"}, NEW in \in BOOLEAN,
         NEW rel \in Relations, NEW cal \in BOOLEAN, NEW ax \in Variances \cup {0},
         took # "nothing" => in,
         Put(took, e, in, rel, cal, ax), running' = running
  PROVE  TypeOK'
<1>1. e.prior \in Errs /\ e.rel \in Errs /\ e.raw \in Errs
  BY DEF Candidates, Errs
<1>2. last' \in Lasts /\ last'.took = took
  BY <1>1 DEF Put, TypeOK, Lasts
<1>3. ctx' \in Contexts
  BY DEF Put, TypeOK, Contexts
<1> QED
  BY <1>2, <1>3 DEF Put, TypeOK, Lasts, Contexts

LEMMA ComputeTyped ==
  ASSUME TypeOK, NEW e \in Candidates, Locked(e) \/ Static(e) \/ Solved(e), running' = running
  PROVE  TypeOK'
<1>1. /\ e.axis \in Variances /\ "learnt" \in Relations
      /\ relation \in Relations /\ axis \in Variances \cup {0}
      /\ valid \in BOOLEAN /\ relcal \in BOOLEAN
  BY DEF Candidates, Relations, TypeOK
<1>2. CASE Keep(e)
  BY <1>1, <1>2, PutTyped DEF Keep
<1>3. CASE \E ax \in Variances \cup {0} : PutRelation(e, ax)
  BY <1>1, <1>3, PutTyped DEF PutRelation
<1>4. CASE PutRaw(e)
  BY <1>1, <1>4, PutTyped DEF PutRaw
<1>5. CASE Put("locked", e, TRUE, relation, relcal, axis)
  BY <1>1, <1>5, PutTyped
<1> QED
  BY <1>1, <1>2, <1>3, <1>4, <1>5 DEF Locked, Static, Solved

\* Every variable keeps to its type, and after a call that put a transform in
\* force there is one, over every call and session.
THEOREM TypeCorrect == Spec => []TypeOK
<1>0. Loaded \subseteq Contexts /\ Nothing \in Lasts /\ Nothing.took = "nothing"
  BY DEF Loaded, Contexts, Relations, Nothing, Lasts, Errs
<1>1. Init => TypeOK
  <2>1. Init => valid \in BOOLEAN /\ relcal \in BOOLEAN /\ running \in BOOLEAN
    BY Zenon DEF Init
  <2>2. Init => relation \in Relations /\ axis \in Variances \cup {0}
    BY DEF Init, Relations
  <2>3. Init => ctx \in Contexts /\ last = Nothing
    BY <1>0, Zenon DEF Init
  <2> QED
    BY <1>0, <2>1, <2>2, <2>3 DEF TypeOK, Contexts, Lasts
<1>2. ASSUME TypeOK, [Next]_vars PROVE TypeOK'
  <2>1. CASE ComputeIncremental
    BY <1>2, <2>1, ComputeTyped DEF ComputeIncremental
  <2>2. CASE StartContinuous \/ EndContinuous \/ Oneshot \/ Restart
    <3>1. last' = Nothing
      BY <2>2 DEF StartContinuous, EndContinuous, Oneshot, Restart, Cleared
    <3>2. ctx \in Contexts /\ ctx' \in Contexts
      BY <1>0, <1>2, <2>2 DEF StartContinuous, EndContinuous, Oneshot, Restart, TypeOK,
                              Contexts, Relations
    <3>3. valid' \in BOOLEAN /\ axis' \in Variances \cup {0}
      BY <1>2, <2>2 DEF StartContinuous, EndContinuous, Oneshot, Restart, Cleared,
                        TypeOK, calcVars
    <3>4. relation' \in Relations /\ relcal' \in BOOLEAN
      BY <1>2, <2>2 DEF StartContinuous, EndContinuous, Oneshot, Restart, TypeOK,
                        Relations, calcVars
    <3>5. running' \in BOOLEAN
      BY <1>2, <2>2 DEF StartContinuous, EndContinuous, Oneshot, Restart, TypeOK
    <3> QED
      BY <1>0, <3>1, <3>2, <3>3, <3>4, <3>5 DEF TypeOK, Contexts, Lasts
  <2>3. CASE ToggleLock \/ ToggleStatic \/ ClearContext
    BY <1>2, <2>3 DEF ToggleLock, ToggleStatic, ClearContext, Relations, TypeOK, calcVars
  <2>4. CASE UNCHANGED vars
    BY <1>2, <2>4 DEF vars, calcVars, TypeOK
  <2> QED
    BY <1>2, <2>1, <2>2, <2>3, <2>4 DEF Next
<1> QED
  BY <1>1, <1>2, PTL DEF Spec
=============================================================================
