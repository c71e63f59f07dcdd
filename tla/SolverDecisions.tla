-------------------------- MODULE SolverDecisions --------------------------
(***************************************************************************)
(* Which of its candidates the calibration solver puts in force            *)
(* (CalibrationCalc.cpp), over the sessions of the overlay                 *)
(* (Calibration.cpp): a raw solution of the samples, or the transform that *)
(* follows from the relation of the two devices learnt before.             *)
(*                                                                         *)
(* What a candidate is is abstracted to its retargeting error on the       *)
(* samples of the call, in millimetres: any values, as every call has      *)
(* other samples.  The variance of the second axis is a small number too.  *)
(***************************************************************************)
EXTENDS Integers

CONSTANTS
  Errors,        \* RMS errors of candidates
  Variances,     \* variances of the second axis
  LowVariance,   \* AxisVarianceThreshold
  MaxRelError,   \* CalCtx.maxRelativeErrorThreshold
  Num, Den,      \* CalCtx.continuousCalibrationThreshold is Num / Den
  Infinity       \* INFINITY, larger than any error

Limit == 100     \* ValidateCalibration: 0.1 m

ASSUME SolverAssumption ==
  /\ Infinity \in Nat /\ Errors \subseteq 0 .. Infinity - 1
  /\ Variances \subseteq Nat /\ LowVariance \in Nat /\ MaxRelError \in Nat
  /\ Den \in Nat \ {0} /\ Num \in Nat /\ Num > Den

VARIABLES
  valid,      \* m_isValid
  relation,   \* where m_refToTargetPose comes from
  relcal,     \* m_relativePosCalibrated
  axis,       \* m_axisVariance
  running,    \* continuous calibration goes on
  ctx,        \* refToTargetPose, relativePosCalibrated and the two checkboxes
  last        \* history: what the last call found and did

calcVars == <<valid, relation, relcal, axis>>
vars == <<calcVars, running, ctx, last>>

Relations == {"identity", "learnt"}

\* What the call found: prior is the error of the transform in force, rel that of
\* the one by relation, raw that of the solution; took is what it put in force.
Nothing == [took |-> "nothing", prior |-> 0, rel |-> 0, raw |-> 0, was |-> FALSE, lock |-> FALSE]

\* What a profile may leave: it has no relation, and its reader may take a flag
\* that follows relative_pos_calibrated for it.
Loaded == [relation : {"identity"}, relcal : BOOLEAN, lock : BOOLEAN, static : BOOLEAN]

Init ==
  /\ valid = FALSE /\ relation = "identity" /\ relcal = FALSE /\ axis = 0
  /\ running = FALSE
  /\ ctx \in Loaded
  /\ last = Nothing

-----------------------------------------------------------------------------
(* One call of ComputeIncremental.  Its steps keep the order of the code.  *)

\* ValidateCalibration, which reports the error also when it says no.
Validates(e) == e <= Limit

\* a is better than b by the recalibration threshold.
Better(a, b) == a * Num < b * Den

\* What a call leaves: the tick stores a valid result, old or new.
Put(took, e, in, rel, cal, ax) ==
  /\ valid' = in /\ relation' = rel /\ relcal' = cal /\ axis' = ax
  /\ ctx' = IF in THEN [ctx EXCEPT !.relation = rel, !.relcal = cal] ELSE ctx
  /\ last' = [took |-> took, prior |-> e.prior, rel |-> e.rel, raw |-> e.raw,
              was |-> valid, lock |-> ctx.lock]

Keep(e) == Put("nothing", e, valid, relation, relcal, axis)
PutRelation(e, ax) == Put("relation", e, TRUE, relation, relcal \/ e.rel < 5, ax)
PutRaw(e) == Put("raw", e, TRUE, "learnt", relcal \/ e.raw < 5, e.axis)

\* Mutant: the locked relation counts only once there is a result.
LockHoldsLater(e) == ctx.lock /\ valid /\ Validates(e.rel)

\* The relation is locked and still fits: no other candidate is looked at.
LockHolds(e) == ctx.lock /\ Validates(e.rel)

Locked(e) == LockHolds(e) /\ Put("locked", e, TRUE, relation, relcal, axis)

\* Static recalibration, where the relation fits well: it settles the call.
FitsWell(e) ==
  /\ ~LockHolds(e)
  /\ ctx.static /\ Validates(e.rel)
  /\ e.rel < 10 \/ (relcal /\ e.rel < 25)

\* Mutant: the error of the transform in force is not looked at.
StaticUnasked(e) ==
  /\ FitsWell(e)
  /\ IF e.rel > MaxRelError THEN Keep(e) ELSE PutRelation(e, 0)

Static(e) ==
  /\ FitsWell(e)
  /\ IF ~Better(e.rel, e.prior) \/ e.rel > MaxRelError THEN Keep(e) ELSE PutRelation(e, 0)

\* The raw solution is out when its rotations are all about one axis, more so
\* than the last one's, and when the transform in force is about as good.
InRunning(e) ==
  /\ ~(e.axis < LowVariance /\ e.axis < axis)
  /\ ~(valid /\ e.prior * Den < e.raw * Num)

\* Where it only fails validation, the relation gets another chance: against the
\* transform in force as measured by that relation.
Rapid(e) == ~Validates(e.raw) /\ ctx.static /\ Better(e.rel, e.gap)

Solved(e) ==
  /\ ~LockHolds(e) /\ ~FitsWell(e)
  /\ \/ InRunning(e) /\ Validates(e.raw) /\ PutRaw(e)
     \/ InRunning(e) /\ Rapid(e) /\ PutRelation(e, e.axis)
     \/ ~(InRunning(e) /\ (Validates(e.raw) \/ Rapid(e))) /\ Keep(e)

\* prior is only asked for a valid result; gap, its error by the offset of the
\* relation, is no less than prior, its error by the best offset.
Candidates ==
  {e \in [prior : Errors \cup {Infinity}, rel : Errors, raw : Errors, gap : Errors,
          axis : Variances] :
     IF valid THEN e.prior \in Errors /\ e.gap >= e.prior ELSE e.prior = Infinity}

ComputeIncremental ==
  /\ running
  /\ \E e \in Candidates : Locked(e) \/ Static(e) \/ Solved(e)
  /\ UNCHANGED running

-----------------------------------------------------------------------------
(* Sessions *)

\* Mutant: without samples the variance is the worst there is.
ClearedToWorst == valid' = FALSE /\ axis' = Infinity /\ last' = Nothing

Cleared == valid' = FALSE /\ axis' = 0 /\ last' = Nothing

\* StartContinuousCalibration hands the solver the relation of the context.
StartContinuous ==
  /\ ~running /\ running' = TRUE
  /\ Cleared /\ relation' = ctx.relation /\ relcal' = ctx.relcal
  /\ UNCHANGED ctx

EndContinuous ==
  /\ running /\ running' = FALSE
  /\ ctx' = [ctx EXCEPT !.relcal = FALSE]
  /\ last' = Nothing
  /\ UNCHANGED calcVars

\* From StartCalibration to the Clear after the result: ComputeOneshot learns no
\* relation, and what the tick stores in the context is an identity.
Oneshot ==
  /\ ~running
  /\ Cleared /\ relation' = "identity" /\ relcal' = FALSE
  /\ \E e \in Errors :
       ctx' = IF Validates(e) THEN [ctx EXCEPT !.relation = "identity", !.relcal = FALSE] ELSE ctx
  /\ UNCHANGED running

ToggleLock ==
  /\ running /\ ctx' = [ctx EXCEPT !.lock = ~@]
  /\ UNCHANGED <<calcVars, running, last>>

ToggleStatic ==
  /\ running /\ ctx' = [ctx EXCEPT !.static = ~@]
  /\ UNCHANGED <<calcVars, running, last>>

\* The Clear Calibration button, outside continuous calibration.
ClearContext ==
  /\ ~running
  /\ ctx' = [ctx EXCEPT !.relation = "identity", !.relcal = TRUE]
  /\ UNCHANGED <<calcVars, running, last>>

\* The overlay exits or crashes and is started again.
Restart ==
  /\ running' = FALSE
  /\ Cleared /\ relation' = "identity" /\ relcal' = FALSE
  /\ ctx' \in Loaded

Next ==
  \/ ComputeIncremental \/ StartContinuous \/ EndContinuous \/ Oneshot
  \/ ToggleLock \/ ToggleStatic \/ ClearContext \/ Restart

Spec == Init /\ [][Next]_vars

-----------------------------------------------------------------------------
(* Properties *)

Errs == Errors \cup {Infinity, 0}

\* The types; what is in force after a call that put something is valid.
TypeOK ==
  /\ valid \in BOOLEAN /\ relation \in Relations /\ relcal \in BOOLEAN
  /\ axis \in Variances \cup {0} /\ running \in BOOLEAN
  /\ ctx \in [relation : Relations, relcal : BOOLEAN, lock : BOOLEAN, static : BOOLEAN]
  /\ last \in [took : {"nothing", "locked", "relation", "raw"}, prior : Errs, rel : Errs,
               raw : Errs, was : BOOLEAN, lock : BOOLEAN]
  /\ last.took # "nothing" => valid

\* A transform that still validates on the samples of the call is only replaced
\* by one that is better by the recalibration threshold, whichever of the three
\* ways the new one came; only a locked relation is put in force unasked.
NeverWorse ==
  last.was /\ Validates(last.prior) =>
    /\ last.took = "relation" => last.rel * Num <= last.prior * Den
    /\ last.took = "raw" => last.raw * Num <= last.prior * Den

\* A locked relation is learnt anew only when the transform it gives does not
\* validate any more, and the new one does.
LockYields ==
  last.lock /\ last.took = "raw" => ~Validates(last.rel) /\ Validates(last.raw)
=============================================================================
