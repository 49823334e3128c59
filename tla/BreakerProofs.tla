---------------------------- MODULE BreakerProofs ----------------------------
(* The invariants of the circuit breaker, for every number of callers and  *)
(* every threshold.                                                        *)
EXTENDS CircuitBreaker, TLAPS

\* The two invariants are inductive together: a closed breaker counts below
\* the threshold, so one more failure is at most the threshold.
BreakerInv == TypeOK /\ ClosedIsBelowThreshold

LEMMA BreakerInitially == Init => BreakerInv
<1>. SUFFICES ASSUME Init  PROVE BreakerInv
  OBVIOUS
<1>1. TypeOK
  <2>1. descanso \in BOOLEAN /\ up \in BOOLEAN
    BY Zenon DEF Init
  <2>2. /\ estado \in {"cerrado", "abierto", "tanteando"}
        /\ fallosSeguidos \in 0..Threshold
        /\ call \in [Caller -> {"idle", "running", "doomed"}]
    BY BreakerAssumption DEF Init
  <2>. QED  BY <2>1, <2>2 DEF TypeOK
<1>2. ClosedIsBelowThreshold
  BY BreakerAssumption DEF Init, ClosedIsBelowThreshold
<1>. QED  BY <1>1, <1>2 DEF BreakerInv

\* How a call ends leaves the breaker in one of its states.
LEMMA Success ==
    ASSUME BreakerInv, alExito
    PROVE  /\ estado' = "cerrado" /\ fallosSeguidos' = 0
           /\ descanso' \in BOOLEAN
  BY DEF alExito, BreakerInv, TypeOK

LEMMA Failure ==
    ASSUME BreakerInv, alFallo
    PROVE  /\ estado' \in {"cerrado", "abierto", "tanteando"}
           /\ fallosSeguidos' \in 0..Threshold
           /\ descanso' \in BOOLEAN
           /\ estado' = "cerrado" => fallosSeguidos' < Threshold
<1>1. CASE estado = "tanteando"
  BY <1>1 DEF alFallo, abrir, BreakerInv, TypeOK
<1>2. CASE estado # "tanteando"
  <2>1. fallosSeguidos \in 0..Threshold /\ Counted \in 0..Threshold
    BY BreakerAssumption DEF BreakerInv, TypeOK, Counted
  <2>2. fallosSeguidos' = Counted
    BY <1>2 DEF alFallo
  <2>3. CASE Opens(Counted)
    BY <1>2, <2>1, <2>2, <2>3 DEF alFallo, abrir
  <2>4. CASE ~ Opens(Counted)
    <3>1. UNCHANGED <<estado, descanso>>
      BY <1>2, <2>4 DEF alFallo
    <3>2. Counted < Threshold
      BY <2>1, <2>4, BreakerAssumption DEF Opens
    <3>. QED  BY <2>1, <2>2, <3>1, <3>2 DEF BreakerInv, TypeOK
  <2>. QED  BY <2>3, <2>4
<1>. QED  BY <1>1, <1>2

LEMMA BreakerStep == BreakerInv /\ [Next]_vars => BreakerInv'
<1>. SUFFICES ASSUME BreakerInv, [Next]_vars
              PROVE  BreakerInv'
  OBVIOUS
<1>1. ASSUME NEW c \in Caller, Start(c)  PROVE BreakerInv'
  BY <1>1 DEF Start, BreakerInv, TypeOK, ClosedIsBelowThreshold
<1>2. ASSUME NEW c \in Caller, Answered(c)  PROVE BreakerInv'
  <2>1. /\ call' \in [Caller -> {"idle", "running", "doomed"}]
        /\ up' \in BOOLEAN
    BY <1>2 DEF Answered, BreakerInv, TypeOK
  <2>. QED  BY <1>2, <2>1, Success, BreakerAssumption
            DEF Answered, BreakerInv, TypeOK, ClosedIsBelowThreshold
<1>3. ASSUME NEW c \in Caller, TimedOut(c)  PROVE BreakerInv'
  <2>1. /\ call' \in [Caller -> {"idle", "running", "doomed"}]
        /\ up' \in BOOLEAN
    BY <1>3 DEF TimedOut, BreakerInv, TypeOK
  <2>2. alFallo
    BY <1>3 DEF TimedOut
  <2>. QED  BY <2>1, <2>2, Failure DEF BreakerInv, TypeOK, ClosedIsBelowThreshold
<1>4. CASE RestEnds
  BY <1>4 DEF RestEnds, BreakerInv, TypeOK, ClosedIsBelowThreshold
<1>5. CASE ServiceFails
  <2>1. UNCHANGED breakerVars /\ up' \in BOOLEAN
    BY <1>5 DEF ServiceFails
  <2>2. call' \in [Caller -> {"idle", "running", "doomed"}]
    BY <1>5 DEF ServiceFails, BreakerInv, TypeOK
  <2>. QED  BY <2>1, <2>2 DEF breakerVars, BreakerInv, TypeOK, ClosedIsBelowThreshold
<1>6. CASE ServiceReturns
  BY <1>6 DEF ServiceReturns, breakerVars, BreakerInv, TypeOK, ClosedIsBelowThreshold
<1>7. CASE UNCHANGED vars
  BY <1>7 DEF vars, breakerVars, BreakerInv, TypeOK, ClosedIsBelowThreshold
<1>. QED  BY <1>1, <1>2, <1>3, <1>4, <1>5, <1>6, <1>7 DEF Next

THEOREM BreakerInvariant == Spec => []BreakerInv
  BY BreakerInitially, BreakerStep, PTL DEF Spec

\* The state of the breaker is one of the three, with a count that has a place
\* (circuit-breaker.ts:20-45).
THEOREM BreakerTypes == Spec => []TypeOK
<1>1. BreakerInv => TypeOK  BY DEF BreakerInv
<1>. QED  BY BreakerInvariant, <1>1, PTL

\* However calls that overlap end, a closed breaker has counted fewer failures
\* in a row than the threshold (circuit-breaker.ts:96-112).
THEOREM ClosedBreakerIsBelowThreshold == Spec => []ClosedIsBelowThreshold
<1>1. BreakerInv => ClosedIsBelowThreshold  BY DEF BreakerInv
<1>. QED  BY BreakerInvariant, <1>1, PTL
=============================================================================
