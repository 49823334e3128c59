--------------------------- MODULE CircuitBreaker ---------------------------
(***************************************************************************)
(* The circuit breaker in front of a service outside, as the e-mail has    *)
(* it: calls run at the same time, each started under one state of the     *)
(* breaker and ended under another.  A restart is a new instance, Init.    *)
(***************************************************************************)
EXTENDS Naturals

CONSTANTS
    Caller,     \* whoever calls, one call at a time each
    Threshold   \* failureThreshold

ASSUME BreakerAssumption == Threshold \in Nat \ {0}

VARIABLES
    estado,          \* "cerrado", "abierto", "tanteando"
    fallosSeguidos,  \* up to Threshold: a larger count is treated alike
    descanso,        \* Date.now() < abiertoHasta
    call,            \* per caller: "idle", "running", or "doomed" to get no answer
    up               \* whether the service answers the calls it gets now

breakerVars == <<estado, fallosSeguidos, descanso>>
vars == <<breakerVars, call, up>>

TypeOK ==
    /\ estado \in {"cerrado", "abierto", "tanteando"}
    /\ fallosSeguidos \in 0..Threshold
    /\ descanso \in BOOLEAN
    /\ call \in [Caller -> {"idle", "running", "doomed"}]
    /\ up \in BOOLEAN

Init ==
    /\ estado = "cerrado"
    /\ fallosSeguidos = 0
    /\ descanso = FALSE
    /\ call = [c \in Caller |-> "idle"]
    /\ up = TRUE

-----------------------------------------------------------------------------
(* What the breaker does before and after an operation.                    *)

\* A mutant: an open breaker is never tried again.
OnceOpenRejects == estado = "abierto"

\* The call fails at once, and nothing changes.
Rejects == estado = "abierto" /\ descanso

abrir ==
    /\ estado' = "abierto"
    /\ descanso' = TRUE

\* A mutant: a success is taken for one of many and the state stays.
ForgetfulSuccess ==
    /\ fallosSeguidos' = 0
    /\ UNCHANGED <<estado, descanso>>

\* In whatever state the call ends, not only the one it started in.
alExito ==
    /\ estado' = "cerrado"
    /\ fallosSeguidos' = 0
    /\ UNCHANGED descanso

\* A mutant: one failure is counted twice.
CountedTwice == IF fallosSeguidos < Threshold THEN fallosSeguidos + 2 ELSE Threshold

Counted == IF fallosSeguidos < Threshold THEN fallosSeguidos + 1 ELSE Threshold

\* A mutant: the breaker opens one failure late.
OpensLate(count) == count > Threshold

Opens(count) == count >= Threshold

\* A mutant: a probe that fails closes the breaker, to count from zero.
LenientFailure ==
    IF estado = "tanteando" THEN alExito
    ELSE /\ fallosSeguidos' = Counted
         /\ IF Opens(Counted) THEN abrir ELSE UNCHANGED <<estado, descanso>>

alFallo ==
    \/ /\ estado = "tanteando"
       /\ abrir
       /\ UNCHANGED fallosSeguidos
    \/ /\ estado # "tanteando"
       /\ fallosSeguidos' = Counted
       /\ IF Opens(Counted) THEN abrir ELSE UNCHANGED <<estado, descanso>>

-----------------------------------------------------------------------------
(* The calls.                                                              *)

\* run, up to the operation: in "tanteando" every call passes, not just one.
Start(c) ==
    /\ call[c] = "idle"
    /\ ~Rejects
    /\ estado' = IF estado = "abierto" THEN "tanteando" ELSE estado
    /\ call' = [call EXCEPT ![c] = IF up THEN "running" ELSE "doomed"]
    /\ UNCHANGED <<fallosSeguidos, descanso, up>>

\* Any answer, a rejection of the message too, is a success for the breaker.
Answered(c) ==
    /\ call[c] = "running"
    /\ call' = [call EXCEPT ![c] = "idle"]
    /\ alExito
    /\ UNCHANGED up

\* The race against the timer is lost.
TimedOut(c) ==
    /\ call[c] = "doomed"
    /\ call' = [call EXCEPT ![c] = "idle"]
    /\ alFallo
    /\ UNCHANGED up

\* resetMs have passed.
RestEnds ==
    /\ descanso
    /\ descanso' = FALSE
    /\ UNCHANGED <<estado, fallosSeguidos, call, up>>

-----------------------------------------------------------------------------
(* The service outside.                                                    *)

\* It stops answering: new calls, and some of those in progress.
ServiceFails ==
    /\ up /\ up' = FALSE
    /\ \E Lost \in SUBSET {c \in Caller : call[c] = "running"} :
          call' = [c \in Caller |-> IF c \in Lost THEN "doomed" ELSE call[c]]
    /\ UNCHANGED breakerVars

ServiceReturns ==
    /\ ~up /\ up' = TRUE
    /\ UNCHANGED <<breakerVars, call>>

Next ==
    \/ \E c \in Caller : Start(c) \/ Answered(c) \/ TimedOut(c)
    \/ RestEnds
    \/ ServiceFails
    \/ ServiceReturns

\* Callers try again for ever, as the queue's interval does with its mails;
\* every call ends by its timer at the latest; time passes.
Fairness ==
    /\ \A c \in Caller : WF_vars(Start(c)) /\ WF_vars(Answered(c) \/ TimedOut(c))
    /\ WF_vars(RestEnds)

Spec == Init /\ [][Next]_vars /\ Fairness

-----------------------------------------------------------------------------
(* Properties.                                                             *)

\* A closed breaker has never let the failures reach the threshold, in
\* whatever order the calls ended (circuit-breaker.ts:96-112).
ClosedIsBelowThreshold == estado = "cerrado" => fallosSeguidos < Threshold

\* Failures stay fewer than the threshold, or the service is cut off: once it
\* is silent for good the breaker does not let calls pile up in the closed
\* state for ever (circuit-breaker.ts:8-17).
SilentServiceIsCutOff == <>[]~up => <>[](estado # "cerrado")

\* Late failures of calls that started before, or several probes at once, may
\* open the breaker again, but a service that is back for good is used again
\* for good (circuit-breaker.ts:16-17).
ServiceIsUsedAgain == <>[]up => <>[](estado = "cerrado")

\* Does not hold, and no run checks it: after the rest only one call is let
\* through to probe (circuit-breaker.ts:16-17).
OneProbeAtATime ==
    [][\A c, d \in Caller :
          estado = "tanteando" /\ call[c] # "idle" /\ call[d] = "idle" => call'[d] = "idle"]_vars
=============================================================================
