---------------------------- MODULE StartupProofs ----------------------------
(* What the validation accepts can be built and is whole, from whatever    *)
(* environments a deployment starts and however often it is edited.        *)
EXTENDS Startup, TLAPS

\* A process that got past the validation has an environment it accepts, and one
\* that was built an environment its storage takes: the container is made again
\* when a variable changes.
PastValidation ==
    /\ phase \in {"accepted", "built", "connected", "listening"} => Accepts(config)
    /\ phase \in {"built", "connected", "listening"} => ~ StorageThrows(config)

WholeInv == PastValidation /\ AcceptedIsWhole

\* The drivers of the validation and of the service are the same.
LEMMA SameDriver ==
    ASSUME NEW c, Accepts(c)
    PROVE  resolveDriver(c) = Driver(c)
  BY DEF Accepts, ModeIsKnown, Driver, resolveDriver

\* An accepted environment makes one constructor throw, for one value.
LEMMA AcceptedCanBeBuilt ==
    ASSUME NEW c, Accepts(c),
           StorageThrows(c) \/ TokensThrow(c) \/ StrategyThrows(c)
    PROVE  resolveDriver(c) = "supabase" /\ c["SUPABASE_URL"] = "otherScheme"
<1>1. /\ \A k \in Required(c) : IsTruthy(c[k])
      /\ Driver(c) = "s3" => ImagesHaveABucket(c) /\ ~ SameBox(c)
      /\ SecretsAreLong(c)
      /\ UrlsParse(c)
      /\ Driver(c) \in {"supabase", "s3", "local"}
  BY DEF Accepts, RequiredAreSet, ModeIsKnown
<1>2. resolveDriver(c) = Driver(c)
  BY SameDriver
<1>3. ~ TokensThrow(c) /\ ~ StrategyThrows(c)
  <2>1. IsTruthy(c["JWT_SECRET"]) /\ IsTruthy(c["JWT_ISSUER"])
    BY <1>1 DEF Required
  <2>. QED  BY <1>1, <2>1 DEF TokensThrow, StrategyThrows, Inherited, IsTruthy, SecretsAreLong
<1>4. CASE Driver(c) = "s3"
  <2>1. IsTruthy(c["S3_PUBLIC_BASE_URL"]) /\ IsTruthy(c["S3_PUBLIC_BUCKET"])
    BY <1>1, <1>4 DEF Required
  <2>2. \A pair \in InheritedPairs : Inherited(c, pair[1], pair[2]) # "unset"
    BY <1>1, <1>4 DEF ImagesHaveABucket, IsTruthy
  <2>3. ~ StorageThrows(c)
    BY <1>1, <1>2, <1>4, <2>1, <2>2 DEF StorageThrows, IsTruthy
  <2>. QED  BY <1>3, <2>3
<1>5. CASE Driver(c) = "local"
  BY <1>2, <1>3, <1>5 DEF StorageThrows
<1>6. CASE Driver(c) = "supabase"
  <2>1. \A k \in {"SUPABASE_URL", "SUPABASE_SERVICE_ROLE_KEY",
                  "SUPABASE_STORAGE_BUCKET"} : IsTruthy(c[k])
    BY <1>1, <1>6 DEF Required
  <2>2. c["SUPABASE_URL"] # "bad"
    BY <1>1, <1>6 DEF UrlsParse
  <2>. QED  BY <1>2, <1>3, <1>6, <2>1, <2>2 DEF StorageThrows, ClientRefuses
<1>. QED  BY <1>1, <1>4, <1>5, <1>6

\* What is built from an accepted environment has no half of anything.
LEMMA AcceptedHasNoHalves ==
    ASSUME NEW c, Accepts(c)
    PROVE  Whole(c)
<1>1. TakesPayments(c) => HearsPayments(c) /\ ~ CheckoutThrows(c)
  BY DEF Accepts, PaymentsAreWhole, TakesPayments, HearsPayments, CheckoutThrows, IsTruthy
<1>2. (\E k \in PrivateKeys : IsTruthy(c[k])) => SellsFiles(c)
  BY DEF Accepts, PrivateStoreIsWhole, SellsFiles
<1>3. resolveDriver(c) = "s3" => ~ SameBox(c)
  BY SameDriver DEF Accepts
<1>4. SessionCookie(c).sameSite = "none" => SessionCookie(c).secure
  BY DEF SessionCookie
<1>. QED  BY <1>1, <1>2, <1>3, <1>4 DEF Whole

\* What is accepted and built can store images, or has an endpoint for them that
\* nobody looked at.
LEMMA AcceptedCanStore ==
    ASSUME NEW c, Accepts(c), ~ StorageThrows(c)
    PROVE  ImagesCanBeStored(c) \/ EndpointIsUnchecked(c)
<1>1. resolveDriver(c) = Driver(c) /\ Driver(c) \in {"supabase", "s3", "local"}
  BY SameDriver DEF Accepts, ModeIsKnown
<1>2. CASE Driver(c) = "s3"
  <2>1. ImagesHaveABucket(c) /\ PrivateStoreIsWhole(c) /\ RequiredAreSet(c)
    BY <1>2 DEF Accepts
  <2>2. IsTruthy(c["S3_PUBLIC_BASE_URL"]) /\ IsTruthy(c["S3_PUBLIC_BUCKET"])
    BY <1>2, <2>1 DEF RequiredAreSet, Required
  <2>3. ImagesHaveKeys(c)
    BY <2>1 DEF ImagesHaveABucket, ImagesHaveKeys
  <2>4. IsTruthy(Inherited(c, "S3_PUBLIC_ENDPOINT", "S3_ENDPOINT"))
    <3>1. <<"S3_PUBLIC_ENDPOINT", "S3_ENDPOINT">> \in InheritedPairs
      BY DEF InheritedPairs
    <3>. QED  BY <2>1, <3>1 DEF ImagesHaveABucket
  <2>5. IsTruthy(c["S3_ENDPOINT"]) => c["S3_ENDPOINT"] = "here"
    BY <2>1 DEF PrivateStoreIsWhole
  <2>6. \/ CanBeAsked(Inherited(c, "S3_PUBLIC_ENDPOINT", "S3_ENDPOINT"))
        \/ EndpointIsUnchecked(c)
    BY <2>4, <2>5 DEF Inherited, CanBeAsked, EndpointIsUnchecked, IsTruthy
  <2>. QED  BY <1>1, <1>2, <2>2, <2>3, <2>6 DEF ImagesCanBeStored
<1>3. CASE Driver(c) # "s3"
  BY <1>1, <1>3 DEF ImagesCanBeStored
<1>. QED  BY <1>2, <1>3

LEMMA WholeInitially == Init => WholeInv
  BY DEF Init, WholeInv, PastValidation, AcceptedIsWhole, NoServiceThrows,
         NothingIsHalfConfigured, ImagesAreConfigured

LEMMA WholeStep == WholeInv /\ [Next]_vars => WholeInv'
<1>. SUFFICES ASSUME WholeInv, [Next]_vars
              PROVE  WholeInv'
  OBVIOUS
\* A step that keeps the environment keeps the invariant when the validation
\* let it come this far and no constructor ended it.
<1>1. ASSUME env' = env,
             phase' \in {"accepted", "built", "connected", "listening"}
                => Accepts(config),
             phase' \in {"built", "connected", "listening"}
                => ~ StorageThrows(config),
             outcome' = "thrown" =>
                \/ NoServiceThrows /\ outcome = "thrown"
                \/ /\ resolveDriver(config) = "supabase"
                   /\ config["SUPABASE_URL"] = "otherScheme"
      PROVE  WholeInv'
  <2>1. config' = config
    BY <1>1 DEF config
  <2>2. PastValidation'
    BY <1>1, <2>1 DEF PastValidation
  <2>3. NoServiceThrows'
    BY <1>1, <2>1 DEF NoServiceThrows
  <2>4. ASSUME phase' = "listening"  PROVE Whole(config')
    BY <1>1, <2>1, <2>4, AcceptedHasNoHalves
  <2>5. NothingIsHalfConfigured'
    BY <2>4 DEF NothingIsHalfConfigured, Whole
  <2>6. ASSUME phase' = "listening"
        PROVE  ImagesCanBeStored(config') \/ EndpointIsUnchecked(config')
    BY <1>1, <2>1, <2>6, AcceptedCanStore
  <2>7. ImagesAreConfigured'
    BY <2>6 DEF ImagesAreConfigured, ImagesCanBeStored, EndpointIsUnchecked
  <2>. QED  BY <2>2, <2>3, <2>5, <2>7 DEF WholeInv, AcceptedIsWhole
<1>2. ASSUME NEW k \in Keys, NEW v \in Values[k], SetVariable(k, v)
      PROVE  WholeInv'
  BY <1>2 DEF SetVariable, WholeInv, PastValidation, AcceptedIsWhole,
              NoServiceThrows, NothingIsHalfConfigured, ImagesAreConfigured
<1>3. CASE StartContainer
  BY <1>1, <1>3 DEF StartContainer
<1>4. CASE ValidateEnvironment
  BY <1>1, <1>4 DEF ValidateEnvironment, GoesOnTo, EndsWith, WholeInv, AcceptedIsWhole
<1>5. CASE BuildServices
  <2>1. Accepts(config) /\ env' = env
    BY <1>5 DEF BuildServices, GoesOnTo, EndsWith, WholeInv, PastValidation
  <2>2. CASE StorageThrows(config) \/ TokensThrow(config) \/ StrategyThrows(config)
    <3>1. phase' = "down"
      BY <1>5, <2>2 DEF BuildServices, EndsWith
    <3>. QED  BY <1>1, <2>1, <2>2, <3>1, AcceptedCanBeBuilt
  <2>3. CASE ~ (StorageThrows(config) \/ TokensThrow(config) \/ StrategyThrows(config))
    BY <1>1, <1>5, <2>1, <2>3 DEF BuildServices, GoesOnTo, WholeInv, AcceptedIsWhole
  <2>. QED  BY <2>2, <2>3
<1>6. CASE ConnectDatabase
  BY <1>1, <1>6 DEF ConnectDatabase, GoesOnTo, EndsWith, WholeInv, PastValidation,
                    AcceptedIsWhole
<1>7. CASE ProbeBucket
  BY <1>1, <1>7 DEF ProbeBucket, WholeInv, PastValidation, AcceptedIsWhole
<1>8. CASE Crash
  BY <1>1, <1>8 DEF Crash, WholeInv, AcceptedIsWhole
<1>9. CASE DatabaseChanges \/ BucketChanges \/ UNCHANGED vars
  BY <1>1, <1>9 DEF DatabaseChanges, BucketChanges, vars, WholeInv, PastValidation,
                    AcceptedIsWhole
<1>. QED  BY <1>2, <1>3, <1>4, <1>5, <1>6, <1>7, <1>8, <1>9 DEF Next, Boot

\* Whatever environments a deployment starts from and however they are edited,
\* no constructor throws on what the validation let through, but for a
\* SUPABASE_URL of another scheme, and what listens is whole and can store images,
\* but for an S3_PUBLIC_ENDPOINT that is no URL (env.validation.ts:56-57).
THEOREM AcceptedEnvironmentsAreWhole == Spec => []AcceptedIsWhole
<1>1. WholeInv => AcceptedIsWhole  BY DEF WholeInv
<1>. QED  BY WholeInitially, WholeStep, <1>1, PTL DEF Spec

\* Every variable has its type, a process that ended says why, and only one that
\* listens remembers that its bucket answered (storage.service.ts:205-211).
THEOREM StartupTypes == Spec => []TypeOK
<1>1. Init => TypeOK
  <2>. SUFFICES ASSUME Init  PROVE TypeOK
    OBVIOUS
  <2>1. env \in Environments /\ \A k \in Keys : env[k] \in Values[k]
    BY StartupAssumption DEF Init
  <2>2. edits \in 0..MaxEdits
    BY StartupAssumption DEF Init
  <2>3. /\ phase = "down" /\ outcome = "none"
        /\ reachable = FALSE /\ database = TRUE /\ bucket = TRUE
    BY DEF Init
  <2>. QED  BY <2>1, <2>2, <2>3 DEF TypeOK, Phases, Outcomes
<1>2. TypeOK /\ [Next]_vars => TypeOK'
  <2>. SUFFICES ASSUME TypeOK, [Next]_vars
                PROVE  TypeOK'
    OBVIOUS
  <2>1. ASSUME NEW k \in Keys, NEW v \in Values[k], SetVariable(k, v)
        PROVE  TypeOK'
    <3>1. env' \in Environments /\ \A j \in Keys : env'[j] \in Values[j]
      <4>1. env' = [env EXCEPT ![k] = v] /\ env \in [Keys -> UNION {Values[j] : j \in Keys}]
        BY <2>1 DEF SetVariable, TypeOK, Environments
      <4>2. \A j \in Keys : env'[j] \in Values[j]
        BY <4>1 DEF TypeOK
      <4>3. v \in UNION {Values[j] : j \in Keys}
        OBVIOUS
      <4>. QED  BY <4>1, <4>2, <4>3 DEF Environments
    <3>2. edits' \in 0..MaxEdits
      BY <2>1, StartupAssumption DEF SetVariable, TypeOK
    <3>3. /\ phase' = "down" /\ outcome' = "none" /\ reachable' = FALSE
          /\ UNCHANGED <<database, bucket>>
      BY <2>1 DEF SetVariable
    <3>. QED  BY <3>1, <3>2, <3>3 DEF TypeOK, Phases, Outcomes
  <2>2. CASE StartContainer
    BY <2>2 DEF StartContainer, TypeOK, Phases, Outcomes
  <2>3. CASE ValidateEnvironment \/ BuildServices \/ ConnectDatabase
    BY <2>3 DEF ValidateEnvironment, BuildServices, ConnectDatabase, GoesOnTo, EndsWith,
       TypeOK, Phases, Outcomes
  <2>4. CASE ProbeBucket
    <3>1. BucketAnswers \in BOOLEAN
      BY ZenonT(30) DEF BucketAnswers
    <3>. QED  BY <2>4, <3>1 DEF ProbeBucket, TypeOK, Phases, Outcomes
  <2>5. CASE Crash
    BY <2>5 DEF Crash, TypeOK, Phases, Outcomes
  <2>6. CASE DatabaseChanges \/ BucketChanges \/ UNCHANGED vars
    <3>1. UNCHANGED <<env, edits, phase, outcome, reachable>>
      BY <2>6 DEF DatabaseChanges, BucketChanges, vars
    <3>2. database' \in BOOLEAN /\ bucket' \in BOOLEAN
      BY <2>6, Zenon DEF DatabaseChanges, BucketChanges, TypeOK, vars
    <3>. QED  BY <3>1, <3>2 DEF TypeOK
  <2>. QED  BY <2>1, <2>2, <2>3, <2>4, <2>5, <2>6 DEF Next, Boot
<1>. QED
  BY <1>1, <1>2, PTL DEF Spec
=============================================================================
