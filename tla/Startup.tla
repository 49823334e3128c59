------------------------------- MODULE Startup -------------------------------
(***************************************************************************)
(* The configuration of a deployment and the boot of the process it        *)
(* describes (src/config/env.validation.ts, src/main.ts, the constructors  *)
(* and onModuleInit hooks of the modules, docker-entrypoint.sh and the     *)
(* restart policy of docker-compose.yml).  The operator writes variables;  *)
(* the container strips quotes, validates the environment, builds its      *)
(* services, connects to the database, probes the bucket of images and     *)
(* listens.  Whatever ends the process, docker starts it again.            *)
(*                                                                         *)
(* A value is one of the classes the code tells apart: "unset" (undefined, *)
(* what ?? and getOrThrow look at), "empty" (defined, but falsy), "good",  *)
(* "quoted" (good, inside quotes) and, by key, what a check refuses.       *)
(***************************************************************************)
EXTENDS Naturals, FiniteSets

CONSTANTS
    Bases,          \* the environments a deployment starts from
    MaxEdits        \* how many variables the operator rewrites

(* The values a variable takes.  HASH_PEPPER is checked as JWT_SECRET is,  *)
(* JWT_AUDIENCE and JWT_EXPIRES_IN as JWT_ISSUER, DASHBOARD_ORIGIN as      *)
(* LANDING_ORIGIN, STRIPE_CANCEL_URL as STRIPE_SUCCESS_URL: each pair is   *)
(* one key here.                                                           *)
Values ==
    [NODE_ENV |-> {"development", "production", "bad"},
     STORAGE_DRIVER |-> {"unset", "supabase", "s3", "local", "empty"},
     DATABASE_URL |-> {"unset", "bad", "good", "quoted"},
     DIRECT_URL |-> {"unset", "good"},
     JWT_SECRET |-> {"unset", "short", "good"},
     JWT_ACCESS_SECRET |-> {"unset", "empty", "good"},
     JWT_ISSUER |-> {"unset", "good", "quoted"},
     LANDING_ORIGIN |-> {"unset", "bad", "good"},
     SUPABASE_URL |-> {"unset", "bad", "otherScheme", "good"},
     SUPABASE_SERVICE_ROLE_KEY |-> {"unset", "bad", "good"},
     SUPABASE_STORAGE_BUCKET |-> {"unset", "good"},
     S3_PUBLIC_BASE_URL |-> {"unset", "good"},
     S3_PUBLIC_BUCKET |-> {"unset", "images", "kits"},
     S3_PUBLIC_ENDPOINT |-> {"unset", "empty", "bad", "here", "there", "quoted"},
     S3_PUBLIC_ACCESS_KEY_ID |-> {"unset", "empty", "good"},
     S3_PUBLIC_SECRET_ACCESS_KEY |-> {"unset", "empty", "good"},
     S3_ENDPOINT |-> {"unset", "empty", "bad", "http", "here", "quoted"},
     S3_ACCESS_KEY_ID |-> {"unset", "good"},
     S3_SECRET_ACCESS_KEY |-> {"unset", "good"},
     S3_BUCKET |-> {"unset", "kits"},
     STRIPE_SECRET_KEY |-> {"unset", "bad", "test", "live"},
     STRIPE_WEBHOOK_SECRET |-> {"unset", "bad", "good"},
     STRIPE_SUCCESS_URL |-> {"unset", "bad", "good"},
     INTERNAL_TASK_SECRET |-> {"unset", "short", "good"},
     COOKIE_SAMESITE |-> {"unset", "lax", "none", "bad"},
     COOKIE_SECURE |-> {"unset", "true", "false"}]

Keys == DOMAIN Values
Environments == [Keys -> UNION {Values[k] : k \in Keys}]

ASSUME StartupAssumption ==
    /\ MaxEdits \in Nat
    /\ Bases \subseteq Environments
    /\ \A e \in Bases : \A k \in Keys : e[k] \in Values[k]

VARIABLES
    env,        \* the .env of the deployment
    edits,      \* how many times it was edited
    phase,      \* how far the process is
    outcome,    \* why the last process ended before it listened, if it did
    reachable,  \* StorageService.reachable: did the bucket answer at boot
    database,   \* is the database up
    bucket      \* is the bucket of the images up

vars == <<env, edits, phase, outcome, reachable, database, bucket>>

Phases == {"down", "starting", "accepted", "built", "connected", "listening"}
Outcomes == {"none", "refused", "thrown", "database"}

Init ==
    /\ env \in Bases
    /\ edits = 0
    /\ phase = "down"
    /\ outcome = "none"
    /\ reachable = FALSE
    /\ database = TRUE
    /\ bucket = TRUE

-----------------------------------------------------------------------------
(* What the process reads: docker-entrypoint.sh strips the quotes of the   *)
(* variables it lists, and S3_PUBLIC_ENDPOINT is not one of them.          *)
Stripped == Keys \ {"S3_PUBLIC_ENDPOINT", "S3_PUBLIC_ACCESS_KEY_ID",
                    "S3_PUBLIC_SECRET_ACCESS_KEY"}

Unquoted(e) ==
    [k \in Keys |->
        IF e[k] = "quoted" /\ k \in Stripped
        THEN IF k = "S3_ENDPOINT" THEN "here" ELSE "good"
        ELSE e[k]]

config == Unquoted(env)

IsTruthy(v) == v \notin {"unset", "empty"}

(* config[own] ?? config[shared] *)
Inherited(c, own, shared) == IF c[own] = "unset" THEN c[shared] ELSE c[own]

PrivateKeys ==
    {"S3_ENDPOINT", "S3_ACCESS_KEY_ID", "S3_SECRET_ACCESS_KEY", "S3_BUCKET"}

(* The driver the validation assumes. *)
Driver(c) == IF c["STORAGE_DRIVER"] = "unset" THEN "supabase"
             ELSE c["STORAGE_DRIVER"]

ModeIsKnown(c) ==
    /\ c["NODE_ENV"] # "bad"
    /\ Driver(c) \in {"supabase", "s3", "local"}
    /\ ~ (c["NODE_ENV"] = "production" /\ Driver(c) = "local")

Required(c) ==
    {"DATABASE_URL", "DIRECT_URL", "JWT_SECRET", "JWT_ISSUER", "LANDING_ORIGIN"}
    \cup (IF Driver(c) = "supabase"
          THEN {"SUPABASE_URL", "SUPABASE_SERVICE_ROLE_KEY",
                "SUPABASE_STORAGE_BUCKET"} ELSE {})
    \cup (IF Driver(c) = "s3"
          THEN {"S3_PUBLIC_BASE_URL", "S3_PUBLIC_BUCKET"} ELSE {})

RequiredAreSet(c) == \A k \in Required(c) : IsTruthy(c[k])

InheritedPairs ==
    {<<"S3_PUBLIC_ACCESS_KEY_ID", "S3_ACCESS_KEY_ID">>,
     <<"S3_PUBLIC_ENDPOINT", "S3_ENDPOINT">>,
     <<"S3_PUBLIC_SECRET_ACCESS_KEY", "S3_SECRET_ACCESS_KEY">>}

(* The keys alone: a validation that stopped here would forget the place.  *)
ImagesHaveKeys(c) ==
    \A pair \in InheritedPairs :
        pair[1] # "S3_PUBLIC_ENDPOINT" => IsTruthy(Inherited(c, pair[1], pair[2]))

(* The public bucket inherits what it lacks from the private one.          *)
ImagesHaveABucket(c) ==
    \A pair \in InheritedPairs : IsTruthy(Inherited(c, pair[1], pair[2]))

SameBox(c) ==
    /\ c["S3_PUBLIC_BUCKET"] = c["S3_BUCKET"]
    /\ Inherited(c, "S3_PUBLIC_ENDPOINT", "S3_ENDPOINT") = c["S3_ENDPOINT"]

SecretsAreLong(c) ==
    /\ c["JWT_SECRET"] # "short"
    /\ c["JWT_ACCESS_SECRET"] # "empty"

TaskSecretIsLong(c) == c["INTERNAL_TASK_SECRET"] # "short"

PrivateStoreIsWhole(c) ==
    /\ \/ \A k \in PrivateKeys : IsTruthy(c[k])
       \/ \A k \in PrivateKeys : ~ IsTruthy(c[k])
    /\ IsTruthy(c["S3_ENDPOINT"]) => c["S3_ENDPOINT"] = "here"

PaymentsAreWhole(c) ==
    IsTruthy(c["STRIPE_SECRET_KEY"]) =>
        /\ c["STRIPE_SECRET_KEY"] \in {"test", "live"}
        /\ c["STRIPE_WEBHOOK_SECRET"] = "good"
        /\ c["STRIPE_SUCCESS_URL"] = "good"
        /\ ~ (c["NODE_ENV"] = "production" /\ c["STRIPE_SECRET_KEY"] = "test")

CookiesAgree(c) ==
    /\ c["COOKIE_SAMESITE"] # "bad"
    /\ ~ (c["COOKIE_SAMESITE"] = "none" /\ c["COOKIE_SECURE"] = "false")

UrlsParse(c) ==
    /\ c["LANDING_ORIGIN"] # "bad"
    /\ Driver(c) = "supabase" => c["SUPABASE_URL"] # "bad"

ServiceKeyIsAToken(c) ==
    c["NODE_ENV"] = "production" => c["SUPABASE_SERVICE_ROLE_KEY"] # "bad"

(* validateEnvironment: the errors add up, and any of them ends the boot.  *)
Accepts(c) ==
    /\ ModeIsKnown(c)
    /\ RequiredAreSet(c)
    /\ Driver(c) = "s3" => ImagesHaveABucket(c) /\ ~ SameBox(c)
    /\ SecretsAreLong(c) /\ TaskSecretIsLong(c)
    /\ PrivateStoreIsWhole(c)
    /\ PaymentsAreWhole(c)
    /\ CookiesAgree(c)
    /\ UrlsParse(c)
    /\ ServiceKeyIsAToken(c)

-----------------------------------------------------------------------------
(* What the services build from the same variables.                        *)
resolveDriver(c) ==
    IF c["STORAGE_DRIVER"] \in {"local", "s3"} THEN c["STORAGE_DRIVER"]
    ELSE "supabase"

(* createClient throws on what is not an http URL. *)
ClientRefuses(url) == url \in {"bad", "otherScheme"}

(* new StorageService: getOrThrow throws on what is undefined.             *)
StorageThrows(c) ==
    CASE resolveDriver(c) = "s3" ->
            \/ "unset" \in {c["S3_PUBLIC_BUCKET"], c["S3_PUBLIC_BASE_URL"]}
            \/ \E pair \in InheritedPairs : Inherited(c, pair[1], pair[2]) = "unset"
            \/ SameBox(c)
      [] resolveDriver(c) = "local" -> FALSE
      [] OTHER ->
            \/ \E k \in {"SUPABASE_URL", "SUPABASE_SERVICE_ROLE_KEY",
                         "SUPABASE_STORAGE_BUCKET"} : ~ IsTruthy(c[k])
            \/ ClientRefuses(c["SUPABASE_URL"])

(* The factory of JwtModule, and JwtStrategy, which refuses an empty secret. *)
TokensThrow(c) ==
    "unset" \in {Inherited(c, "JWT_ACCESS_SECRET", "JWT_SECRET"), c["JWT_ISSUER"]}

StrategyThrows(c) ==
    \/ ~ IsTruthy(Inherited(c, "JWT_ACCESS_SECRET", "JWT_SECRET"))
    \/ c["JWT_ISSUER"] = "unset"

(* DigitalAssetsService.isConfigured: the constructor never throws.        *)
SellsFiles(c) == \A k \in PrivateKeys : IsTruthy(c[k])

(* StripeService.client and isEnabled. *)
TakesPayments(c) == IsTruthy(c["STRIPE_SECRET_KEY"])
HearsPayments(c) == TakesPayments(c) /\ IsTruthy(c["STRIPE_WEBHOOK_SECRET"])

(* createSession needs the pages the buyer returns to. *)
CheckoutThrows(c) == c["STRIPE_SUCCESS_URL"] = "unset"

(* buildCookieOptions *)
SessionCookie(c) ==
    LET production == c["NODE_ENV"] = "production"
        sameSite == IF c["COOKIE_SAMESITE"] \in {"lax", "none"}
                    THEN c["COOKIE_SAMESITE"]
                    ELSE IF production THEN "none" ELSE "lax"
    IN  [sameSite |-> sameSite,
         secure |-> \/ sameSite = "none"
                    \/ c["COOKIE_SECURE"] = "true"
                    \/ c["COOKIE_SECURE"] = "unset" /\ production]

(* The S3 client takes any endpoint; a request needs one it can parse.     *)
CanBeAsked(url) == url \notin {"unset", "empty", "bad", "quoted"}

(* upload(): the bucket has a name, a place and the keys to write to it.   *)
ImagesCanBeStored(c) ==
    CASE resolveDriver(c) = "s3" ->
            /\ IsTruthy(c["S3_PUBLIC_BUCKET"]) /\ IsTruthy(c["S3_PUBLIC_BASE_URL"])
            /\ ImagesHaveKeys(c)
            /\ CanBeAsked(Inherited(c, "S3_PUBLIC_ENDPOINT", "S3_ENDPOINT"))
      [] resolveDriver(c) = "local" -> TRUE
      [] OTHER -> ~ StorageThrows(c)

BucketAnswers ==
    \/ resolveDriver(config) = "local"
    \/ bucket /\ ImagesCanBeStored(config)

-----------------------------------------------------------------------------
(* The operator rewrites a variable and recreates the container. *)
SetVariable(k, v) ==
    /\ edits < MaxEdits
    /\ v # env[k]
    /\ env' = [env EXCEPT ![k] = v]
    /\ edits' = edits + 1
    /\ phase' = "down"
    /\ outcome' = "none"
    /\ reachable' = FALSE
    /\ UNCHANGED <<database, bucket>>

(* restart: unless-stopped, with docker-entrypoint.sh. *)
StartContainer ==
    /\ phase = "down"
    /\ phase' = "starting"
    /\ outcome' = "none"
    /\ UNCHANGED <<env, edits, reachable, database, bucket>>

(* A slip: the error is logged, as a rejection would be, and the boot goes on. *)
OnlyLogs(why) ==
    /\ phase' = "built"
    /\ outcome' = why
    /\ UNCHANGED <<env, edits, reachable, database, bucket>>

EndsWith(why) ==
    /\ phase' = "down"
    /\ outcome' = why
    /\ UNCHANGED <<env, edits, reachable, database, bucket>>

GoesOnTo(step) ==
    /\ phase' = step
    /\ UNCHANGED <<env, edits, outcome, reachable, database, bucket>>

(* ConfigModule.forRoot({validate}) *)
ValidateEnvironment ==
    /\ phase = "starting"
    /\ IF Accepts(config) THEN GoesOnTo("accepted") ELSE EndsWith("refused")

(* NestFactory.create: a constructor that throws ends the process. *)
BuildServices ==
    /\ phase = "accepted"
    /\ IF StorageThrows(config) \/ TokensThrow(config) \/ StrategyThrows(config)
       THEN EndsWith("thrown")
       ELSE GoesOnTo("built")

(* PrismaService.onModuleInit rethrows: listen() is rejected.  The         *)
(* rejection handler of main.ts only logs it, so the process ends because  *)
(* nothing keeps it alive: it has no socket, and its timers are unref'd.   *)
ConnectDatabase ==
    /\ phase = "built"
    /\ IF database /\ config["DATABASE_URL"] = "good" /\ config["DIRECT_URL"] = "good"
       THEN GoesOnTo("connected")
       ELSE EndsWith("database")

(* As it was once: a bucket that is down ended the boot.                   *)
ProbeBucketOrEnd ==
    /\ phase = "connected"
    /\ phase' = IF BucketAnswers THEN "listening" ELSE "down"
    /\ reachable' = BucketAnswers
    /\ UNCHANGED <<env, edits, outcome, database, bucket>>

(* StorageService.onModuleInit notes whether the bucket answered, and goes *)
(* on; app.listen() follows.                                               *)
ProbeBucket ==
    /\ phase = "connected"
    /\ phase' = "listening"
    /\ reachable' = BucketAnswers
    /\ UNCHANGED <<env, edits, outcome, database, bucket>>

(* uncaughtException, or the machine: process.exit(1). *)
Crash ==
    /\ phase = "listening"
    /\ phase' = "down"
    /\ reachable' = FALSE
    /\ UNCHANGED <<env, edits, outcome, database, bucket>>

DatabaseChanges ==
    /\ database' = ~ database
    /\ UNCHANGED <<env, edits, phase, outcome, reachable, bucket>>

BucketChanges ==
    /\ bucket' = ~ bucket
    /\ UNCHANGED <<env, edits, phase, outcome, reachable, database>>

Boot == StartContainer \/ ValidateEnvironment \/ BuildServices
            \/ ConnectDatabase \/ ProbeBucket

Next ==
    \/ \E k \in Keys : \E v \in Values[k] : SetVariable(k, v)
    \/ Boot
    \/ Crash
    \/ DatabaseChanges
    \/ BucketChanges

(* Docker restarts what ended, and a process that runs takes its steps.    *)
Spec == Init /\ [][Next]_vars /\ WF_vars(Boot)

-----------------------------------------------------------------------------
(* GET /health/readiness: what a deployment polls (deploy.yml). *)
Readiness ==
    IF phase # "listening" \/ ~ database THEN [status |-> 503]
    ELSE [status |-> 200,
          images |-> IF resolveDriver(config) = "local" \/ reachable
                     THEN "ok" ELSE "unavailable",
          digitalAssets |-> IF SellsFiles(config) THEN "ok" ELSE "not-configured"]

(* Every variable has its type; a process that ended says why, and only a  *)
(* process that listens remembers that its bucket answered.                *)
TypeOK ==
    /\ env \in Environments
    /\ \A k \in Keys : env[k] \in Values[k]
    /\ edits \in 0..MaxEdits
    /\ phase \in Phases
    /\ outcome \in Outcomes
    /\ reachable \in BOOLEAN
    /\ database \in BOOLEAN
    /\ bucket \in BOOLEAN
    /\ outcome # "none" => phase = "down"
    /\ reachable => phase = "listening"

(* What the validation lets through, no constructor throws on: its idea of *)
(* a default and the services' (??, ||, getOrThrow) agree.  The one value  *)
(* they disagree on is a SUPABASE_URL that is a URL, but not of the web.   *)
NoServiceThrows ==
    outcome = "thrown" => /\ resolveDriver(config) = "supabase"
                          /\ config["SUPABASE_URL"] = "otherScheme"

(* A process that listens has each of its parts whole or not at all: it    *)
(* takes no payment it cannot hear of, it can send the buyer back, it has  *)
(* all of the private store or none, it never puts images where the kits   *)
(* are, and no browser drops its session cookie.                           *)
Whole(c) ==
    /\ TakesPayments(c) => HearsPayments(c) /\ ~ CheckoutThrows(c)
    /\ (\E k \in PrivateKeys : IsTruthy(c[k])) => SellsFiles(c)
    /\ resolveDriver(c) = "s3" => ~ SameBox(c)
    /\ SessionCookie(c).sameSite = "none" => SessionCookie(c).secure

NothingIsHalfConfigured == phase = "listening" => Whole(config)

(* The one value of the images' bucket nobody looks at: S3_ENDPOINT must   *)
(* be a URL and loses its quotes, S3_PUBLIC_ENDPOINT neither.              *)
EndpointIsUnchecked(c) == c["S3_PUBLIC_ENDPOINT"] \in {"bad", "quoted"}

ImagesAreConfigured ==
    phase = "listening" =>
        ImagesCanBeStored(config) \/ EndpointIsUnchecked(config)

(* The validation exists so that a bad deployment fails when it starts and *)
(* not at the first upload or sale (env.validation.ts:56-57): what it      *)
(* accepts can be built, and what is built is whole and can store images,  *)
(* but for an S3_PUBLIC_ENDPOINT that is no URL.                           *)
AcceptedIsWhole ==
    NoServiceThrows /\ NothingIsHalfConfigured /\ ImagesAreConfigured

(* Does not hold (no run checks it): "a bad deployment fails when it       *)
(* starts, and not the first time somebody uploads a drawing"              *)
(* (env.validation.ts:56-57), without the exception.                       *)
NoUploadFindsItOut == phase = "listening" => ImagesCanBeStored(config)

(* The environment the operator meant, quotes aside. *)
Meant ==
    [k \in Keys |->
        IF env[k] # "quoted" THEN env[k]
        ELSE IF k \in {"S3_ENDPOINT", "S3_PUBLIC_ENDPOINT"} THEN "here" ELSE "good"]

CanServe ==
    /\ database
    /\ env["NODE_ENV"] = "production"     \* docker-compose.yml sets it
    /\ Accepts(Meant)
    /\ Meant["DATABASE_URL"] = "good"
    /\ Meant["SUPABASE_URL"] # "otherScheme"

(* "A service from outside cannot have a vote on whether this application  *)
(* exists" (storage.service.ts:205-207): with an environment that is       *)
(* right, once the database stays up the readiness probe answers 200 again *)
(* and again, whatever the bucket does, however often the process crashes, *)
(* and although a failed boot is only logged.                              *)
ServesWhenItCan == <>[]CanServe => []<>(Readiness.status = 200)

(* Does not hold (no run checks it): "now it tells the truth"              *)
(* (health.controller.ts:42).  The answer about the images is the one of   *)
(* the boot until the process ends, whether the bucket fails or recovers.  *)
ReadinessTellsTheTruth ==
    Readiness.status = 200 => (Readiness.images = "ok" <=> BucketAnswers)

=============================================================================
