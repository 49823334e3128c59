------------------------------ MODULE MCStartup ------------------------------
(* Four deployments the code and .env.example describe: development with   *)
(* files on disk; production on Supabase without a shop; production on S3  *)
(* where the images inherit the provider of the kits; and images on S3     *)
(* with keys of their own, before there is a private store.                *)
EXTENDS Startup

Common ==
    [k \in Keys |->
        CASE k \in {"DATABASE_URL", "DIRECT_URL", "JWT_SECRET", "JWT_ISSUER",
                    "LANDING_ORIGIN"} -> "good"
          [] OTHER -> "unset"]

Development ==
    [Common EXCEPT !["NODE_ENV"] = "development", !["STORAGE_DRIVER"] = "local"]

OnSupabase ==
    [Common EXCEPT !["NODE_ENV"] = "production",
                   !["SUPABASE_URL"] = "good",
                   !["SUPABASE_SERVICE_ROLE_KEY"] = "good",
                   !["SUPABASE_STORAGE_BUCKET"] = "good"]

OnS3 ==
    [Common EXCEPT !["NODE_ENV"] = "production",
                   !["STORAGE_DRIVER"] = "s3",
                   !["S3_PUBLIC_BASE_URL"] = "good",
                   !["S3_PUBLIC_BUCKET"] = "images",
                   !["S3_ENDPOINT"] = "here",
                   !["S3_ACCESS_KEY_ID"] = "good",
                   !["S3_SECRET_ACCESS_KEY"] = "good",
                   !["S3_BUCKET"] = "kits",
                   !["STRIPE_SECRET_KEY"] = "live",
                   !["STRIPE_WEBHOOK_SECRET"] = "good",
                   !["STRIPE_SUCCESS_URL"] = "good",
                   !["INTERNAL_TASK_SECRET"] = "good",
                   !["COOKIE_SAMESITE"] = "lax"]

OnlyImages ==
    [Common EXCEPT !["NODE_ENV"] = "production",
                   !["STORAGE_DRIVER"] = "s3",
                   !["S3_PUBLIC_BASE_URL"] = "good",
                   !["S3_PUBLIC_BUCKET"] = "images",
                   !["S3_PUBLIC_ENDPOINT"] = "there",
                   !["S3_PUBLIC_ACCESS_KEY_ID"] = "good",
                   !["S3_PUBLIC_SECRET_ACCESS_KEY"] = "good"]

Deployments == {Development, OnSupabase, OnS3, OnlyImages}

=============================================================================
