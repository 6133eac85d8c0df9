------------------------------ MODULE Startup ------------------------------
(***************************************************************************)
(* How a Python service starts: its main.py is imported (module level      *)
(* casts), create_service_app calls validate_env (shared/autosre_shared/   *)
(* envcheck.py), the port is read, and the server's first event builds the *)
(* middlewares, the limiter among them.  Each step converts variables of   *)
(* the environment.  The first three end the process if they cannot; of    *)
(* the last, whose exception uvicorn takes for an application without a    *)
(* lifespan, the service survives, and answers 500 to every request.       *)
(***************************************************************************)
EXTENDS Integers

\* The numeric variables validate_env knows (_NUMERIC).
Numeric == {"PORT", "RATE_LIMIT_RPS", "RATE_LIMIT_BURST", "WORKER_INTERVAL",
            "WORKER_JOB_SECONDS", "AUTH_DEP_LATENCY"}

\* What a variable may hold: nothing (the default applies), the empty string, a
\* number, anything else.
Raw == {"unset", "empty", "number", "text"}

VARIABLES
  service,   \* which main.py
  env,       \* the environment
  step,      \* the next step; "up" once the service serves, "broken" if it
             \* can only answer 500
  refused    \* the step that ended the process, "none" so far

startupVars == <<service, env, step, refused>>

----------------------------------------------------------------------------
\* float(os.getenv(name, default)) raises: an empty string is not unset.
CastFails(names) == \E name \in names : env[name] \in {"empty", "text"}

\* The variables a main.py converts while it is imported.
ImportCasts ==
  CASE service = "api" -> {}
    [] service = "auth" -> {"AUTH_DEP_LATENCY"}
    [] service = "worker" -> {"WORKER_INTERVAL", "WORKER_JOB_SECONDS"}

\* get_limiter, in the services that are rate limited.
LimiterCasts ==
  IF service = "worker" THEN {} ELSE {"RATE_LIMIT_RPS", "RATE_LIMIT_BURST"}

Init ==
  /\ service \in {"api", "auth", "worker"}
  /\ env \in [Numeric -> Raw]
  /\ step = "import"
  /\ refused = "none"

\* A step that raises ends the process.
Take(this, raises, next) ==
  /\ step = this /\ refused = "none"
  /\ IF raises
       THEN refused' = this /\ UNCHANGED step
       ELSE step' = next /\ UNCHANGED refused
  /\ UNCHANGED <<service, env>>

Import == Take("import", CastFails(ImportCasts), "validate_env")

\* validate_env looks at what is set and not empty.
ValidateEnv == Take("validate_env", \E name \in Numeric : env[name] = "text", "port")

\* int(os.getenv("PORT", ...)) for uvicorn.run
ReadPort == Take("port", CastFails({"PORT"}), "middlewares")

\* The stack is built for the lifespan's first event, and again for every request
\* as long as that fails; uvicorn (lifespan="auto") serves in either case.
BuildMiddlewares ==
  /\ step = "middlewares" /\ refused = "none"
  /\ step' = IF CastFails(LimiterCasts) THEN "broken" ELSE "up"
  /\ UNCHANGED <<service, env, refused>>

Next == Import \/ ValidateEnv \/ ReadPort \/ BuildMiddlewares

Spec == Init /\ [][Next]_startupVars

----------------------------------------------------------------------------
(***************************************************************************)
(* Properties.                                                             *)
(***************************************************************************)

\* shared/autosre_shared/envcheck.py: validate_env is "Called at service startup
\* so a malformed config [...] surfaces immediately with a clear message instead
\* of an obscure failure later": what does not come up is refused by it.
RefusedClearly == refused \in {"none", "validate_env"} /\ step # "broken"

============================================================================
