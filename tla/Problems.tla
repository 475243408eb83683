------------------------------ MODULE Problems ------------------------------
(***************************************************************************)
(* errors/__init__.py and http/problem.py: which HTTP status a raised      *)
(* error becomes.  Titles, slugs and descriptions are left out.            *)
(***************************************************************************)
EXTENDS Integers

\* The statuses of PROBLEM_TYPES.
PROBLEM_TYPES ==
    [SERVER |-> 500, DATABASE |-> 500, INPUT |-> 400, AUTH |-> 401,
     APP_CHECK |-> 403, FORBIDDEN |-> 403, NOT_FOUND |-> 404, CONFLICT |-> 409,
     RATE_LIMIT |-> 429, IDEMPOTENCY |-> 409, PAYLOAD_TOO_LARGE |-> 413,
     TIMEOUT |-> 504]

\* AppError(...): ErrorCode.OK has no problem type and counts as a 500.
AppErrorStatus(code) ==
    IF code \in DOMAIN PROBLEM_TYPES THEN PROBLEM_TYPES[code] ELSE 500

\* What an endpoint raises: AppError by its code, HTTPException by its status,
\* RequestValidationError, or anything else.
AppErrors(codes) == [kind : {"app"}, code : codes]
HttpErrors(statuses) == [kind : {"http"}, status : statuses]
ValidationError == [kind |-> "validation"]
Unhandled == [kind |-> "unhandled"]

\* The handlers register_exception_handlers installs inside the middleware.
Handled(e) == e.kind \in {"app", "http", "validation"}

\* The status each of them answers with.
HandlerStatus(e) ==
    CASE e.kind = "app" -> AppErrorStatus(e.code)
      [] e.kind = "http" -> e.status
      [] e.kind = "validation" -> 422

\* unhandled_problem_response.
UnhandledStatus == PROBLEM_TYPES.SERVER
=============================================================================
