------------------------------- MODULE Gateway -------------------------------
(***************************************************************************)
(* What stands between a client and the handlers: the middleware chain     *)
(* SetupRoutes installs (internal/api/routes.go), the route table, the     *)
(* CORS preflight answer and AuthMiddleware's check of the Authorization   *)
(* header (internal/api/middleware.go), and the API key main configures    *)
(* (cmd/main.go).  Headers and keys are sequences of one-character         *)
(* strings; the word "Bearer" is the one symbol Bearer.  Logging, recovery *)
(* and request ids neither answer nor stop a request and are left out;     *)
(* the rate limiter's verdict is an input here, computed in RateLimit.     *)
(***************************************************************************)
EXTENDS Sequences, SequencesExt

Space  == " "
Bearer == "B"

\* The endpoints, with ":name" standing for any customer name.
Methods == {"OPTIONS", "GET", "POST", "PUT", "DELETE"}
Paths   == {"/", "/health", "/api/v1/customers", "/api/v1/customers/:name",
            "/api/v1/customers/:name/status", "/api/v1/docs", "/other"}

\* strings.Split(s, sep): the pieces between the separators; a string
\* without one is a single piece, the empty string included.
RECURSIVE SplitOn(_, _)
SplitOn(s, sep) ==
    LET i == SelectInSeq(s, LAMBDA c : c = sep) IN
    IF i = 0 THEN << s >>
    ELSE << SubSeq(s, 1, i - 1) >> \o SplitOn(SubSeq(s, i + 1, Len(s)), sep)

-----------------------------------------------------------------------------
(* SetupRoutes: the handler gin finds for a method and path, "none" when   *)
(* no route matches (gin answers 404; a known path with another method is  *)
(* a 404 too, HandleMethodNotAllowed being off).                           *)
Route(m, p) ==
    CASE m = "GET"    /\ p = "/health"                        -> "health"
      [] m = "GET"    /\ p = "/"                              -> "index"
      [] m = "POST"   /\ p = "/api/v1/customers"              -> "create"
      [] m = "GET"    /\ p = "/api/v1/customers"              -> "list"
      [] m = "GET"    /\ p = "/api/v1/customers/:name"        -> "get"
      [] m = "PUT"    /\ p = "/api/v1/customers/:name"        -> "update"
      [] m = "DELETE" /\ p = "/api/v1/customers/:name"        -> "delete"
      [] m = "GET"    /\ p = "/api/v1/customers/:name/status" -> "status"
      [] m = "GET"    /\ p = "/api/v1/docs"                   -> "docs"
      [] OTHER                                                -> "none"

\* The routes of the group /api/v1, which runs AuthMiddleware.
Protected(r) == r \in {"create", "list", "get", "update", "delete", "status", "docs"}

\* Mutant: the header accepted whatever number of pieces it splits into.
AuthorizeAnyParts(h, key) ==
    LET parts == SplitOn(h, Space) IN
    CASE key = <<>>                             -> "ok"
      [] h = <<>>                               -> "MISSING_AUTHORIZATION"
      [] Len(parts) < 2 \/ parts[1] /= <<Bearer>> -> "INVALID_AUTHORIZATION_FORMAT"
      [] parts[2] /= key                        -> "INVALID_API_KEY"
      [] OTHER                                  -> "ok"

\* AuthMiddleware(apiKey): an empty key lets everything through;
\* otherwise the header must split at spaces into exactly "Bearer" and
\* the key.
Authorize(h, key) ==
    LET parts == SplitOn(h, Space) IN
    CASE key = <<>>                             -> "ok"
      [] h = <<>>                               -> "MISSING_AUTHORIZATION"
      [] Len(parts) /= 2 \/ parts[1] /= <<Bearer>> -> "INVALID_AUTHORIZATION_FORMAT"
      [] parts[2] /= key                        -> "INVALID_API_KEY"
      [] OTHER                                  -> "ok"

\* CORSMiddleware, the first of the chain, ends every OPTIONS request
\* with 204, whatever its path.
Preflight(m) == m = "OPTIONS"

\* The chain SetupRoutes installs, in order: CORS, logging, recovery,
\* request id, the rate limiter (429 when limited), the route, and for
\* /api/v1 AuthMiddleware (401).  The result is the status the chain
\* answers with, or the handler the request reaches.
Dispatch(m, p, h, key, limited) ==
    CASE Preflight(m)                                   -> "204"
      [] limited                                        -> "429"
      [] Route(m, p) = "none"                           -> "404"
      [] Protected(Route(m, p)) /\ Authorize(h, key) /= "ok" -> "401"
      [] OTHER                                          -> Route(m, p)

=============================================================================
