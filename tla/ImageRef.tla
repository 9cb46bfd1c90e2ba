------------------------------ MODULE ImageRef ------------------------------
(***************************************************************************)
(* The identity of one customer instance: the name CreateCustomer and      *)
(* CreateCustomerInstance check before creating it (module Naming), and   *)
(* the operator container's image reference: how createDeployment builds  *)
(* it from the requested tag, how UpdateCustomerInstance rewrites it, and  *)
(* how GetCustomerInstance reads the tag back from it.  Strings are        *)
(* sequences of one-character strings, so that strings.Split and the name *)
(* checks can be modelled by what they do.                                 *)
(*                                                                         *)
(* Requests reach the three handlers only through the chain of module      *)
(* Gateway, after main has started the server with its API key.            *)
(***************************************************************************)
EXTENDS Naturals, Sequences, SequencesExt, Naming, Gateway

CONSTANTS
    Chars,      \* the characters of a requested name or tag, ":" included
    Repo,       \* the repository part of the image, a sequence without ":"
    Latest,     \* the default tag "latest", as a sequence without ":"
    MaxTagLen,  \* longest requested tag
    MaxNameLen, \* longest requested name
    MaxOps,     \* bound on the number of requests
    ApiKeys,    \* values the -api-key flag (default $API_KEY) may have
    HeaderChars,   \* the characters of an Authorization header
    MaxHeaderLen   \* longest Authorization header

Colon == ":"

ASSUME /\ Colon \in Chars
       /\ ~Contains(Repo, Colon) /\ Latest /= <<>> /\ ~Contains(Latest, Colon)

VARIABLES
    image,      \* the deployment's operator image, or NoImage without one
    accepted,   \* the tag of the last create or update answered with success
    answer,     \* how the last CreateCustomer was answered
    ops,        \* requests made so far
    server,     \* the process: "starting", "serving" or "exited"
    key,        \* the API key the routes were set up with
    route,      \* the handler a request has reached and not yet run
    hdr         \* that request's Authorization header, when a key is set

vars == <<image, accepted, answer, ops, server, key, route, hdr>>

NoImage == <<>>

\* The tags a request can carry; the empty tag is an omitted field.
RequestTags == SeqOf(Chars, MaxTagLen)
RequestNames == SeqOf(Chars, MaxNameLen)

\* 201; 400 VALIDATION_FAILED (or INVALID_REQUEST for a missing name);
\* 500 CREATION_FAILED because CreateCustomerInstance rejected the name,
\* or because the instance exists already.
Answers == {"none", "created", "bad_request", "name_rejected", "exists"}

Headers == SeqOf(HeaderChars, MaxHeaderLen)

\* The handlers this module models; the others only read.
Handlers == {"create", "update", "delete"}

-----------------------------------------------------------------------------
(* strings.Split(s, ":"): the pieces between the colons, one more than     *)
(* there are colons; the empty string splits into one empty piece.         *)
SplitColon(s) == SplitOn(s, Colon)

-----------------------------------------------------------------------------
(* The image built by createDeployment: localhost/postgres-age-operator:  *)
(* followed by the tag, "latest" when the request leaves it empty (the     *)
(* default is applied both in CreateCustomer and in createDeployment).     *)
DefaultTag(t) == IF t = <<>> THEN Latest ELSE t

ImageFor(t) == Repo \o << Colon >> \o DefaultTag(t)

\* The tag GetCustomerInstance reports: the second piece of the split
\* image, or the empty string when the image has no colon.
TagOf(img) ==
    LET parts == SplitColon(img)
    IN IF Len(parts) > 1 THEN parts[2] ELSE <<>>

\* Mutant: the tag written back onto the whole image, not onto its first
\* piece.
RewriteAppending(img, t) ==
    IF t = <<>> THEN img ELSE img \o << Colon >> \o t

\* Mutant: the tag written after the last piece instead of the first.
RewriteOnLastPiece(img, t) ==
    IF t = <<>> THEN img ELSE Last(SplitColon(img)) \o << Colon >> \o t

\* UpdateCustomerInstance: a non-empty tag replaces everything after the
\* first piece of the operator container's image.
Rewrite(img, t) ==
    IF t = <<>> THEN img ELSE SplitColon(img)[1] \o << Colon >> \o t

-----------------------------------------------------------------------------
Init ==
    /\ image = NoImage
    /\ accepted = <<>>
    /\ answer = "none"
    /\ ops = 0
    /\ server = "starting"
    /\ key = <<>>
    /\ route = "none"
    /\ hdr = <<>>

\* main: the flags are parsed, the Kubernetes client built, the router
\* set up with the -api-key value k, and the server listens.
Start(k) ==
    /\ server = "starting"
    /\ server' = "serving"
    /\ key' = k
    /\ UNCHANGED <<image, accepted, answer, ops, route, hdr>>

\* k8s.NewClient or router.Run fails, and log.Fatalf ends the process.
StartFails ==
    /\ server = "starting"
    /\ server' = "exited"
    /\ UNCHANGED <<image, accepted, answer, ops, key, route, hdr>>

\* A request with method m, path p and Authorization header h goes through
\* the chain; limited is the rate limiter's verdict.  A request the chain
\* answers, or that reaches a handler which only reads, is done; one that
\* reaches a handler of this module waits for it.
Request(m, p, h, limited) ==
    LET d == Dispatch(m, p, h, key, limited) IN
    /\ server = "serving"
    /\ route = "none"
    /\ ops < MaxOps
    /\ ops' = ops + 1
    /\ route' = IF d \in Handlers THEN d ELSE "none"
    /\ hdr' = IF d \in Handlers /\ key /= <<>> THEN h ELSE <<>>
    /\ UNCHANGED <<image, accepted, answer, server, key>>

\* The handler has answered; the goroutine takes the next request.
Handled ==
    /\ route' = "none"
    /\ hdr' = <<>>
    /\ UNCHANGED <<ops, server, key>>

\* CreateCustomer with name n and tag t: the handler's validation answers
\* 400; otherwise CreateCustomerInstance checks the name again, and an
\* error there is a 500, as is an instance that exists already; otherwise
\* the deployment is created with the image for t.
Create(n, t) ==
    /\ route = "create"
    /\ answer' = CASE ~ValidateCreateRequest(n) -> "bad_request"
                  [] ~ValidateCustomerName(n)  -> "name_rejected"
                  [] image /= NoImage          -> "exists"
                  [] OTHER                     -> "created"
    /\ IF answer' = "created"
       THEN /\ image' = ImageFor(t)
            /\ accepted' = DefaultTag(t)
       ELSE UNCHANGED <<image, accepted>>
    /\ Handled

\* UpdateCustomer with an imageTag field, possibly empty; without a
\* deployment the Get fails and nothing is written.
Update(t) ==
    /\ route = "update"
    /\ \/ /\ image /= NoImage
          /\ image' = Rewrite(image, t)
          /\ accepted' = IF t = <<>> THEN accepted ELSE t
       \/ /\ image = NoImage
          /\ UNCHANGED <<image, accepted>>
    /\ UNCHANGED answer
    /\ Handled

\* DeleteCustomer: the deployment goes with its namespace; deleting what
\* is not there answers 200 and changes nothing.
Delete ==
    /\ route = "delete"
    /\ image' = NoImage
    /\ accepted' = <<>>
    /\ UNCHANGED answer
    /\ Handled

\* The requests are spent, or the process has exited.
Done ==
    /\ \/ ops = MaxOps /\ route = "none"
       \/ server = "exited"
    /\ UNCHANGED vars

Next ==
    \/ \E k \in ApiKeys : Start(k)
    \/ StartFails
    \/ \E m \in Methods, p \in Paths, h \in Headers, l \in BOOLEAN : Request(m, p, h, l)
    \/ \E n \in RequestNames, t \in RequestTags : Create(n, t)
    \/ \E t \in RequestTags : Update(t)
    \/ Delete
    \/ Done

Spec == Init /\ [][Next]_vars

-----------------------------------------------------------------------------
TypeOK ==
    /\ image \in Seq(Chars \cup ToSet(Repo) \cup ToSet(Latest))
    /\ image /= NoImage => IsPrefix(Repo \o << Colon >>, image)
    /\ accepted \in Seq(Chars \cup ToSet(Latest))
    /\ answer \in Answers
    /\ ops \in 0..MaxOps
    /\ server \in {"starting", "serving", "exited"}
    /\ key \in ApiKeys \cup {<<>>}
    /\ route \in Handlers \cup {"none"}
    /\ hdr \in Headers

\* A tag without a colon round-trips: after a create or update with it,
\* GetCustomerInstance reports exactly that tag, whatever tags (with colons
\* or not) the image carried before UpdateCustomerInstance rewrote it.
ColonFreeTagRoundTrip ==
    image /= NoImage /\ ~Contains(accepted, Colon) => TagOf(image) = accepted

\* The two copies of the name check agree: CreateCustomerInstance never
\* refuses a name that CreateCustomer's validation let through, so an
\* invalid name is always a 400 and never a 500 after the handler.
NoLateRejection ==
    answer /= "name_rejected"

\* Only a request carrying the configured key reaches a handler that
\* changes an instance: unless main started the server without a key,
\* the request's Authorization header is exactly "Bearer " followed by
\* the key.  AuthMiddleware splits the header at every space, so a header
\* with more pieces must not get through on its second one.
OnlyKeyHoldersWrite ==
    route \in Handlers => key = <<>> \/ hdr = << Bearer, Space >> \o key

=============================================================================
