----------------------------- MODULE RateLimit -----------------------------
(***************************************************************************)
(* RateLimitMiddleware (internal/api/middleware.go): one map from client   *)
(* IP to the times of its recent requests, shared by every request         *)
(* goroutine gin runs, with no lock.  Each map access of the handler is a  *)
(* step of its own, so that goroutines interleave between them as they do  *)
(* in the program.  The limit (100) and the window (one minute) are the    *)
(* constants Limit and Window, the clock counts ticks.                     *)
(***************************************************************************)
EXTENDS Integers, Sequences, SequencesExt, Functions

CONSTANTS
    Procs,        \* request goroutines
    IPs,          \* client addresses
    Limit,        \* requests admitted per window and address (100)
    Window,       \* the window, in clock ticks (time.Minute)
    MaxTime,      \* last clock value
    MaxRequests   \* bound on the requests received

ASSUME Limit \in Nat \ {0} /\ Window \in Nat \ {0} /\ MaxTime \in Nat

VARIABLES
    requests,   \* the map: a function whose domain is the IPs it holds
    clock,      \* time.Now()
    pc,         \* the step each goroutine is at
    ip,         \* c.ClientIP() of the goroutine's request
    now,        \* the time the goroutine read at its start
    local,      \* the slice the goroutine read from the map
    received,   \* requests received so far
    admitted,   \* history: admitted[a][t] requests of a admitted with time t
    verdict     \* history: the last request admitted or refused, or NoVerdict

vars == <<requests, clock, pc, ip, now, local, received, admitted, verdict>>

Time == 0..MaxTime
NoIP == "none"
NoVerdict == [ip |-> NoIP, at |-> 0, ok |-> FALSE]

PCs == {"idle", "prune", "prune_write", "check", "append_read", "append_write"}

\* The goroutine steps at which it reads or writes the map.
MapSteps == PCs \ {"idle"}
WriteSteps == {"prune_write", "append_write"}

\* requests[clientIP]: a missing key reads as an empty slice.
Lookup(a) == IF a \in DOMAIN requests THEN requests[a] ELSE << >>

Store(a, v) == a :> v @@ requests

\* now.Sub(t) < time.Minute: a time later than now is kept as well.
Recent(t, n) == n - t < Window

-----------------------------------------------------------------------------
Init ==
    /\ requests = << >>
    /\ clock = 0
    /\ pc = [p \in Procs |-> "idle"]
    /\ ip = [p \in Procs |-> NoIP]
    /\ now = [p \in Procs |-> 0]
    /\ local = [p \in Procs |-> << >>]
    /\ received = 0
    /\ admitted = [a \in IPs |-> [t \in Time |-> 0]]
    /\ verdict = NoVerdict

\* A request from address a reaches the middleware: clientIP and now.
Receive(p, a) ==
    /\ pc[p] = "idle"
    /\ received < MaxRequests
    /\ pc' = [pc EXCEPT ![p] = "prune"]
    /\ ip' = [ip EXCEPT ![p] = a]
    /\ now' = [now EXCEPT ![p] = clock]
    /\ received' = received + 1
    /\ UNCHANGED <<requests, clock, local, admitted, verdict>>

\* Mutant: a time exactly one window old is still counted.
PruneKeepingBoundary(p) ==
    /\ pc[p] = "prune"
    /\ IF ip[p] \in DOMAIN requests
       THEN /\ local' = [local EXCEPT ![p] =
                   SelectSeq(requests[ip[p]], LAMBDA t : now[p] - t <= Window)]
            /\ pc' = [pc EXCEPT ![p] = "prune_write"]
       ELSE /\ pc' = [pc EXCEPT ![p] = "check"]
            /\ UNCHANGED local
    /\ UNCHANGED <<requests, clock, ip, now, received, admitted, verdict>>

\* The cleaning loop: when the address has an entry, keep the times
\* within the window.
Prune(p) ==
    /\ pc[p] = "prune"
    /\ IF ip[p] \in DOMAIN requests
       THEN /\ local' = [local EXCEPT ![p] =
                   SelectSeq(requests[ip[p]], LAMBDA t : Recent(t, now[p]))]
            /\ pc' = [pc EXCEPT ![p] = "prune_write"]
       ELSE /\ pc' = [pc EXCEPT ![p] = "check"]
            /\ UNCHANGED local
    /\ UNCHANGED <<requests, clock, ip, now, received, admitted, verdict>>

\* requests[clientIP] = validTimes
PruneWrite(p) ==
    /\ pc[p] = "prune_write"
    /\ requests' = Store(ip[p], local[p])
    /\ pc' = [pc EXCEPT ![p] = "check"]
    /\ UNCHANGED <<clock, ip, now, local, received, admitted, verdict>>

\* Mutant: refused only above the limit.
CheckAboveLimit(p) ==
    /\ pc[p] = "check"
    /\ IF Len(Lookup(ip[p])) > Limit
       THEN /\ pc' = [pc EXCEPT ![p] = "idle"]
            /\ verdict' = [ip |-> ip[p], at |-> now[p], ok |-> FALSE]
       ELSE /\ pc' = [pc EXCEPT ![p] = "append_read"]
            /\ UNCHANGED verdict
    /\ UNCHANGED <<requests, clock, ip, now, local, received, admitted>>

\* Mutant: the refused request is recorded in the map as well.
CheckCountingRefused(p) ==
    /\ pc[p] = "check"
    /\ IF Len(Lookup(ip[p])) >= Limit
       THEN /\ pc' = [pc EXCEPT ![p] = "idle"]
            /\ verdict' = [ip |-> ip[p], at |-> now[p], ok |-> FALSE]
            /\ requests' = Store(ip[p], Append(Lookup(ip[p]), now[p]))
       ELSE /\ pc' = [pc EXCEPT ![p] = "append_read"]
            /\ UNCHANGED <<verdict, requests>>
    /\ UNCHANGED <<clock, ip, now, local, received, admitted>>

\* len(requests[clientIP]) >= 100: answer 429 and abort, or go on.
Check(p) ==
    /\ pc[p] = "check"
    /\ IF Len(Lookup(ip[p])) >= Limit
       THEN /\ pc' = [pc EXCEPT ![p] = "idle"]
            /\ verdict' = [ip |-> ip[p], at |-> now[p], ok |-> FALSE]
       ELSE /\ pc' = [pc EXCEPT ![p] = "append_read"]
            /\ UNCHANGED verdict
    /\ UNCHANGED <<requests, clock, ip, now, local, received, admitted>>

\* requests[clientIP] = append(requests[clientIP], now): the read of the
\* right-hand side, then the write; after it c.Next() runs the handler.
AppendRead(p) ==
    /\ pc[p] = "append_read"
    /\ local' = [local EXCEPT ![p] = Lookup(ip[p])]
    /\ pc' = [pc EXCEPT ![p] = "append_write"]
    /\ UNCHANGED <<requests, clock, ip, now, received, admitted, verdict>>

AppendWrite(p) ==
    /\ pc[p] = "append_write"
    /\ requests' = Store(ip[p], Append(local[p], now[p]))
    /\ admitted' = [admitted EXCEPT ![ip[p]][now[p]] = @ + 1]
    /\ verdict' = [ip |-> ip[p], at |-> now[p], ok |-> TRUE]
    /\ pc' = [pc EXCEPT ![p] = "idle"]
    /\ UNCHANGED <<clock, ip, now, local, received>>

\* Go's map is not safe for concurrent use: a write overlapping another
\* access may be detected ("fatal error: concurrent map writes"), which
\* cannot be recovered and ends the process.  The container is restarted
\* and the map starts empty; requests in flight get no answer.
Crash ==
    /\ \E p, q \in Procs : p /= q /\ pc[p] \in WriteSteps /\ pc[q] \in MapSteps
    /\ requests' = << >>
    /\ pc' = [p \in Procs |-> "idle"]
    /\ local' = [p \in Procs |-> << >>]
    /\ UNCHANGED <<clock, ip, now, received, admitted, verdict>>

Tick ==
    /\ clock < MaxTime
    /\ clock' = clock + 1
    /\ UNCHANGED <<requests, pc, ip, now, local, received, admitted, verdict>>

\* Every request was handled and the clock has run out.
Finished ==
    /\ received = MaxRequests
    /\ clock = MaxTime
    /\ \A p \in Procs : pc[p] = "idle"
    /\ UNCHANGED vars

Next ==
    \/ \E p \in Procs :
          \/ \E a \in IPs : Receive(p, a)
          \/ Prune(p) \/ PruneWrite(p) \/ Check(p)
          \/ AppendRead(p) \/ AppendWrite(p)
    \/ Crash
    \/ Tick
    \/ Finished

Spec == Init /\ [][Next]_vars

\* The atomic limiter the middleware stands for: the history of admissions
\* and decisions, and the clock, are its state.
Atomic == INSTANCE RateLimiter

-----------------------------------------------------------------------------
\* Requests of address a admitted with a time the code still counts at n.
AdmittedRecently(a, n) ==
    SumFunctionOnSet(admitted[a], {t \in Time : Recent(t, n)})

\* The promise of the 429 answer, "Limit: 100 requests per minute per IP":
\* no address has more than Limit requests admitted within any window.
WithinLimit ==
    \A a \in IPs, n \in Time :
        SumFunctionOnSet(admitted[a], {t \in Time : t <= n /\ Recent(t, n)}) <= Limit

\* A request is refused with 429 only when its address really had Limit
\* requests admitted within the window the check looks at.
NoWrongRefusal ==
    verdict /= NoVerdict /\ ~verdict.ok =>
        AdmittedRecently(verdict.ip, verdict.at) >= Limit

CountedAreAdmitted ==
    \A a \in DOMAIN requests, t \in Time :
        Len(SelectSeq(requests[a], LAMBDA s : s = t)) <= admitted[a][t]

=============================================================================
