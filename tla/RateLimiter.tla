----------------------------- MODULE RateLimiter -----------------------------
(***************************************************************************)
(* What RateLimitMiddleware promises, "Limit: 100 requests per minute per  *)
(* IP", as an atomic limiter: each request of an address, stamped with a   *)
(* time no later than the clock, is decided in one step, admitted exactly  *)
(* when fewer than Limit requests of that address were admitted in the     *)
(* window ending at its time.  It says nothing of how the decision is      *)
(* computed.                                                               *)
(***************************************************************************)
EXTENDS Integers, Functions

CONSTANTS IPs, Limit, Window, MaxTime

VARIABLES
    admitted,   \* admitted[a][t]: requests of a admitted with time t
    verdict,    \* the last decision: address, time, admitted or not
    clock

Time == 0..MaxTime
NoVerdict == [ip |-> "none", at |-> 0, ok |-> FALSE]

\* Requests of a admitted in the window that ends at time n.
AdmittedInWindow(a, n) ==
    SumFunctionOnSet(admitted[a], {t \in Time : t <= n /\ n - t < Window})

Init ==
    /\ admitted = [a \in IPs |-> [t \in Time |-> 0]]
    /\ verdict = NoVerdict
    /\ clock = 0

Decide(a, t) ==
    LET ok == AdmittedInWindow(a, t) < Limit IN
    /\ t <= clock
    /\ verdict' = [ip |-> a, at |-> t, ok |-> ok]
    /\ admitted' = IF ok THEN [admitted EXCEPT ![a][t] = @ + 1] ELSE admitted
    /\ UNCHANGED clock

Tick ==
    /\ clock < MaxTime
    /\ clock' = clock + 1
    /\ UNCHANGED <<admitted, verdict>>

Next == (\E a \in IPs, t \in Time : Decide(a, t)) \/ Tick

Spec == Init /\ [][Next]_<<admitted, verdict, clock>>

=============================================================================
