----------------------------- MODULE Pagination -----------------------------
(***************************************************************************)
(* ListCustomers (internal/api/handlers.go): the page and pageSize query   *)
(* parameters, and the slice of the listing the handler returns.  Go's     *)
(* int is 64 bits wide; here it is IntBits wide, with the same two's       *)
(* complement wrap-around, so that the overflow of the offset computation  *)
(* is reachable by TLC.                                                    *)
(***************************************************************************)
EXTENDS Integers

CONSTANTS
    IntBits,    \* width of int (64 in the program)
    MaxTotal    \* most customer instances the listing returns

MaxInt == 2^(IntBits - 1) - 1
MinInt == -(2^(IntBits - 1))
Ints == MinInt..MaxInt

\* The value of x in int: arithmetic wraps modulo 2^IntBits.
Wrap(x) == ((x - MinInt) % 2^IntBits) + MinInt

\* strconv.Atoi of a query parameter: the int and whether err is nil.  A
\* parameter that is not a number gives 0, one out of range the nearest
\* bound, each with an error.
QueryValues == [ok: {TRUE}, n: Ints] \cup
               {[ok |-> FALSE, n |-> x] : x \in {0, MinInt, MaxInt}}

VARIABLES
    listErr,    \* whether ListCustomerInstances returned an error
    total,      \* len(customers) it returned otherwise
    resp        \* the response, or NoResp before it

vars == <<listErr, total, resp>>

NoResp == [code |-> 0, first |-> 0, last |-> -1, page |-> 0, pageSize |-> 0,
           hasNext |-> FALSE, hasPrev |-> FALSE]

-----------------------------------------------------------------------------
\* page, defaulting to 1 when missing, unparsable or below 1 (a missing
\* parameter is "1" by DefaultQuery).
ParsePage(v) == IF ~v.ok \/ v.n < 1 THEN 1 ELSE v.n

\* pageSize, defaulting to 10 when unparsable or outside 1..100.
ParsePageSize(v) == IF ~v.ok \/ v.n < 1 \/ v.n > 100 THEN 10 ELSE v.n

\* Mutant: the offset of page p computed as p * pageSize.
PageSliceFromPage(page, pageSize, n) ==
    LET start == Wrap(page * pageSize)
        end == Wrap(start + pageSize)
    IN IF start >= n THEN [panic |-> FALSE, first |-> 0, last |-> -1, end |-> end]
       ELSE IF start < 0 THEN [panic |-> TRUE, first |-> 0, last |-> -1, end |-> end]
       ELSE LET e == IF end > n THEN n ELSE end
            IN [panic |-> FALSE, first |-> start, last |-> e - 1, end |-> e]

\* The pagination block: start and end in int arithmetic; customers[start:end]
\* panics when start is negative (gin's Recovery answers 500).  The result
\* is the index range first..last of the listing returned, and end as the
\* handler holds it afterwards (HasNext reads it).
PageSlice(page, pageSize, n) ==
    LET start == Wrap((page - 1) * pageSize)
        end == Wrap(start + pageSize)
    IN IF start >= n THEN [panic |-> FALSE, first |-> 0, last |-> -1, end |-> end]
       ELSE IF start < 0 THEN [panic |-> TRUE, first |-> 0, last |-> -1, end |-> end]
       ELSE LET e == IF end > n THEN n ELSE end
            IN [panic |-> FALSE, first |-> start, last |-> e - 1, end |-> e]

-----------------------------------------------------------------------------
Init ==
    /\ listErr \in BOOLEAN
    /\ total \in 0..MaxTotal
    /\ resp = NoResp

\* ListCustomers after the listing failed: 500 LIST_FAILED.
ListCustomersFails ==
    /\ resp = NoResp
    /\ listErr
    /\ resp' = [NoResp EXCEPT !.code = 500]
    /\ UNCHANGED <<listErr, total>>

\* ListCustomers with the given page and pageSize parameters.
ListCustomers(pageIn, sizeIn) ==
    LET page == ParsePage(pageIn)
        pageSize == ParsePageSize(sizeIn)
        s == PageSlice(page, pageSize, total)
    IN /\ resp = NoResp
       /\ ~listErr
       /\ resp' = IF s.panic THEN [NoResp EXCEPT !.code = 500]
                  ELSE [code |-> 200, first |-> s.first, last |-> s.last,
                        page |-> page, pageSize |-> pageSize,
                        hasNext |-> s.end < total, hasPrev |-> page > 1]
       /\ UNCHANGED <<listErr, total>>

Answered ==
    /\ resp /= NoResp
    /\ UNCHANGED vars

Next ==
    \/ ListCustomersFails
    \/ resp = NoResp /\ \E p, s \in QueryValues : ListCustomers(p, s)
    \/ Answered

Spec == Init /\ [][Next]_vars

-----------------------------------------------------------------------------
\* The page the response describes, in unbounded arithmetic: the listing
\* from position (page-1)*pageSize on, at most pageSize of them.
RequestedFirst == (resp.page - 1) * resp.pageSize
RequestedLast == IF resp.page * resp.pageSize < total
                 THEN resp.page * resp.pageSize - 1 ELSE total - 1

IsRequestedPage ==
    /\ IF RequestedFirst < total
       THEN resp.first = RequestedFirst /\ resp.last = RequestedLast
       ELSE resp.first > resp.last
    /\ resp.hasNext <=> resp.page * resp.pageSize < total

\* When the offset of the page fits in an int, a successful ListCustomers
\* returns exactly the requested page of the listing, and HasNext says
\* whether a later page has anything.
PageCorrectWithoutOverflow ==
    resp.code = 200 /\ RequestedFirst + resp.pageSize <= MaxInt => IsRequestedPage

\* Every successful ListCustomers returns the page it reports, whatever the
\* page number.
PageCorrect ==
    resp.code = 200 => IsRequestedPage

=============================================================================
