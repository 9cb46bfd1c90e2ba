------------------------------- MODULE Naming -------------------------------
(***************************************************************************)
(* The two copies of the customer-name check of api-server, one in the     *)
(* HTTP handler (internal/api/handlers.go) and one in the k8s client       *)
(* (internal/k8s/client.go).  A string is a sequence of one-character      *)
(* strings; every character the checks accept is one byte, so Go's byte   *)
(* index i and len(name) are positions in that sequence.                  *)
(***************************************************************************)
EXTENDS Naturals, Sequences, SequencesExt

CONSTANT NameLimit   \* the longest customer name accepted (20)

ASSUME NameLimit \in Nat \ {0}

\* r >= 'a' && r <= 'z' || r >= '0' && r <= '9' || r == '-'
KubernetesNameChars ==
    {"a","b","c","d","e","f","g","h","i","j","k","l","m","n","o","p","q","r",
     "s","t","u","v","w","x","y","z","0","1","2","3","4","5","6","7","8","9","-"}

-----------------------------------------------------------------------------
\* Mutant: the last-character test compares i with len(name) instead of
\* len(name)-1, so it never fires.
ValidKubernetesNameApiOffByOne(s) ==
    /\ s /= <<>>
    /\ \A i \in 1..Len(s) :
          /\ s[i] \in KubernetesNameChars
          /\ ~(i = 1 /\ s[i] = "-")
          /\ ~(i = Len(s) + 1 /\ s[i] = "-")

\* isValidKubernetesName of package api: not empty, and every character
\* allowed, the first and the last not "-".
ValidKubernetesNameApi(s) ==
    /\ s /= <<>>
    /\ \A i \in 1..Len(s) :
          /\ s[i] \in KubernetesNameChars
          /\ ~(i = 1 /\ s[i] = "-")
          /\ ~(i = Len(s) /\ s[i] = "-")

\* isValidKubernetesName of package k8s: every character allowed, and no
\* "-" prefix or suffix; the empty name passes.
ValidKubernetesNameK8s(s) ==
    /\ \A i \in 1..Len(s) : s[i] \in KubernetesNameChars
    /\ ~IsPrefix(<<"-">>, s)
    /\ ~IsSuffix(<<"-">>, s)

\* validateCreateRequest (after ShouldBindJSON, whose binding:"required"
\* already refuses an empty name): whether it returns no error.
ValidateCreateRequest(n) ==
    n /= <<>> /\ Len(n) <= NameLimit /\ ValidKubernetesNameApi(n)

\* validateCustomerName, the first step of CreateCustomerInstance.
ValidateCustomerName(n) ==
    n /= <<>> /\ Len(n) <= NameLimit /\ ValidKubernetesNameK8s(n)

=============================================================================
