----------------------------- MODULE Provisioning -----------------------------
(***************************************************************************)
(* The provisioning engine of api-server: the request goroutines of the    *)
(* HTTP handlers (internal/api/handlers.go) running the k8s.Client         *)
(* operations (internal/k8s/client.go, resources.go) against the           *)
(* Kubernetes API server and its namespace and deployment controllers.     *)
(*                                                                         *)
(* Every client-go call is one atomic step of its goroutine; between two   *)
(* calls of one request any other goroutine or controller may run.  The    *)
(* API server's answers follow its storage rules: a create of an existing  *)
(* name is AlreadyExists, a create inside a terminating namespace is       *)
(* Forbidden, a second delete of a terminating namespace is Conflict, an   *)
(* update carrying a superseded resourceVersion is Conflict.  Any call may *)
(* also fail for another reason (timeout, cancelled request context,       *)
(* server error), at most MaxFaults times in a behaviour.                  *)
(***************************************************************************)
EXTENDS Naturals, FiniteSets, Sequences

CONSTANTS
    Customers,     \* valid customer names
    InvalidNames,  \* names validateCreateRequest rejects
    Procs,         \* request goroutines of the HTTP server
    Ops,           \* the operations the clients send
    Tags,          \* image tags a request may supply
    LabelKeys,     \* custom label keys an update may supply
    MaxRequests,   \* requests each goroutine serves
    MaxFaults      \* API calls that fail for a reason other than the object

ASSUME MaxRequests \in Nat /\ MaxFaults \in Nat
ASSUME Ops \subseteq {"create", "get", "update", "delete", "list"}

VARIABLES
    \* objects stored by the API server, per customer
    ns,        \* namespace postgres-operator-<c>: "absent", "active", "terminating"
    sa,        \* service account <c>-pgo-age exists
    role,      \* cluster role postgres-operator-<c> exists
    binding,   \* cluster role binding postgres-operator-<c> exists
    dep,       \* deployment <c>-pgo-age: spec and status
    \* request goroutines
    pc,        \* the call the goroutine makes next
    req,       \* the request being served
    snap,      \* the deployment as read by UpdateCustomerInstance
    stale,     \* goroutines whose read deployment has since been written
    todo,      \* namespaces ListCustomerInstances has still to project
    found,     \* customers ListCustomerInstances has projected
    resp,      \* the last response of each goroutine
    nreq,      \* requests received by each goroutine
    faults,    \* API calls failed so far
    \* history
    written,   \* labels of updates written to the current deployment
    deleted    \* a delete of c answered 200 and no create of c came since

platform == <<ns, sa, role, binding, dep>>
procs    == <<pc, req, snap, stale, todo, found, resp, nreq>>
history  == <<written, deleted>>
vars     == <<platform, procs, faults, history>>

-----------------------------------------------------------------------------
(* Values *)

NoName == "none"
Names  == Customers \cup InvalidNames

\* A deployment: existence, the image tag and custom template labels of its
\* pod template, a template change not yet rolled out, and the status the
\* deployment controller writes (conditions present, replicas, ready).
DepState == [exists: BOOLEAN, tag: Tags \cup {"latest", NoName},
             labels: SUBSET LabelKeys, rollout: BOOLEAN,
             conds: BOOLEAN, replicas: 0..1, ready: 0..1]
NoDep == [exists |-> FALSE, tag |-> NoName, labels |-> {}, rollout |-> FALSE,
          conds |-> FALSE, replicas |-> 0, ready |-> 0]

\* UpdateCustomerRequest: ImageTag "" and Labels nil mean "leave alone".
UpdateReqs == [tag: Tags \cup {""}, labels: SUBSET LabelKeys]

Request == [op: Ops, cust: Names \cup {NoName}, tag: Tags \cup {""},
            labels: SUBSET LabelKeys, retry: BOOLEAN]

\* Why the response has its code: the call's outcome the code branched on.
Causes == {"ok", "invalid", "exists", "absent", "nodeployment", "forbidden",
           "conflict", "panic", "upstream"}
Phases == {"Creating", "Running", "Failed"}
Response == [op: Ops \cup {NoName}, cust: Names \cup {NoName},
             code: {0, 200, 201, 400, 404, 500}, phase: Phases \cup {NoName},
             cause: Causes, retry: BOOLEAN]
NoResp == [op |-> NoName, cust |-> NoName, code |-> 0, phase |-> NoName,
           cause |-> "ok", retry |-> FALSE]

PCs == {"idle", "cr_exists", "cr_ns", "cr_sa", "cr_role", "cr_binding",
        "cr_dep", "del_ns", "del_role", "del_binding", "up_read", "up_write",
        "list_ns", "list_next", "get_ns", "get_dep"}

\* Mutant: the deployment created before the cluster role and binding.
CreateStepsDeploymentFirst ==
    <<"cr_exists", "cr_ns", "cr_sa", "cr_dep", "cr_role", "cr_binding">>

\* The calls CreateCustomerInstance and DeleteCustomerInstance make, in order.
CreateSteps == <<"cr_exists", "cr_ns", "cr_sa", "cr_role", "cr_binding", "cr_dep">>
DeleteSteps == <<"del_ns", "del_role", "del_binding">>

-----------------------------------------------------------------------------
(* Helpers translated from the code *)

\* validateCreateRequest / validateCustomerName: the character rules are
\* modelled by the split of names into Customers and InvalidNames.
ValidName(n) == n \in Customers

\* The error text GetCustomerInstance returns for a missing namespace.
NotFoundMsg(c) == "customer instance '" \o c \o "' not found"

\* isNotFoundError: compares the whole error text with two fixed strings.
IsNotFoundError(msg) ==
    msg \in {"customer instance not found", "Customer instance not found"}

\* Mutant: a rollout in progress reported with the unused phase Updating.
PhaseOfWithUpdating(d) == CASE d.rollout      -> "Updating"
                            [] d.ready > 0    -> "Running"
                            [] d.replicas > 0 -> "Creating"
                            [] OTHER          -> "Failed"

\* The phase GetCustomerInstance derives from the deployment status.
PhaseOf(d) == CASE d.ready > 0    -> "Running"
                [] d.replicas > 0 -> "Creating"
                [] OTHER          -> "Failed"

-----------------------------------------------------------------------------
(* Goroutine bookkeeping *)

Cust(p) == req[p].cust

\* The goroutine answers its request and becomes idle.
Reply(p, code, phase, cause) ==
    /\ pc' = [pc EXCEPT ![p] = "idle"]
    /\ resp' = [resp EXCEPT ![p] = [op |-> req[p].op, cust |-> req[p].cust,
                   code |-> code, phase |-> phase, cause |-> cause,
                   retry |-> req[p].retry]]

Fail(p, cause) == Reply(p, 500, NoName, cause)

\* The next call of a create or delete, or, after the last one, the reply.
StepsOf(p) == IF req[p].op = "create" THEN CreateSteps ELSE DeleteSteps
Position(p) == CHOOSE i \in 1..Len(StepsOf(p)) : StepsOf(p)[i] = pc[p]
Advance(p) ==
    IF Position(p) < Len(StepsOf(p))
    THEN /\ pc' = [pc EXCEPT ![p] = StepsOf(p)[Position(p) + 1]]
         /\ UNCHANGED resp
    ELSE Reply(p, IF req[p].op = "create" THEN 201 ELSE 200, NoName, "ok")

\* Every write of the deployment moves its resourceVersion on: a goroutine
\* holding an earlier read of it can no longer update it.
Touch(c) == stale' = stale \cup {q \in Procs : pc[q] = "up_write" /\ Cust(q) = c}

-----------------------------------------------------------------------------
(* Receiving requests: the handlers up to their first API call *)

Init ==
    /\ ns = [c \in Customers |-> "absent"]
    /\ sa = [c \in Customers |-> FALSE]
    /\ role = [c \in Customers |-> FALSE]
    /\ binding = [c \in Customers |-> FALSE]
    /\ dep = [c \in Customers |-> NoDep]
    /\ pc = [p \in Procs |-> "idle"]
    /\ req = [p \in Procs |-> [op |-> CHOOSE o \in Ops : TRUE, cust |-> NoName,
                                tag |-> "", labels |-> {}, retry |-> FALSE]]
    /\ snap = [p \in Procs |-> NoDep]
    /\ stale = {}
    /\ todo = [p \in Procs |-> {}]
    /\ found = [p \in Procs |-> {}]
    /\ resp = [p \in Procs |-> NoResp]
    /\ nreq = [p \in Procs |-> 0]
    /\ faults = 0
    /\ written = [c \in Customers |-> {}]
    /\ deleted = [c \in Customers |-> FALSE]

Receive(p, r, next) ==
    /\ pc[p] = "idle"
    /\ nreq[p] < MaxRequests
    /\ r.op \in Ops
    /\ nreq' = [nreq EXCEPT ![p] = @ + 1]
    /\ req' = [req EXCEPT ![p] = r]
    /\ pc' = [pc EXCEPT ![p] = next]

Req(op, c, t, l) == [op |-> op, cust |-> c, tag |-> t, labels |-> l, retry |-> FALSE]

\* CreateCustomer: a name validateCreateRequest rejects is answered 400
\* before any API call; the image tag defaults to "latest".
ReceiveCreate(p) ==
    \E n \in Names, t \in Tags \cup {""} :
        /\ Receive(p, Req("create", n, t, {}), IF ValidName(n) THEN "cr_exists" ELSE "idle")
        /\ IF ValidName(n)
           THEN /\ deleted' = [deleted EXCEPT ![n] = FALSE]
                /\ UNCHANGED resp
           ELSE /\ resp' = [resp EXCEPT ![p] = [op |-> "create", cust |-> n,
                              code |-> 400, phase |-> NoName, cause |-> "invalid",
                              retry |-> FALSE]]
                /\ UNCHANGED deleted
        /\ UNCHANGED <<platform, snap, stale, todo, found, faults, written>>

ReceiveGet(p) ==
    \E c \in Customers :
        /\ Receive(p, Req("get", c, "", {}), "get_ns")
        /\ UNCHANGED <<platform, snap, stale, todo, found, resp, faults, history>>

ReceiveUpdate(p) ==
    \E c \in Customers, u \in UpdateReqs :
        /\ Receive(p, Req("update", c, u.tag, u.labels), "up_read")
        /\ UNCHANGED <<platform, snap, stale, todo, found, resp, faults, history>>

\* retry records that this delete repeats this client's successful delete.
ReceiveDelete(p) ==
    \E c \in Customers :
        /\ Receive(p, [Req("delete", c, "", {}) EXCEPT !.retry =
                          resp[p].op = "delete" /\ resp[p].cust = c /\ resp[p].code = 200],
                   "del_ns")
        /\ UNCHANGED <<platform, snap, stale, todo, found, resp, faults, history>>

ReceiveList(p) ==
    /\ Receive(p, Req("list", NoName, "", {}), "list_ns")
    /\ UNCHANGED <<platform, snap, stale, todo, found, resp, faults, history>>

-----------------------------------------------------------------------------
(* CreateCustomerInstance: existence check, then five creates in order, no *)
(* rollback of the earlier ones when a later one fails.                    *)

\* customerInstanceExists: a terminating namespace still exists.
CheckExists(p) ==
    /\ pc[p] = "cr_exists"
    /\ IF ns[Cust(p)] = "absent" THEN Advance(p) ELSE Fail(p, "exists")
    /\ UNCHANGED <<platform, req, snap, stale, todo, found, nreq, faults, history>>

CreateNamespace(p) ==
    LET c == Cust(p) IN
    /\ pc[p] = "cr_ns"
    /\ \/ /\ ns[c] = "absent"
          /\ ns' = [ns EXCEPT ![c] = "active"]
          /\ Advance(p)
       \/ /\ ns[c] # "absent"
          /\ Fail(p, "exists")
          /\ UNCHANGED ns
    /\ UNCHANGED <<sa, role, binding, dep, req, snap, stale, todo, found, nreq, faults, history>>

\* A namespaced create: NotFound without the namespace, Forbidden while it
\* terminates, AlreadyExists over an object of the same name.
NamespacedCreateFails(c, exists) ==
    CASE ns[c] = "absent"      -> "absent"
      [] ns[c] = "terminating" -> "forbidden"
      [] exists                -> "exists"

CreateServiceAccount(p) ==
    LET c == Cust(p) IN
    /\ pc[p] = "cr_sa"
    /\ \/ /\ ns[c] = "active" /\ ~sa[c]
          /\ sa' = [sa EXCEPT ![c] = TRUE]
          /\ Advance(p)
       \/ /\ ~(ns[c] = "active" /\ ~sa[c])
          /\ Fail(p, NamespacedCreateFails(c, sa[c]))
          /\ UNCHANGED sa
    /\ UNCHANGED <<ns, role, binding, dep, req, snap, stale, todo, found, nreq, faults, history>>

CreateClusterRole(p) ==
    LET c == Cust(p) IN
    /\ pc[p] = "cr_role"
    /\ \/ /\ ~role[c]
          /\ role' = [role EXCEPT ![c] = TRUE]
          /\ Advance(p)
       \/ /\ role[c]
          /\ Fail(p, "exists")
          /\ UNCHANGED role
    /\ UNCHANGED <<ns, sa, binding, dep, req, snap, stale, todo, found, nreq, faults, history>>

CreateClusterRoleBinding(p) ==
    LET c == Cust(p) IN
    /\ pc[p] = "cr_binding"
    /\ \/ /\ ~binding[c]
          /\ binding' = [binding EXCEPT ![c] = TRUE]
          /\ Advance(p)
       \/ /\ binding[c]
          /\ Fail(p, "exists")
          /\ UNCHANGED binding
    /\ UNCHANGED <<ns, sa, role, dep, req, snap, stale, todo, found, nreq, faults, history>>

\* createDeployment: one replica, image tag req.tag or "latest", no status.
CreateDeployment(p) ==
    LET c == Cust(p) IN
    /\ pc[p] = "cr_dep"
    /\ \/ /\ ns[c] = "active" /\ ~dep[c].exists
          /\ dep' = [dep EXCEPT ![c] = [NoDep EXCEPT !.exists = TRUE,
                        !.tag = IF req[p].tag = "" THEN "latest" ELSE req[p].tag]]
          /\ written' = [written EXCEPT ![c] = {}]
          /\ Touch(c)
          /\ Advance(p)
       \/ /\ ~(ns[c] = "active" /\ ~dep[c].exists)
          /\ Fail(p, NamespacedCreateFails(c, dep[c].exists))
          /\ UNCHANGED <<dep, written, stale>>
    /\ UNCHANGED <<ns, sa, role, binding, req, snap, todo, found, nreq, faults, deleted>>

-----------------------------------------------------------------------------
(* DeleteCustomerInstance: namespace, then cluster role, then binding; a  *)
(* NotFound is success, any other error ends the call.                     *)

\* Mutant: a missing namespace taken for a finished delete, skipping the
\* cluster-scoped objects.
DeleteNamespaceStopsWhenAbsent(p) ==
    LET c == Cust(p) IN
    /\ pc[p] = "del_ns"
    /\ \/ /\ ns[c] = "active"
          /\ ns' = [ns EXCEPT ![c] = "terminating"]
          /\ Advance(p)
          /\ UNCHANGED deleted
       \/ /\ ns[c] = "absent"
          /\ UNCHANGED ns
          /\ Reply(p, 200, NoName, "ok")
          /\ deleted' = [deleted EXCEPT ![c] = TRUE]
       \/ /\ ns[c] = "terminating"
          /\ UNCHANGED <<ns, deleted>>
          /\ Fail(p, "conflict")
    /\ UNCHANGED <<sa, role, binding, dep, req, snap, stale, todo, found, nreq, faults, written>>

\* Deleting an active namespace starts its termination; deleting one that
\* is already terminating is a Conflict.
DeleteNamespace(p) ==
    LET c == Cust(p) IN
    /\ pc[p] = "del_ns"
    /\ \/ /\ ns[c] = "active"
          /\ ns' = [ns EXCEPT ![c] = "terminating"]
          /\ Advance(p)
       \/ /\ ns[c] = "absent"
          /\ UNCHANGED ns
          /\ Advance(p)
       \/ /\ ns[c] = "terminating"
          /\ UNCHANGED ns
          /\ Fail(p, "conflict")
    /\ UNCHANGED <<sa, role, binding, dep, req, snap, stale, todo, found, nreq, faults, history>>

DeleteClusterRole(p) ==
    /\ pc[p] = "del_role"
    /\ role' = [role EXCEPT ![Cust(p)] = FALSE]
    /\ Advance(p)
    /\ UNCHANGED <<ns, sa, binding, dep, req, snap, stale, todo, found, nreq, faults, history>>

\* The last call: its success is the 200 of DeleteCustomer.
DeleteClusterRoleBinding(p) ==
    /\ pc[p] = "del_binding"
    /\ binding' = [binding EXCEPT ![Cust(p)] = FALSE]
    /\ Advance(p)
    /\ deleted' = [deleted EXCEPT ![Cust(p)] = TRUE]
    /\ UNCHANGED <<ns, sa, role, dep, req, snap, stale, todo, found, nreq, faults, written>>

-----------------------------------------------------------------------------
(* UpdateCustomerInstance: read the deployment, rewrite its image tag and  *)
(* merge the labels into its pod template, write it back with the          *)
(* resourceVersion read; then UpdateCustomer reads the instance again.     *)

UpdateRead(p) ==
    LET c == Cust(p) IN
    /\ pc[p] = "up_read"
    /\ \/ /\ dep[c].exists
          /\ snap' = [snap EXCEPT ![p] = dep[c]]
          /\ stale' = stale \ {p}
          /\ pc' = [pc EXCEPT ![p] = "up_write"]
          /\ UNCHANGED resp
       \/ /\ ~dep[c].exists
          /\ Fail(p, "nodeployment")
          /\ UNCHANGED <<snap, stale>>
    /\ UNCHANGED <<platform, req, todo, found, nreq, faults, history>>

\* Mutant: the supplied labels assigned to the template instead of merged.
UpdatedReplacingLabels(d, r) ==
    [d EXCEPT !.tag = IF r.tag = "" THEN @ ELSE r.tag,
              !.labels = r.labels]

\* The pod template after the update: the tag of the "operator" container
\* when one is supplied, the union of old and supplied labels.
Updated(d, r) ==
    [d EXCEPT !.tag = IF r.tag = "" THEN @ ELSE r.tag,
              !.labels = @ \cup r.labels]

\* Mutant: the update written without the resourceVersion read (a Patch or
\* a freshly built object), so a concurrent write is overwritten.
UpdateWriteWithoutVersion(p) ==
    LET c == Cust(p)
        new == Updated(snap[p], req[p])
        changed == new.tag # dep[c].tag \/ new.labels # dep[c].labels
    IN
    /\ pc[p] = "up_write"
    /\ \/ /\ dep[c].exists
          /\ dep' = [dep EXCEPT ![c].tag = new.tag, ![c].labels = new.labels,
                                 ![c].rollout = @ \/ changed]
          /\ written' = [written EXCEPT ![c] = @ \cup req[p].labels]
          /\ IF changed THEN Touch(c) ELSE UNCHANGED stale
          /\ pc' = [pc EXCEPT ![p] = "get_ns"]
          /\ UNCHANGED resp
       \/ /\ ~dep[c].exists
          /\ Fail(p, "nodeployment")
          /\ UNCHANGED <<dep, written, stale>>
    /\ UNCHANGED <<ns, sa, role, binding, req, snap, todo, found, nreq, faults, deleted>>

\* A write that changes the pod template starts a Recreate rollout; a write
\* that changes nothing is not stored and moves no resourceVersion on.
UpdateWrite(p) ==
    LET c == Cust(p)
        new == Updated(snap[p], req[p])
        changed == new.tag # dep[c].tag \/ new.labels # dep[c].labels
    IN
    /\ pc[p] = "up_write"
    /\ \/ /\ p \notin stale /\ dep[c].exists
          /\ dep' = [dep EXCEPT ![c].tag = new.tag, ![c].labels = new.labels,
                                 ![c].rollout = @ \/ changed]
          /\ written' = [written EXCEPT ![c] = @ \cup req[p].labels]
          /\ IF changed THEN Touch(c) ELSE UNCHANGED stale
          /\ pc' = [pc EXCEPT ![p] = "get_ns"]
          /\ UNCHANGED resp
       \/ /\ p \in stale
          /\ Fail(p, IF dep[c].exists THEN "conflict" ELSE "nodeployment")
          /\ UNCHANGED <<dep, written, stale>>
    /\ UNCHANGED <<ns, sa, role, binding, req, snap, todo, found, nreq, faults, deleted>>

-----------------------------------------------------------------------------
(* GetCustomerInstance, called by GetCustomer, by UpdateCustomer after its *)
(* write and by ListCustomerInstances for each namespace.                  *)

\* What the caller does with the result r of GetCustomerInstance.
\*   GetCustomer: 200, 404 when isNotFoundError(err), 500 otherwise and when
\*     the handler panicked (gin.Recovery answers 500);
\*   UpdateCustomer: 200, or 500 for any failure;
\*   ListCustomerInstances: keep it, skip an error, and a panic ends the
\*     whole list request with 500.
Return(p, r) ==
    \/ /\ req[p].op = "get"
       /\ Reply(p, CASE r.kind = "ok" -> 200
                     [] r.kind = "err" /\ IsNotFoundError(r.msg) -> 404
                     [] OTHER -> 500,
                r.phase, r.cause)
       /\ UNCHANGED <<todo, found>>
    \/ /\ req[p].op = "update"
       /\ Reply(p, IF r.kind = "ok" THEN 200 ELSE 500, r.phase, r.cause)
       /\ UNCHANGED <<todo, found>>
    \/ /\ req[p].op = "list" /\ r.kind # "panic"
       /\ found' = [found EXCEPT ![p] = IF r.kind = "ok" THEN @ \cup {Cust(p)} ELSE @]
       /\ pc' = [pc EXCEPT ![p] = "list_next"]
       /\ UNCHANGED <<resp, todo>>
    \/ /\ req[p].op = "list" /\ r.kind = "panic"
       /\ Fail(p, "panic")
       /\ UNCHANGED <<todo, found>>

Result(kind, msg, phase, cause) ==
    [kind |-> kind, msg |-> msg, phase |-> phase, cause |-> cause]

GetNamespace(p) ==
    LET c == Cust(p) IN
    /\ pc[p] = "get_ns"
    /\ \/ /\ ns[c] = "absent"
          /\ Return(p, Result("err", NotFoundMsg(c), NoName, "absent"))
       \/ /\ ns[c] # "absent"
          /\ pc' = [pc EXCEPT ![p] = "get_dep"]
          /\ UNCHANGED <<resp, todo, found>>
    /\ UNCHANGED <<platform, req, snap, stale, nreq, faults, history>>

\* UpdatedAt reads the last status condition: a deployment whose status has
\* no conditions yet makes the index expression panic.
GetDeployment(p) ==
    LET c == Cust(p) IN
    /\ pc[p] = "get_dep"
    /\ Return(p, CASE ~dep[c].exists -> Result("err", "failed to get deployment", NoName, "nodeployment")
                   [] ~dep[c].conds  -> Result("panic", "", NoName, "panic")
                   [] OTHER          -> Result("ok", "", PhaseOf(dep[c]), "ok"))
    /\ UNCHANGED <<platform, req, snap, stale, nreq, faults, history>>

\* ListCustomerInstances: namespaces carrying app.kubernetes.io/client whose
\* name has the prefix postgres-operator-; every namespace this server
\* created carries both, terminating ones included.
ListNamespaces(p) ==
    /\ pc[p] = "list_ns"
    /\ todo' = [todo EXCEPT ![p] = {c \in Customers : ns[c] # "absent"}]
    /\ found' = [found EXCEPT ![p] = {}]
    /\ pc' = [pc EXCEPT ![p] = "list_next"]
    /\ UNCHANGED <<platform, req, snap, stale, resp, nreq, faults, history>>

ListNext(p) ==
    /\ pc[p] = "list_next"
    /\ \/ \E c \in todo[p] :
             /\ req' = [req EXCEPT ![p].cust = c]
             /\ todo' = [todo EXCEPT ![p] = @ \ {c}]
             /\ pc' = [pc EXCEPT ![p] = "get_ns"]
             /\ UNCHANGED resp
       \/ /\ todo[p] = {}
          /\ Reply(p, 200, NoName, "ok")
          /\ UNCHANGED <<req, todo>>
    /\ UNCHANGED <<platform, snap, stale, found, nreq, faults, history>>

-----------------------------------------------------------------------------
(* A call that fails for a reason other than the object: the server is     *)
(* unreachable or errs, or the request context is cancelled.  The call     *)
(* changes nothing and the code takes its error path.                      *)

ApiSteps == PCs \ {"idle", "list_next"}

CallFails(p) ==
    /\ pc[p] \in ApiSteps
    /\ faults < MaxFaults
    /\ faults' = faults + 1
    /\ IF pc[p] \in {"get_ns", "get_dep"}
       THEN Return(p, Result("err", "upstream", NoName, "upstream"))
       ELSE /\ Fail(p, "upstream")
            /\ UNCHANGED <<todo, found>>
    /\ UNCHANGED <<platform, req, snap, stale, nreq, history>>

\* The process dies with requests in flight: RateLimitMiddleware's fatal
\* "concurrent map writes" (module RateLimit), or the pod is killed.  No
\* request in flight gets an answer, the objects their calls created stay
\* (nothing is rolled back), and the restarted server's goroutines are
\* idle.  It counts against the same budget as failed calls.
ProcessCrash ==
    /\ \E p \in Procs : pc[p] # "idle"
    /\ faults < MaxFaults
    /\ faults' = faults + 1
    /\ pc' = [p \in Procs |-> "idle"]
    /\ stale' = {}
    /\ todo' = [p \in Procs |-> {}]
    /\ UNCHANGED <<platform, req, snap, found, resp, nreq, history>>

-----------------------------------------------------------------------------
(* The cluster's controllers.  The namespace controller purges the content *)
(* of a terminating namespace and then removes it; the deployment          *)
(* controller writes the status (first its conditions, then the replica    *)
(* count) and, for a changed template, recreates the pod (strategy         *)
(* Recreate: the old pod goes before the new one comes).                   *)

NamespacePurge(c) ==
    /\ ns[c] = "terminating"
    /\ sa[c] \/ dep[c].exists
    /\ sa' = [sa EXCEPT ![c] = FALSE]
    /\ dep' = [dep EXCEPT ![c] = NoDep]
    /\ Touch(c)
    /\ UNCHANGED <<ns, role, binding, pc, req, snap, todo, found, resp, nreq, faults, history>>

NamespaceFinalize(c) ==
    /\ ns[c] = "terminating"
    /\ ~sa[c] /\ ~dep[c].exists
    /\ ns' = [ns EXCEPT ![c] = "absent"]
    /\ UNCHANGED <<sa, role, binding, dep, procs, faults, history>>

\* A status write of the deployment controller or the kubelet.
SetStatus(c, d) ==
    /\ dep' = [dep EXCEPT ![c] = d]
    /\ Touch(c)
    /\ UNCHANGED <<ns, sa, role, binding, pc, req, snap, todo, found, resp, nreq, faults, history>>

DeploymentObserve(c) ==
    /\ dep[c].exists /\ ~dep[c].conds
    /\ SetStatus(c, [dep[c] EXCEPT !.conds = TRUE])

DeploymentScaleUp(c) ==
    /\ dep[c].conds /\ ~dep[c].rollout /\ dep[c].replicas = 0
    /\ SetStatus(c, [dep[c] EXCEPT !.replicas = 1])

DeploymentRecreate(c) ==
    /\ dep[c].conds /\ dep[c].rollout
    /\ SetStatus(c, [dep[c] EXCEPT !.rollout = FALSE, !.replicas = 0, !.ready = 0])

\* The pod passes or fails its readiness probe; neither is guaranteed.
PodReady(c) ==
    /\ dep[c].replicas = 1 /\ ~dep[c].rollout /\ dep[c].ready = 0
    /\ SetStatus(c, [dep[c] EXCEPT !.ready = 1])

PodUnready(c) ==
    /\ dep[c].ready = 1
    /\ SetStatus(c, [dep[c] EXCEPT !.ready = 0])

-----------------------------------------------------------------------------
(* Specification *)

\* The steps of a goroutine serving a request.
Serve(p) ==
    \/ CheckExists(p) \/ CreateNamespace(p) \/ CreateServiceAccount(p)
    \/ CreateClusterRole(p) \/ CreateClusterRoleBinding(p) \/ CreateDeployment(p)
    \/ DeleteNamespace(p) \/ DeleteClusterRole(p) \/ DeleteClusterRoleBinding(p)
    \/ UpdateRead(p) \/ UpdateWrite(p)
    \/ GetNamespace(p) \/ GetDeployment(p)
    \/ ListNamespaces(p) \/ ListNext(p)

ReceiveRequest(p) ==
    \/ ReceiveCreate(p) \/ ReceiveGet(p) \/ ReceiveUpdate(p)
    \/ ReceiveDelete(p) \/ ReceiveList(p)

NamespaceController(c) == NamespacePurge(c) \/ NamespaceFinalize(c)

DeploymentController(c) ==
    DeploymentObserve(c) \/ DeploymentScaleUp(c) \/ DeploymentRecreate(c)

Kubelet(c) == PodReady(c) \/ PodUnready(c)

\* Every goroutine has served its requests and is idle.
RequestsServed ==
    /\ \A p \in Procs : pc[p] = "idle" /\ nreq[p] = MaxRequests
    /\ UNCHANGED vars

Next ==
    \/ \E p \in Procs : ReceiveRequest(p) \/ Serve(p) \/ CallFails(p)
    \/ ProcessCrash
    \/ \E c \in Customers :
          NamespaceController(c) \/ DeploymentController(c) \/ Kubelet(c)
    \/ RequestsServed

\* A goroutine that has a request keeps making its calls (each client-go
\* call returns, if only with an error); the controllers keep running.
\* Clients need not send requests, and pods need not become ready.
Fairness ==
    /\ \A p \in Procs : WF_vars(Serve(p))
    /\ \A c \in Customers : WF_vars(NamespaceController(c))
    /\ \A c \in Customers : WF_vars(DeploymentController(c))

Spec == Init /\ [][Next]_vars /\ Fairness

-----------------------------------------------------------------------------
(* The abstract lifecycle.  An instance is what GetCustomerInstance finds:  *)
(* the namespace (terminating or not) and the deployment in it; its tag and *)
(* labels are those of the deployment's pod template.                      *)

NoInstance == [tag |-> NoName, labels |-> {}]

VisibleView ==
    [c \in Customers |->
        IF ns[c] # "absent" /\ dep[c].exists
        THEN [tag |-> dep[c].tag, labels |-> dep[c].labels]
        ELSE NoInstance]

Abstract == INSTANCE Lifecycle
                WITH view <- VisibleView, Tags <- Tags \cup {"latest"}, None <- NoInstance

-----------------------------------------------------------------------------
(* Properties *)

TypeOK ==
    /\ ns \in [Customers -> {"absent", "active", "terminating"}]
    /\ sa \in [Customers -> BOOLEAN]
    /\ role \in [Customers -> BOOLEAN]
    /\ binding \in [Customers -> BOOLEAN]
    /\ dep \in [Customers -> DepState]
    /\ pc \in [Procs -> PCs]
    /\ req \in [Procs -> Request]
    /\ snap \in [Procs -> DepState]
    /\ stale \subseteq Procs
    /\ todo \in [Procs -> SUBSET Customers]
    /\ found \in [Procs -> SUBSET Customers]
    /\ resp \in [Procs -> Response]
    /\ nreq \in [Procs -> 0..MaxRequests]
    /\ faults \in 0..MaxFaults
    /\ written \in [Customers -> SUBSET LabelKeys]
    /\ deleted \in [Customers -> BOOLEAN]

\* A customer whose deployment runs in a live namespace, which GetCustomer
\* and ListCustomers report, has its service account and the cluster role
\* and binding granting the operator its rights.  CreateCustomerInstance
\* creates the deployment last and DeleteCustomerInstance removes the
\* namespace first; concurrent requests for one customer may break it.
VisibleInstanceIsComplete ==
    \A c \in Customers :
        ns[c] = "active" /\ dep[c].exists => sa[c] /\ role[c] /\ binding[c]

DeleteEventuallyCleans ==
    \A c \in Customers :
        deleted[c] ~> \/ ~deleted[c]
                      \/ /\ ns[c] = "absent" /\ ~sa[c] /\ ~dep[c].exists
                         /\ ~role[c] /\ ~binding[c]

\* Provisioning implements the abstract lifecycle: through any
\* interleaving of handlers and controllers, an instance appears with its
\* requested tag and no custom labels, is changed only by updates that keep
\* every label it had, and then disappears.
LifecycleRefined == Abstract!Spec

\* ListCustomers is best effort (spec section 4.5): one instance that cannot
\* be projected is skipped, so a listing answers 200 unless listing the
\* namespaces itself failed.  ListCustomerInstances skips errors of
\* GetCustomerInstance but not a panic inside it.
ListBestEffort ==
    \A p \in Procs :
        resp[p].op = "list" /\ resp[p].cause # "upstream" => resp[p].code = 200

\* Deleting a customer again right after a successful delete succeeds
\* (spec section 8, idempotent deletion).
DeleteIdempotent ==
    \A p \in Procs :
        resp[p].op = "delete" /\ resp[p].retry /\ resp[p].cause # "upstream"
            => resp[p].code = 200

=============================================================================
