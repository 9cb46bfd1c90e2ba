---------------------------- MODULE MCProvisioning ----------------------------
(* Instances of Provisioning for TLC: one customer (every race in the code *)
(* is between requests for the same name), one invalid name, one image tag *)
(* and one custom label key.                                               *)
EXTENDS Provisioning, TLC

MCCustomers    == {"acme-corp"}
MCInvalidNames == {"Bad_Name!"}
MCTags         == {"v1"}
MCLabelKeys    == {"team"}

AllOps        == {"create", "get", "update", "delete", "list"}
CreateDelete  == {"create", "delete"}
WriteOps      == {"create", "update", "delete"}
CreateList    == {"create", "list"}

\* The goroutines are interchangeable: the handlers never tell them apart.
ProcSymmetry == Permutations(Procs)
=============================================================================
