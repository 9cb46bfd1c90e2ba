------------------------------ MODULE Lifecycle ------------------------------
(***************************************************************************)
(* What the API promises about one customer instance, seen from outside:   *)
(* an instance appears with the image tag it was created with and no       *)
(* custom labels, is then only changed in place (spec section 4.6: the     *)
(* tag replaced, labels merged into the existing ones, never removed), and *)
(* finally disappears.  It says nothing of how many calls this takes.      *)
(***************************************************************************)
CONSTANTS
    Customers,
    Tags,        \* the image tags an instance can run
    LabelKeys,   \* custom label keys
    None         \* no instance

VARIABLE view    \* per customer: None, or the instance's tag and labels

Instances == [tag: Tags, labels: SUBSET LabelKeys]

Init == view = [c \in Customers |-> None]

Appear(c) ==
    /\ view[c] = None
    /\ \E t \in Tags : view' = [view EXCEPT ![c] = [tag |-> t, labels |-> {}]]

Modify(c) ==
    /\ view[c] /= None
    /\ \E i \in Instances :
          /\ view[c].labels \subseteq i.labels
          /\ view' = [view EXCEPT ![c] = i]

Disappear(c) ==
    /\ view[c] /= None
    /\ view' = [view EXCEPT ![c] = None]

Next == \E c \in Customers : Appear(c) \/ Modify(c) \/ Disappear(c)

Spec == Init /\ [][Next]_view

=============================================================================
