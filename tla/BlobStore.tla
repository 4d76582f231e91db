------------------------------ MODULE BlobStore ------------------------------
(***************************************************************************)
(* What the file service promises about contents: a file row refers to     *)
(* content that is stored, and only content no row refers to is collected, *)
(* each in one step, with no gate, no temporary files and no blobs table.  *)
(***************************************************************************)
EXTENDS Naturals

CONSTANTS
    Digests,    \* distinct contents
    MaxRefs     \* bound: file rows that reference one digest

VARIABLES
    stored,     \* contents that are there
    refs        \* file rows, deleted ones included, that reference a digest

Init == stored = {} /\ refs = [d \in Digests |-> 0]

Publish(d) ==
    /\ stored' = stored \cup {d}
    /\ UNCHANGED refs

Reference(d) ==
    /\ d \in stored
    /\ refs[d] < MaxRefs
    /\ refs' = [refs EXCEPT ![d] = @ + 1]
    /\ UNCHANGED stored

Unreference(d) ==
    /\ refs[d] > 0
    /\ refs' = [refs EXCEPT ![d] = @ - 1]
    /\ UNCHANGED stored

Collect(d) ==
    /\ refs[d] = 0
    /\ stored' = stored \ {d}
    /\ UNCHANGED refs

Next == \E d \in Digests : Publish(d) \/ Reference(d) \/ Unreference(d) \/ Collect(d)

Spec == Init /\ [][Next]_<<stored, refs>>
=============================================================================
