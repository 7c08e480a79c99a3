----------------------------- MODULE OpDelivery -----------------------------
(***************************************************************************)
(* What synchronisation promises the author of an operation: it is settled *)
(* at most once on the main node, and what its origin is told about it is  *)
(* how it was settled.  The one loophole is a refusal: the main node may   *)
(* reject an operation without recording it, and then a duplicate of it    *)
(* may still be recorded, but never as a conflict.  Nothing is said of     *)
(* queues, retries, connections or crashes; SyncFlush implements this      *)
(* module under a refinement mapping.                                      *)
(***************************************************************************)

CONSTANT Operations     \* every operation an origin node may issue

Verdict == {"applied", "conflict", "rejected"}

VARIABLES
    fate,       \* [Operations -> "unissued", "pending" or a verdict], on the main node
    refused,    \* operations the main node has rejected, whether recorded or not
    known       \* [Operations -> "unknown" or a verdict], at the origin

deliveryVars == <<fate, refused, known>>

Init ==
    /\ fate = [op \in Operations |-> "unissued"]
    /\ refused = {}
    /\ known = [op \in Operations |-> "unknown"]

\* An origin issues one or more operations.
Issue ==
    /\ \A op \in Operations :
          fate'[op] # fate[op] => fate[op] = "unissued" /\ fate'[op] = "pending"
    /\ UNCHANGED <<refused, known>>

\* The main node settles or refuses one or more pending operations.
Settle ==
    /\ \A op \in Operations :
          /\ fate'[op] # fate[op] =>
                /\ fate[op] = "pending"
                /\ fate'[op] \in Verdict
                /\ op \in refused => fate'[op] # "conflict"
          /\ op \in refused' \ refused => fate'[op] \in {"pending", "rejected"}
    /\ refused \subseteq refused'
    /\ UNCHANGED known

\* An origin learns the verdicts of some operations.
Learn ==
    /\ \A op \in Operations :
          known'[op] # known[op] =>
              /\ known[op] = "unknown"
              /\ known'[op] \in Verdict
              /\ known'[op] = fate[op] \/ (known'[op] = "rejected" /\ op \in refused)
    /\ UNCHANGED <<fate, refused>>

Next == Issue \/ Settle \/ Learn

Spec == Init /\ [][Next]_deliveryVars

=============================================================================
