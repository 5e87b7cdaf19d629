--------------------------- MODULE PairPublication --------------------------
(***************************************************************************)
(* What publishing an evidence bundle promises.  A bundle path holds the   *)
(* result of at most one attempt, a bundle with its manifest: nobody       *)
(* replaces it, and once an attempt has reported success nothing takes it  *)
(* away that is where things stay.  Only a result that nobody has reported *)
(* yet, or that is not in such a place, can be lost with the power.        *)
(***************************************************************************)
CONSTANTS
    Attempt, Output,
    Nobody            \* not an attempt: EvidencePublish, which gives it, assumes so

VARIABLES
    output,       \* the bundle path each attempt was given
    settled,      \* the attempts whose files are where things stay
    published,    \* the attempt whose bundle and manifest are at a bundle path
    reported      \* the attempts that returned successfully

vars == <<output, settled, published, reported>>

Init ==
    /\ output \in [Attempt -> Output]
    /\ settled \in SUBSET Attempt
    /\ published = [o \in Output |-> Nobody]
    /\ reported = {}

Publish(a) ==
    /\ published[output[a]] = Nobody
    /\ published' = [published EXCEPT ![output[a]] = a]
    /\ UNCHANGED <<output, settled, reported>>

Report(a) ==
    /\ published[output[a]] = a
    /\ reported' = reported \cup {a}
    /\ UNCHANGED <<output, settled, published>>

Settle ==
    /\ settled' \in SUBSET Attempt
    /\ settled \subseteq settled'
    /\ UNCHANGED <<output, published, reported>>

\* A power loss takes back no result that was reported and is settled.
Lose ==
    /\ \E lost \in SUBSET Output :
          /\ \A o \in lost : published[o] \notin reported \cap settled
          /\ published' = [o \in Output |-> IF o \in lost THEN Nobody ELSE published[o]]
    /\ UNCHANGED <<output, settled, reported>>

Next == Settle \/ Lose \/ \E a \in Attempt : Publish(a) \/ Report(a)

Spec == Init /\ [][Next]_vars
=============================================================================
