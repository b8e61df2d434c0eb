----------------------------- MODULE ManagedSet -----------------------------
(* What the managed tool updates promise about the application data: at     *)
(* every instant, a crash included, one set of tools is current or none is; *)
(* an installation replaces the current set by a newer one in one step and  *)
(* keeps the replaced one; and a set is given up only while someone goes    *)
(* back to the kept set or to the bundled tools.                            *)
EXTENDS Naturals

CONSTANTS Versions,    \* the release versions of tool sets
          None         \* no set: the bundled tools are used

VARIABLES current, kept, discarding

Init == current = None /\ kept = None /\ discarding = FALSE

(* A newer set takes over as a whole; the set it replaces is kept.          *)
Install(v) ==
    /\ current = None \/ v > current
    /\ current' = v /\ kept' = current
    /\ UNCHANGED discarding

(* An installation first gives up the older of the two sets.                *)
MakeRoom == kept' = None /\ UNCHANGED <<current, discarding>>

(* A rollback or a reset begins and ends.                                   *)
Discard == discarding' = ~discarding /\ UNCHANGED <<current, kept>>

(* Meanwhile the current set may go, and the kept one may take its place.   *)
Drop ==
    /\ discarding
    /\ current' \in {kept, None} /\ kept' \in {kept, None}
    /\ UNCHANGED discarding

(* Without a current set the kept one may come back.                        *)
Restore == current = None /\ current' = kept /\ kept' = None

Next == (\E v \in Versions : Install(v)) \/ MakeRoom \/ Discard \/ Drop \/ Restore

Spec == Init /\ [][Next]_<<current, kept, discarding>>
=============================================================================
