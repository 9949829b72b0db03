-------------------------------- MODULE Ownership --------------------------------
(*****************************************************************************)
(* What the controller promises about one custom resource and the resource in  *)
(* Glue that it stands for, with nothing said of passes, readings, conditions   *)
(* or errors.  The finalizer is a claim: the controller makes, changes and      *)
(* removes the resource only while it holds the claim, removes it only when a   *)
(* user has asked for that, makes it only where there is none, and gives the    *)
(* claim up only when nothing it made is left.  Controller implements it where  *)
(* users do not move the resource and no create request is sent twice.          *)
(*****************************************************************************)
EXTENDS Naturals

CONSTANTS
    Contents,   \* what a resource in Glue can be
    Nothing     \* no resource

VARIABLES
    phase,      \* the custom resource: "live", "deleting" or "gone"
    claimed,    \* it carries the finalizer
    resource,   \* what is in Glue, or Nothing
    ours,       \* the controller made what is there
    moves       \* how often users or other clients of Glue have moved

vars == <<phase, claimed, resource, ours, moves>>

Init ==
    /\ phase = "live"
    /\ claimed = FALSE
    /\ resource = Nothing
    /\ ours = FALSE
    /\ moves = 0

Claim ==
    /\ phase = "live"
    /\ claimed' = TRUE
    /\ UNCHANGED <<phase, resource, ours, moves>>

Make ==
    /\ claimed
    /\ resource = Nothing
    /\ resource' \in Contents
    /\ ours' = TRUE
    /\ UNCHANGED <<phase, claimed, moves>>

Change ==
    /\ claimed
    /\ resource # Nothing
    /\ resource' \in Contents
    /\ UNCHANGED <<phase, claimed, ours, moves>>

Remove ==
    /\ claimed
    /\ phase = "deleting"
    /\ resource' = Nothing
    /\ ours' = FALSE
    /\ UNCHANGED <<phase, claimed, moves>>

GiveUp ==
    /\ claimed
    /\ ~ours
    /\ claimed' = FALSE
    /\ phase' = IF phase = "deleting" THEN "gone" ELSE phase
    /\ UNCHANGED <<resource, ours, moves>>

\* A user deletes the custom resource, which stays as long as it is claimed.
Ask ==
    /\ moves' = moves + 1
    /\ phase = "live"
    /\ phase' = IF claimed THEN "deleting" ELSE "gone"
    /\ UNCHANGED <<claimed, resource, ours>>

\* Other clients of Glue do what they like.
Others ==
    /\ moves' = moves + 1
    /\ resource' \in Contents \cup {Nothing}
    /\ ours' = (ours /\ resource' # Nothing)
    /\ UNCHANGED <<phase, claimed>>

Next == Claim \/ Make \/ Change \/ Remove \/ GiveUp \/ Ask \/ Others

Spec == Init /\ [][Next]_vars
=================================================================================
