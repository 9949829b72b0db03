------------------------------- MODULE UpdatePass --------------------------------
(*****************************************************************************)
(* One resource that exists in Glue, its tags and its other fields together:  *)
(* sdkFind reads the fields and then the tags, sdkUpdate writes the tags and   *)
(* then the fields.  The tag half is TagSync, whose steps are taken here       *)
(* between a read (GetJob) and a write (UpdateJob) of the fields; only a tag   *)
(* half that ended without an error is followed by the write.                  *)
(*****************************************************************************)
EXTENDS TagSync

CONSTANTS
    Bodies,     \* what a specification says apart from its tags
    Refused,    \* the bodies the builder fails on or Glue refuses
    Observed    \* what sdkFind makes of a stored body: the plain numbers it always
                \* sets and the fields Glue fills in are there although left out

ASSUME UpdatePassAssumption ==
    /\ Refused \subseteq Bodies
    /\ Observed \in [Bodies -> Bodies]

VARIABLES
    body,       \* the body of the custom resource in the API server
    stored,     \* the body Glue stores
    step,       \* the pass: "idle" or about to do "get", "tags" or "fields"
    want,       \* the body the current or last pass works from
    seen,       \* the body it has read
    result      \* how the last pass ended: "none" yet, "ok" or "error"

fieldVars == <<body, stored, step, want, seen, result>>
updateVars == <<vars, fieldVars>>

UpdateTypeOK ==
    /\ TypeOK
    /\ body \in Bodies
    /\ stored \in Bodies \ Refused
    /\ step \in {"idle", "get", "tags", "fields"}
    /\ want \in Bodies
    /\ seen \in Bodies
    /\ result \in {"none", "ok", "error"}

UpdateInit ==
    /\ Init
    /\ body \in Bodies
    /\ stored \in Bodies \ Refused
    /\ step = "idle"
    /\ want = body
    /\ seen = Observed[stored]
    /\ result = "none"

-----------------------------------------------------------------------------
\* The reconciler.

Begin ==
    /\ step = "idle"
    /\ StartPass
    /\ step' = "get"
    /\ want' = body
    /\ UNCHANGED <<body, stored, seen, result>>

End(r) == step' = "idle" /\ result' = r

\* GetJob or GetDatabase, and what sdkFind copies of the answer.
GetFields ==
    /\ step = "get"
    /\ step' = "tags"
    /\ seen' = Observed[stored]
    /\ UNCHANGED <<vars, body, stored, want, result>>

\* The read fails before the tags are asked for.
GetFieldsFails ==
    /\ step = "get"
    /\ Crash
    /\ End("error")
    /\ UNCHANGED <<body, stored, want, seen>>

\* Mutants: the fields are written although no field differs, or although the tags
\* could not be.
AfterTags_withoutDelta(o) ==
    IF o = "ok" THEN step' = "fields" /\ UNCHANGED result ELSE End(o)
AfterTags_anyway(o) ==
    IF want # seen THEN step' = "fields" /\ UNCHANGED result ELSE End(o)

\* The tag half is over: an error ends the pass, and so does a delta with
\* nothing but tags.
AfterTags(o) ==
    IF o = "ok" /\ want # seen
    THEN step' = "fields" /\ UNCHANGED result
    ELSE End(o)

\* Mutant: the request is built first, and fields it cannot be built of keep the
\* tags from being written too.
SyncTags_fieldsFirst ==
    /\ step = "tags"
    /\ IF want \in Refused
       THEN /\ pc' = "idle"
            /\ outcome' = "error"
            /\ End("error")
            /\ UNCHANGED <<specTags, awsTags, desired, latest, disturbed, edits, faults>>
       ELSE /\ Answered \/ ReadTagsFails \/ UntagFails \/ TagFails
            /\ IF pc' = "idle" THEN AfterTags(outcome')
               ELSE UNCHANGED <<step, result>>
    /\ UNCHANGED <<body, stored, want, seen>>

\* getTags, the delta, and syncTags if the tags differ.
SyncTags ==
    /\ step = "tags"
    /\ Answered \/ ReadTagsFails \/ UntagFails \/ TagFails
    /\ IF pc' = "idle" THEN AfterTags(outcome') ELSE UNCHANGED <<step, result>>
    /\ UNCHANGED <<body, stored, want, seen>>

\* Mutant: what was read goes back to Glue.
UpdateFields_stale ==
    /\ step = "fields"
    /\ want \notin Refused
    /\ stored' = seen
    /\ End("ok")
    /\ UNCHANGED <<vars, body, want, seen>>

\* UpdateJob or UpdateDatabase succeeds.
UpdateFields ==
    /\ step = "fields"
    /\ want \notin Refused
    /\ stored' = want
    /\ End("ok")
    /\ UNCHANGED <<vars, body, want, seen>>

\* The request cannot be built or Glue refuses it; the tags stay written.
UpdateRefused ==
    /\ step = "fields"
    /\ want \in Refused
    /\ End("error")
    /\ UNCHANGED <<vars, body, stored, want, seen>>

\* The call fails, or its answer is lost after it took effect.
UpdateFails ==
    /\ step = "fields"
    /\ Fault
    /\ \/ UNCHANGED stored
       \/ want \notin Refused /\ stored' = want
    /\ End("error")
    /\ UNCHANGED <<specTags, awsTags, pc, desired, latest, outcome, disturbed, edits,
                   body, want, seen>>

\* The process dies during the tag half.
Die ==
    /\ step = "tags"
    /\ Crash
    /\ End("error")
    /\ UNCHANGED <<body, stored, want, seen>>

-----------------------------------------------------------------------------
\* The environment.

TagEdit == (UserEdit \/ OtherWrite) /\ UNCHANGED fieldVars

\* A user edits the rest of the specification.
BodyEdit ==
    /\ edits < MaxEdits
    /\ edits' = edits + 1
    /\ body' \in Bodies \ {body}
    /\ UNCHANGED <<specTags, awsTags, pc, desired, latest, outcome, disturbed, faults,
                   stored, step, want, seen, result>>

\* Another client of Glue updates the resource.
OtherUpdate ==
    /\ edits < MaxEdits
    /\ edits' = edits + 1
    /\ stored' \in Bodies \ (Refused \cup {stored})
    /\ disturbed' = TRUE
    /\ UNCHANGED <<specTags, awsTags, pc, desired, latest, outcome, faults,
                   body, step, want, seen, result>>

-----------------------------------------------------------------------------
Reconcile == Begin \/ GetFields \/ SyncTags \/ UpdateFields \/ UpdateRefused

Broken == GetFieldsFails \/ UpdateFails \/ Die

UpdateNext == Reconcile \/ Broken \/ TagEdit \/ BodyEdit \/ OtherUpdate

UpdateSpec == UpdateInit /\ [][UpdateNext]_updateVars

\* A failed pass is retried, every resource is resynced periodically, and calls
\* are answered.
FairUpdateSpec == UpdateSpec /\ WF_updateVars(Reconcile)

-----------------------------------------------------------------------------
\* Properties.

\* Glue holds body b: it stores it, or what it stores reads back as b.
InGlue(b) == b \in {stored, Observed[stored]}

\* An undisturbed pass is reported as a success only if both halves are done:
\* the body wanted is in Glue, every tag wanted has its value there, and no other
\* tag is left.  A kind that hides read errors may leave a tag nobody wants, but
\* never lacks a wanted one.
SuccessMeansBoth ==
    (step = "idle" /\ result = "ok" /\ ~disturbed) =>
        /\ InGlue(want)
        /\ \A k \in Keys \ AWSKeys :
              ReportsReadErrors \/ desired[k] # Absent => awsTags[k] = desired[k]

\* The user asks for no tag that only AWS may write.
TagsAcceptable == \A k \in AWSKeys : specTags[k] # Absent => awsTags[k] # Absent

\* The tags do not wait for the fields: once edits and failures stop they become
\* the wanted ones, also when the rest of the specification is refused in every
\* pass (syncTags comes before newUpdateRequestPayload).
TagsReachGlue ==
    <>[](TagsAcceptable => \A k \in Keys \ AWSKeys : awsTags[k] = Wanted[k])

\* The fields do wait for the tags, and reach Glue when neither is refused; a body
\* that reads back as another one, and is written again by every pass, reaches it too.
FieldsReachGlue ==
    <>[](TagsAcceptable /\ body \notin Refused => InGlue(body))

\* In the end the controller leaves off writing if the user wrote every field that a
\* read shows: what it wants and what it reads agree, AWS's own tags included, and no
\* pass makes a call that changes anything.  A Job that leaves out maxRetries, timeout
\* or jobMode is another body when read and is updated by every pass.
ComesToRest ==
    <>[](TagsAcceptable /\ body \notin Refused /\ Observed[body] = body =>
            pc \notin {"untag", "tag"} /\ step # "fields")
=================================================================================
