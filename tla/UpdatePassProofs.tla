----------------------------- MODULE UpdatePassProofs -----------------------------
(*****************************************************************************)
(* UpdatePass for every set of keys, values and bodies, every limit, every     *)
(* number of edits and failures, and either kind.  Its tag half takes the steps *)
(* of TagSync, so the lemmas on those steps carry over; the other steps leave   *)
(* the tags alone.                                                             *)
(*****************************************************************************)
EXTENDS UpdatePass, TagPassProofs

\* Which half the pass is in, and what is done of the fields: undisturbed, Glue
\* stores what was read until it is written, and a pass that ends without an error
\* leaves the wanted ones, after a tag half that ended without one.
HalvesInv ==
    /\ step = "idle" => pc = "idle"
    /\ step = "get" => pc = "read"
    /\ step = "tags" => pc # "idle"
    /\ step = "fields" => pc = "idle" /\ outcome = "ok"
    /\ ~disturbed =>
          /\ step \in {"tags", "fields"} => seen = Observed[stored]
          /\ step = "idle" /\ result = "ok" => InGlue(want) /\ outcome = "ok"

\* The steps that belong to neither half of TagSync leave what TagSync speaks of
\* as it is, but for the two bounds and the ghost.
OutsideTags ==
    /\ UNCHANGED <<specTags, awsTags, pc, desired, latest, outcome>>
    /\ edits' \in 0..MaxEdits
    /\ faults' \in 0..MaxFaults
    /\ disturbed' = disturbed \/ disturbed' = TRUE
    /\ edits' = edits \/ edits' = edits + 1

\* Every step of UpdatePass is a step of TagSync or lies outside the tags.
LEMMA StepOfTags ==
    ASSUME UpdateTypeOK, [UpdateNext]_updateVars
    PROVE  [Next]_vars \/ OutsideTags
  <1> USE DEF UpdateTypeOK, TypeOK
  <1>1. CASE Begin
    BY <1>1 DEF Begin, Next
  <1>2. CASE GetFields
    BY <1>2 DEF GetFields
  <1>3. CASE SyncTags
    BY <1>3 DEF SyncTags, Next, Failed
  <1>4. CASE UpdateFields
    BY <1>4 DEF UpdateFields
  <1>5. CASE UpdateRefused
    BY <1>5 DEF UpdateRefused
  <1>6. CASE GetFieldsFails
    BY <1>6 DEF GetFieldsFails, Next, Failed
  <1>7. CASE UpdateFails
    BY <1>7, TagSyncAssumption DEF UpdateFails, Fault, OutsideTags
  <1>8. CASE Die
    BY <1>8 DEF Die, Next, Failed
  <1>9. CASE TagEdit
    BY <1>9 DEF TagEdit, Next
  <1>10. CASE BodyEdit
    BY <1>10, TagSyncAssumption DEF BodyEdit, OutsideTags
  <1>11. CASE OtherUpdate
    BY <1>11, TagSyncAssumption DEF OtherUpdate, OutsideTags
  <1>12. CASE UNCHANGED updateVars
    BY <1>12 DEF updateVars
  <1> QED
    BY <1>1, <1>2, <1>3, <1>4, <1>5, <1>6, <1>7, <1>8, <1>9, <1>10, <1>11, <1>12
       DEF UpdateNext, Reconcile, Broken

\* Type correctness of the tags and of the fields.
THEOREM UpdateTypeCorrect == UpdateSpec => []UpdateTypeOK
  <1>1. UpdateInit => UpdateTypeOK
    BY TypeInit, UpdatePassAssumption DEF UpdateInit, UpdateTypeOK
  <1>2. UpdateTypeOK /\ [UpdateNext]_updateVars => UpdateTypeOK'
    <2> SUFFICES ASSUME UpdateTypeOK, [UpdateNext]_updateVars PROVE UpdateTypeOK'
      OBVIOUS
    <2>1. TypeOK'
      <3>1. CASE [Next]_vars
        BY <3>1, TypeStep DEF UpdateTypeOK
      <3>2. CASE OutsideTags
        BY <3>2 DEF OutsideTags, UpdateTypeOK, TypeOK
      <3> QED BY <3>1, <3>2, StepOfTags
    <2>2. /\ body' \in Bodies
          /\ stored' \in Bodies \ Refused
          /\ step' \in {"idle", "get", "tags", "fields"}
          /\ want' \in Bodies
          /\ seen' \in Bodies
          /\ result' \in {"none", "ok", "error"}
      <3> USE DEF UpdateTypeOK
      <3>1. CASE Begin
        BY <3>1 DEF Begin
      <3>2. CASE GetFields
        BY <3>2, UpdatePassAssumption DEF GetFields
      <3>3. CASE SyncTags
        <4>1. CASE pc' = "idle"
          <5>1. outcome' \in {"none", "ok", "error"}
            BY <2>1 DEF TypeOK
          <5> QED BY <3>3, <4>1, <5>1 DEF SyncTags, AfterTags, End
        <4>2. CASE pc' # "idle"
          BY <3>3, <4>2 DEF SyncTags
        <4> QED BY <4>1, <4>2
      <3>4. CASE UpdateFields \/ UpdateRefused \/ UpdateFails
        BY <3>4 DEF UpdateFields, UpdateRefused, UpdateFails, End
      <3>5. CASE GetFieldsFails \/ Die
        BY <3>5 DEF GetFieldsFails, Die, End
      <3>6. CASE TagEdit
        BY <3>6 DEF TagEdit, fieldVars
      <3>7. CASE BodyEdit \/ OtherUpdate
        BY <3>7 DEF BodyEdit, OtherUpdate
      <3>8. CASE UNCHANGED updateVars
        BY <3>8 DEF updateVars, fieldVars
      <3> QED
        BY <3>1, <3>2, <3>3, <3>4, <3>5, <3>6, <3>7, <3>8
           DEF UpdateNext, Reconcile, Broken
    <2> QED BY <2>1, <2>2 DEF UpdateTypeOK
  <1> QED BY <1>1, <1>2, PTL DEF UpdateSpec

\* A step outside the tags cannot undo what the tag half has reached.
LEMMA OutsideKeepsPass ==
    ASSUME PassInv, OutsideTags PROVE PassInv'
  <1>1. Requests' = Requests /\ (Blind => Blind') /\ Present(desired)' = Present(desired)
    BY DEF OutsideTags, Requests, Blind, Present
  <1> QED BY <1>1 DEF OutsideTags, PassInv

\* Where the pass is in the tag half, and what it leaves alone there.
LEMMA TagHalfStep ==
    ASSUME SyncTags
    PROVE  UNCHANGED <<disturbed, stored, want, seen>>
  BY DEF SyncTags, Answered, ReadTags, UntagResource, TagResource, TagRefused,
         ReadTagsFails, UntagFails, TagFails

\* Either half keeps the other's place.
LEMMA HalvesStep ==
    ASSUME UpdateTypeOK, HalvesInv, [UpdateNext]_updateVars
    PROVE  HalvesInv'
  <1> USE DEF HalvesInv, InGlue
  <1>1. CASE Begin
    BY <1>1 DEF Begin, StartPass
  <1>2. CASE GetFields
    BY <1>2 DEF GetFields, vars, UpdateTypeOK, TypeOK
  <1>3. CASE SyncTags
    <2>1. CASE pc' = "idle"
      BY <1>3, <2>1, TagHalfStep DEF SyncTags, AfterTags, End
    <2>2. CASE pc' # "idle"
      BY <1>3, <2>2, TagHalfStep DEF SyncTags
    <2> QED BY <2>1, <2>2
  <1>4. CASE UpdateFields
    BY <1>4 DEF UpdateFields, End, vars
  <1>5. CASE UpdateRefused
    BY <1>5 DEF UpdateRefused, End, vars
  <1>6. CASE GetFieldsFails
    BY <1>6 DEF GetFieldsFails, Crash, Finish, End
  <1>7. CASE UpdateFails
    BY <1>7 DEF UpdateFails, End
  <1>8. CASE Die
    BY <1>8 DEF Die, Crash, Finish, End
  <1>9. CASE TagEdit
    BY <1>9 DEF TagEdit, UserEdit, OtherWrite, fieldVars
  <1>10. CASE BodyEdit
    BY <1>10 DEF BodyEdit
  <1>11. CASE OtherUpdate
    BY <1>11 DEF OtherUpdate
  <1>12. CASE UNCHANGED updateVars
    BY <1>12 DEF updateVars, vars, fieldVars
  <1> QED
    BY <1>1, <1>2, <1>3, <1>4, <1>5, <1>6, <1>7, <1>8, <1>9, <1>10, <1>11, <1>12
       DEF UpdateNext, Reconcile, Broken

LEMMA HalvesInvariant == UpdateSpec => [](PassInv /\ HalvesInv)
  <1>1. UpdateInit => PassInv /\ HalvesInv
    BY PassInit DEF UpdateInit, Init, HalvesInv
  <1>2. UpdateTypeOK /\ PassInv /\ HalvesInv /\ [UpdateNext]_updateVars
            => PassInv' /\ HalvesInv'
    <2> SUFFICES ASSUME UpdateTypeOK, PassInv, HalvesInv, [UpdateNext]_updateVars
                 PROVE  PassInv' /\ HalvesInv'
      OBVIOUS
    <2>1. CASE [Next]_vars
      BY <2>1, PassStep, HalvesStep DEF UpdateTypeOK
    <2>2. CASE OutsideTags
      BY <2>2, OutsideKeepsPass, HalvesStep
    <2> QED BY <2>1, <2>2, StepOfTags
  <1> QED BY <1>1, <1>2, UpdateTypeCorrect, PTL DEF UpdateSpec

\* A pass that nobody disturbs and that ends without an error has done both
\* halves: sdkUpdate writes the fields only after syncTags has succeeded, and
\* returns without writing them only when they do not differ.
THEOREM SuccessIsBoth == UpdateSpec => []SuccessMeansBoth
  <1>1. UpdateTypeOK /\ PassInv /\ HalvesInv => SuccessMeansBoth
    <2> SUFFICES ASSUME UpdateTypeOK, PassInv, HalvesInv,
                        step = "idle", result = "ok", ~disturbed
                 PROVE  /\ InGlue(want)
                        /\ \A k \in Keys \ AWSKeys :
                              ReportsReadErrors \/ desired[k] # Absent
                                  => awsTags[k] = desired[k]
      BY DEF SuccessMeansBoth
    <2>1. InGlue(want) /\ outcome = "ok" /\ pc = "idle"
      BY DEF HalvesInv
    <2>2. CASE awsTags = desired
      BY <2>1, <2>2
    <2>3. CASE Blind /\ \A k \in Present(desired) : awsTags[k] = desired[k]
      BY <2>1, <2>3 DEF Blind, Present
    <2> QED BY <2>1, <2>2, <2>3 DEF PassInv
  <1> QED BY <1>1, HalvesInvariant, UpdateTypeCorrect, PTL

\* A pass writes the fields only when its tag half has ended without an error (the
\* early returns of sdkUpdate after syncTags).
THEOREM TagsComeFirst ==
    UpdateSpec => [][stored' # stored /\ step' # step
                        => step = "fields" /\ outcome = "ok"]_updateVars
  <1>1. HalvesInv /\ [UpdateNext]_updateVars
            => [stored' # stored /\ step' # step
                    => step = "fields" /\ outcome = "ok"]_updateVars
    <2> SUFFICES ASSUME HalvesInv, UpdateNext, stored' # stored, step' # step
                 PROVE  step = "fields" /\ outcome = "ok"
      OBVIOUS
    <2>1. UpdateFields \/ UpdateFails
      BY DEF UpdateNext, Reconcile, Broken, Begin, GetFields, GetFieldsFails, SyncTags,
             UpdateRefused, Die, TagEdit, BodyEdit, OtherUpdate, fieldVars
    <2>2. step = "fields"
      BY <2>1 DEF UpdateFields, UpdateFails
    <2> QED BY <2>2 DEF HalvesInv
  <1> QED BY <1>1, HalvesInvariant, PTL DEF UpdateSpec

\* With reads and writes of the fields around it, a pass still keeps what
\* TagPromise says of the tags, whatever becomes of the fields.
THEOREM PromiseKeptInUpdates == UpdateSpec => KeepsPromise
  <1>1. UpdateInit => Promise!Init
    BY PromiseInit DEF UpdateInit
  <1>2. UpdateTypeOK /\ UpdateTypeOK' /\ [UpdateNext]_updateVars
            => [Promise!Next]_(Promise!vars)
    <2> SUFFICES ASSUME UpdateTypeOK, UpdateTypeOK', [UpdateNext]_updateVars
                 PROVE  [Promise!Next]_(Promise!vars)
      OBVIOUS
    <2>1. CASE [Next]_vars
      BY <2>1, PromiseStep DEF UpdateTypeOK
    <2>2. CASE OutsideTags
      <3>1. Requests' = Requests
        BY <2>2 DEF OutsideTags, Requests
      <3>2. CASE edits' = edits
        BY <2>2, <3>1, <3>2 DEF OutsideTags, Promise!vars
      <3>3. CASE edits' = edits + 1
        <4>1. Promise!Others
          BY <2>2, <3>1, <3>3
             DEF OutsideTags, Promise!Others, UpdateTypeOK, TypeOK, ACKTags,
                 Promise!ACKTags
        <4> QED BY <4>1 DEF Promise!Next
      <3> QED BY <2>2, <3>2, <3>3 DEF OutsideTags
    <2> QED BY <2>1, <2>2, StepOfTags
  <1> QED BY <1>1, <1>2, UpdateTypeCorrect, PTL
          DEF UpdateSpec, KeepsPromise, Promise!Spec

\* The promises of TagSync about single requests hold with the fields around it: no
\* request touches a tag AWS owns, no step drops a key that is wanted, and what is
\* removed has been read (syncTags as sdkUpdate calls it).
THEOREM RequestsKeptInUpdates ==
    UpdateSpec => []SystemTagsUntouched /\ NeverDropsWantedKey /\ RemovesOnlyObserved
  <1>1. UpdateTypeOK /\ PassInv => SystemTagsUntouched
    BY PassSparesSystemTags DEF UpdateTypeOK
  <1>2. UpdateTypeOK /\ [UpdateNext]_updateVars =>
            [pc' # pc =>
                \A k \in Keys :
                    (awsTags[k] # Absent /\ desired[k] # Absent)
                        => awsTags'[k] # Absent]_vars
    <2> SUFFICES ASSUME UpdateTypeOK, [UpdateNext]_updateVars, vars' # vars, pc' # pc,
                        NEW k \in Keys, awsTags[k] # Absent, desired[k] # Absent
                 PROVE  awsTags'[k] # Absent
      OBVIOUS
    <2>1. Next
      BY StepOfTags DEF OutsideTags
    <2> QED BY <2>1, StepRemoves DEF UpdateTypeOK
  <1>3. UpdateTypeOK /\ SystemTagsUntouched /\ [UpdateNext]_updateVars =>
            [pc' # pc =>
                \A k \in Keys :
                    (awsTags[k] # Absent /\ awsTags'[k] = Absent) =>
                        latest[k] # Absent /\ k \notin AWSKeys]_vars
    <2> SUFFICES ASSUME UpdateTypeOK, SystemTagsUntouched, [UpdateNext]_updateVars,
                        vars' # vars, pc' # pc,
                        NEW k \in Keys, awsTags[k] # Absent, awsTags'[k] = Absent
                 PROVE  latest[k] # Absent /\ k \notin AWSKeys
      OBVIOUS
    <2>1. Next
      BY StepOfTags DEF OutsideTags
    <2> QED BY <2>1, StepRemovesObserved DEF UpdateTypeOK
  <1> QED BY <1>1, <1>2, <1>3, HalvesInvariant, UpdateTypeCorrect, PTL
          DEF UpdateSpec, NeverDropsWantedKey, RemovesOnlyObserved

\* A pass whose fields are refused has written its tags all the same: what keeps the
\* rest of the specification out of Glue does not hold up the tags (syncTags comes
\* before newUpdateRequestPayload); the safety half of TagsReachGlue.
THEOREM RefusedFieldsKeepTags ==
    UpdateSpec => [][(UpdateRefused \/ UpdateFails) /\ ~disturbed
                        => \A k \in Keys \ AWSKeys :
                               ReportsReadErrors \/ desired[k] # Absent
                                   => awsTags[k] = desired[k]]_updateVars
  <1>1. ASSUME UpdateTypeOK, PassInv, HalvesInv, UpdateRefused \/ UpdateFails, ~disturbed,
               NEW k \in Keys \ AWSKeys, ReportsReadErrors \/ desired[k] # Absent
        PROVE  awsTags[k] = desired[k]
    <2>1. step = "fields"
      BY <1>1 DEF UpdateRefused, UpdateFails
    <2>2. \/ awsTags = desired
          \/ Blind /\ \A i \in Present(desired) : awsTags[i] = desired[i]
      BY <1>1, <2>1 DEF HalvesInv, PassInv
    <2> QED BY <1>1, <2>2 DEF Blind, Present
  <1>2. UpdateTypeOK /\ PassInv /\ HalvesInv /\ [UpdateNext]_updateVars
            => [(UpdateRefused \/ UpdateFails) /\ ~disturbed
                   => \A k \in Keys \ AWSKeys :
                          ReportsReadErrors \/ desired[k] # Absent
                              => awsTags[k] = desired[k]]_updateVars
    BY <1>1
  <1> QED BY <1>2, HalvesInvariant, UpdateTypeCorrect, PTL DEF UpdateSpec

\* How much of a pass is ahead.
UpdateAhead ==
    CASE step = "get" -> 5
      [] step = "tags" -> (CASE pc = "read" -> 4 [] pc = "untag" -> 3 [] OTHER -> 2)
      [] step = "fields" -> 1
      [] OTHER -> 0

\* No pass goes on for ever or turns back: every step of the reconciler but a pass's
\* first has less of the pass ahead of it, whatever the calls answer, and nobody else's
\* step lengthens a pass (sdkFind, then sdkUpdate).
UpdatePassesEnd ==
    [][/\ ((Reconcile \/ Broken) /\ step # "idle") => UpdateAhead' < UpdateAhead
       /\ (TagEdit \/ BodyEdit \/ OtherUpdate) => UpdateAhead' = UpdateAhead]_updateVars

THEOREM UpdatesEnd == UpdateSpec => UpdatePassesEnd
  <1>1. ASSUME UpdateTypeOK, HalvesInv, Reconcile \/ Broken, step # "idle"
        PROVE  UpdateAhead' < UpdateAhead
    <2>1. CASE GetFields \/ GetFieldsFails
      <3>1. step = "get" /\ pc' \in {"read", "idle"} /\ step' \in {"tags", "idle"}
            /\ (step' = "tags" => pc' = pc) /\ pc = "read"
        BY <1>1, <2>1 DEF GetFields, GetFieldsFails, Crash, Finish, End, vars, HalvesInv
      <3> QED BY <3>1 DEF UpdateAhead
    <2>2. CASE SyncTags
      <3>1. /\ step = "tags"
            /\ pc' # "idle" => step' = "tags"
            /\ pc' = "idle" => step' \in {"idle", "fields"}
        BY <2>2 DEF SyncTags, AfterTags, End
      <3>2. /\ pc = "read" => pc' \in {"untag", "idle"}
            /\ pc = "untag" => pc' \in {"tag", "idle"}
            /\ pc = "tag" => pc' = "idle"
        BY <2>2 DEF SyncTags, Answered, ReadTags, UntagResource, TagResource, TagRefused,
           ReadTagsFails, UntagFails, TagFails, Observe, Finish
      <3>3. pc \in {"read", "untag", "tag"}
        BY <1>1, <3>1 DEF HalvesInv, UpdateTypeOK, TypeOK
      <3> QED BY <3>1, <3>2, <3>3 DEF UpdateAhead
    <2>3. CASE UpdateFields \/ UpdateRefused \/ UpdateFails
      <3>1. step = "fields" /\ step' = "idle"
        BY <2>3 DEF UpdateFields, UpdateRefused, UpdateFails, End
      <3> QED BY <3>1 DEF UpdateAhead
    <2>4. CASE Die
      <3>1. step = "tags" /\ step' = "idle"
        BY <2>4 DEF Die, End
      <3> QED BY <3>1 DEF UpdateAhead
    <2> QED BY <1>1, <2>1, <2>2, <2>3, <2>4 DEF Reconcile, Broken, Begin
  <1>2. ASSUME TagEdit \/ BodyEdit \/ OtherUpdate
        PROVE  UpdateAhead' = UpdateAhead
    <2>1. pc' = pc /\ step' = step
      BY <1>2 DEF TagEdit, BodyEdit, OtherUpdate, UserEdit, OtherWrite, fieldVars
    <2> QED BY <2>1 DEF UpdateAhead
  <1> QED BY <1>1, <1>2, HalvesInvariant, UpdateTypeCorrect, PTL
          DEF UpdateSpec, UpdatePassesEnd

\* A resource that is in step is left alone: a pass that reads the tags and the body it
\* wants, AWS's own tags beside them, ends there as a success without a request (the
\* delta is empty and sdkUpdate is not called); the safety half of ComesToRest.
InStepRests ==
    [][(/\ SyncTags /\ ReadTags /\ want = seen
        /\ \A k \in Keys :
              awsTags[k] = desired[k] \/ (k \in AWSKeys /\ awsTags[k] # Absent))
       => step' = "idle" /\ result' = "ok" /\ UNCHANGED <<awsTags, stored>>]_updateVars

THEOREM InStepIsLeftAlone == UpdateSpec => InStepRests
  <1>1. ASSUME UpdateTypeOK, SyncTags, ReadTags, want = seen,
               \A k \in Keys :
                   awsTags[k] = desired[k] \/ (k \in AWSKeys /\ awsTags[k] # Absent)
        PROVE  step' = "idle" /\ result' = "ok" /\ UNCHANGED <<awsTags, stored>>
    <2>1. pc' = "idle" /\ outcome' = "ok" /\ awsTags' = awsTags
      BY <1>1, InSyncReading DEF UpdateTypeOK
    <2> QED BY <1>1, <2>1 DEF SyncTags, AfterTags, End
  <1> QED BY <1>1, UpdateTypeCorrect, PTL DEF UpdateSpec, InStepRests

-----------------------------------------------------------------------------
\* The history of a pass of both halves: nothing failed and nobody edited the custom
\* resource since it began.
UpdateRemember ==
    clean' = IF step = "idle" /\ step' # "idle" THEN TRUE
             ELSE clean /\ faults' = faults /\ specTags' = specTags /\ body' = body

CleanUpdateVars == <<updateVars, clean>>

CleanUpdateSpec ==
    UpdateInit /\ clean = FALSE /\ [][UpdateNext /\ UpdateRemember]_CleanUpdateVars

\* What such a pass is enough for: the wanted tags, and unless it is refused the body.
CleanUpdateSettles ==
    (step = "idle" /\ clean /\ ~disturbed /\ AskedIsAllowed) =>
        /\ \A k \in Keys \ AWSKeys : awsTags[k] = Wanted[k]
        /\ body \notin Refused => InGlue(body) /\ result = "ok"

\* The tag half is as far as CleanInv says; the pass works from the current body and has
\* written it if its tag half ended without an error.
CleanUpdateInv ==
    /\ CleanInv
    /\ clean => want = body
    /\ clean /\ ~disturbed /\ step = "idle" /\ outcome = "ok" =>
          body \in Refused \/ (InGlue(body) /\ result = "ok")

\* In such a pass the tag half takes a step such as TagPassProofs has, or rests.
LEMMA CleanUpdateSteps ==
    ASSUME UpdateTypeOK, HalvesInv, UpdateNext, UpdateRemember, clean'
    PROVE  \/ Begin
           \/ clean /\ body' = body
                /\ (GetFields \/ SyncTags \/ UpdateFields \/ UpdateRefused
                       \/ (TagEdit /\ OtherWrite) \/ OtherUpdate)
  <1> USE DEF UpdateTypeOK, TypeOK
  <1>1. CASE Begin
    BY <1>1
  <1>2. CASE Broken
    <2>1. faults' = faults + 1 /\ step # "idle"
      BY <1>2 DEF Broken, GetFieldsFails, UpdateFails, Die, Crash, Fault
    <2>2. faults' # faults
      BY <2>1, TagSyncAssumption
    <2> QED BY <2>1, <2>2 DEF UpdateRemember
  <1>3. CASE TagEdit
    <2>1. step' = step /\ body' = body
      BY <1>3 DEF TagEdit, fieldVars
    <2>2. specTags' = specTags
      BY <2>1 DEF UpdateRemember
    <2>3. ~UserEdit
      BY <2>2, TagSyncAssumption DEF UserEdit, SpecTags
    <2> QED BY <1>3, <2>1, <2>3 DEF TagEdit, UpdateRemember
  <1>4. CASE BodyEdit
    BY <1>4 DEF BodyEdit, UpdateRemember
  <1>5. CASE GetFields \/ SyncTags \/ UpdateFields \/ UpdateRefused \/ OtherUpdate
    BY <1>5 DEF UpdateRemember, GetFields, SyncTags, UpdateFields, UpdateRefused,
       OtherUpdate
  <1> QED BY <1>1, <1>2, <1>3, <1>4, <1>5 DEF UpdateNext, Reconcile

\* The tag half's part of the invariant is inherited from TagPassProofs.
LEMMA CleanTagsInUpdate ==
    ASSUME UpdateTypeOK, HalvesInv, CleanInv, UpdateNext, UpdateRemember
    PROVE  CleanInv'
  <1>1. CASE ~clean'
    BY <1>1 DEF CleanInv
  <1>2. CASE clean' /\ Begin
    <2>1. Next /\ Remember
      BY <1>2 DEF Begin, StartPass, Next, Remember
    <2> QED BY <2>1, CleanStep DEF UpdateTypeOK
  <1>3. CASE clean /\ clean' /\ (GetFields \/ UpdateFields \/ UpdateRefused)
    <2>1. UNCHANGED CleanVars
      BY <1>3 DEF GetFields, UpdateFields, UpdateRefused, CleanVars
    <2> QED BY <2>1, CleanStep DEF UpdateTypeOK
  <1>4. CASE clean /\ clean' /\ SyncTags
    <2>1. step = "tags" /\ pc # "idle" /\ Next
      BY <1>4 DEF SyncTags, HalvesInv, Next, Failed
    <2>2. Remember
      BY <1>4, <2>1 DEF UpdateRemember, Remember
    <2> QED BY <2>1, <2>2, CleanStep DEF UpdateTypeOK
  <1>5. CASE clean /\ clean' /\ TagEdit /\ OtherWrite
    <2>1. Next /\ step' = step /\ pc' = pc
      BY <1>5 DEF TagEdit, fieldVars, OtherWrite, Next
    <2>2. Remember
      BY <1>5, <2>1 DEF UpdateRemember, Remember
    <2> QED BY <2>1, <2>2, CleanStep DEF UpdateTypeOK
  <1>6. CASE clean /\ clean' /\ OtherUpdate
    <2>1. disturbed' /\ Wanted' = Wanted /\ UNCHANGED <<pc, desired, latest>>
      BY <1>6 DEF OtherUpdate, Wanted
    <2> QED BY <1>6, <2>1 DEF CleanInv
  <1> QED BY <1>1, <1>2, <1>3, <1>4, <1>5, <1>6, CleanUpdateSteps

LEMMA CleanUpdateStep ==
    ASSUME UpdateTypeOK, HalvesInv, CleanUpdateInv,
           [UpdateNext /\ UpdateRemember]_CleanUpdateVars
    PROVE  CleanUpdateInv'
  <1> USE DEF InGlue
  <1>1. CASE UNCHANGED CleanUpdateVars
    <2>1. UNCHANGED CleanVars /\ UNCHANGED fieldVars
      BY <1>1 DEF CleanUpdateVars, updateVars, CleanVars
    <2>2. CleanInv'
      BY <2>1, CleanStep DEF UpdateTypeOK, CleanUpdateInv
    <2> QED BY <2>1, <2>2 DEF CleanUpdateInv, CleanVars, vars, fieldVars
  <1>2. CASE UpdateNext /\ UpdateRemember
    <2>1. CleanInv'
      BY <1>2, CleanTagsInUpdate DEF CleanUpdateInv
    <2>2. ASSUME clean'
          PROVE  want' = body'
      <3>1. CASE Begin
        BY <3>1 DEF Begin
      <3>2. CASE clean /\ body' = body /\ ~Begin
        <4>1. want' = want
          BY <1>2, <2>2, <3>2, CleanUpdateSteps
             DEF GetFields, SyncTags, UpdateFields, UpdateRefused, TagEdit, fieldVars,
                 OtherUpdate
        <4> QED BY <3>2, <4>1 DEF CleanUpdateInv
      <3> QED BY <1>2, <2>2, <3>1, <3>2, CleanUpdateSteps
    <2>3. ASSUME clean', ~disturbed', step' = "idle", outcome' = "ok"
          PROVE  body' \in Refused \/ (InGlue(body)' /\ result' = "ok")
      <3>1. clean /\ body' = body /\ want = body
            /\ (GetFields \/ SyncTags \/ UpdateFields \/ UpdateRefused
                   \/ (TagEdit /\ OtherWrite) \/ OtherUpdate)
        BY <1>2, <2>3, CleanUpdateSteps DEF CleanUpdateInv, Begin
      <3>2. CASE SyncTags
        <4>1. pc' = "idle" /\ step = "tags"
          BY <2>3, <3>2 DEF SyncTags
        <4>2. want = seen /\ result' = "ok"
          BY <2>3, <3>2, <4>1 DEF SyncTags, AfterTags, End
        <4>3. seen = Observed[stored] /\ stored' = stored
          BY <2>3, <3>2, <4>1, TagHalfStep DEF HalvesInv
        <4> QED BY <3>1, <4>2, <4>3
      <3>3. CASE UpdateFields
        BY <3>1, <3>3 DEF UpdateFields, End
      <3>4. CASE UpdateRefused
        BY <3>1, <3>4 DEF UpdateRefused
      <3>5. CASE GetFields \/ (TagEdit /\ OtherWrite) \/ OtherUpdate
        BY <2>3, <3>5 DEF GetFields, OtherWrite, OtherUpdate
      <3> QED BY <3>1, <3>2, <3>3, <3>4, <3>5
    <2> QED BY <2>1, <2>2, <2>3 DEF CleanUpdateInv
  <1> QED BY <1>1, <1>2

\* One pass that meets no failure and nobody disturbs brings both halves into Glue, the
\* tags also when the body is refused; the safety half of TagsReachGlue and of
\* FieldsReachGlue (sdkFind, sdkUpdate).
THEOREM CleanUpdateIsEnough == CleanUpdateSpec => []CleanUpdateSettles
  <1>1. CleanUpdateSpec => UpdateSpec
    <2>1. [UpdateNext /\ UpdateRemember]_CleanUpdateVars => [UpdateNext]_updateVars
      BY DEF CleanUpdateVars
    <2> QED BY <2>1, PTL DEF CleanUpdateSpec, UpdateSpec
  <1>2. UpdateInit /\ clean = FALSE => CleanUpdateInv
    BY DEF CleanUpdateInv, CleanInv
  <1>3. UpdateTypeOK /\ HalvesInv /\ CleanUpdateInv => CleanUpdateSettles
    <2> SUFFICES ASSUME UpdateTypeOK, HalvesInv, CleanUpdateInv,
                        step = "idle", clean, ~disturbed, AskedIsAllowed
                 PROVE  /\ \A k \in Keys \ AWSKeys : awsTags[k] = Wanted[k]
                        /\ body \notin Refused => InGlue(body) /\ result = "ok"
      BY DEF CleanUpdateSettles
    <2>1. outcome = "ok" /\ \A k \in Keys \ AWSKeys : awsTags[k] = Wanted[k]
      BY CleanSyncs DEF UpdateTypeOK, HalvesInv, CleanUpdateInv, CleanPassSyncs
    <2> QED BY <2>1 DEF CleanUpdateInv
  <1> QED BY <1>1, <1>2, <1>3, CleanUpdateStep, HalvesInvariant, UpdateTypeCorrect, PTL
          DEF CleanUpdateSpec
=================================================================================
