---------------------------- MODULE ControllerProofs -----------------------------
(*****************************************************************************)
(* Controller for every set of identities and bodies, and every number of     *)
(* edits and failures.                                                        *)
(*****************************************************************************)
EXTENDS Controller, TLAPS

LEMMA ConditionTypes ==
    ASSUME NEW c \in Conditions, NEW e \in CallErrors
    PROVE  /\ onError(c, e).cond \in Conditions
           /\ onError(c, e).err \in PassErrors
           /\ onSuccess(c) \in Conditions
  <1>1. \A s \in ConditionStatus : Cleared(s) \in ConditionStatus
    BY DEF Cleared, ConditionStatus
  <1>2. \A f \in CallErrors : updateConditions(c, f) \in Conditions
    <2> SUFFICES ASSUME NEW f \in CallErrors
                 PROVE  updateConditions(c, f) \in Conditions
      OBVIOUS
    <2>1. c.terminal \in ConditionStatus /\ c.recoverable \in ConditionStatus
      BY DEF Conditions
    <2>2. "True" \in ConditionStatus
      BY DEF ConditionStatus
    <2>3. [c EXCEPT !.terminal = "True"] \in Conditions
      BY <2>2 DEF Conditions
    <2>4. [terminal    |-> Cleared(c.terminal),
           recoverable |-> IF f = "none" THEN Cleared(c.recoverable) ELSE "True"]
              \in Conditions
      BY <1>1, <2>1, <2>2 DEF Conditions
    <2> QED BY <2>3, <2>4 DEF updateConditions
  <1>3. "none" \in CallErrors
    BY DEF CallErrors
  <1>4. onSuccess(c) \in Conditions
    BY <1>2, <1>3 DEF onSuccess
  <1>5. onError(c, e).cond \in Conditions
    BY <1>2 DEF onError
  <1>6. onError(c, e).err \in PassErrors
    BY DEF onError, PassErrors
  <1> QED BY <1>4, <1>5, <1>6

\* Where a specification designates a resource.
LEMMA PlaceType ==
    \A s \in Specs : IdOf(s) \in Ids
  BY ControllerAssumption DEF Specs, IdOf, Place

\* Ending a step with the outcome of a failed call keeps the types.
LEMMA EndType ==
    ASSUME TypeOK, NEW e \in CallErrors, NEW step \in Steps,
           EndVia(step, onError(cond, e))
    PROVE  pc' \in Steps /\ cond' \in Conditions /\ err' \in PassErrors
  BY ConditionTypes DEF TypeOK, EndVia

LEMMA FaultType ==
    ASSUME TypeOK, Fault PROVE faults' \in 0..MaxFaults /\ clean' \in BOOLEAN
  <1>1. faults' \in 0..MaxFaults
    BY ControllerAssumption DEF TypeOK, Fault
  <1>2. clean' \in BOOLEAN
    BY Zenon DEF Fault
  <1> QED BY <1>1, <1>2

\* The same for a failed call.
LEMMA CallFailsType ==
    ASSUME TypeOK, NEW e, CallFails(cond, e)
    PROVE  /\ pc' = "publish" /\ cond' \in Conditions /\ err' \in PassErrors
           /\ faults' \in 0..MaxFaults /\ clean' \in BOOLEAN
  <1>1. e \in CallErrors
    BY DEF CallFails, CallErrors
  <1>2. "publish" \in Steps
    BY DEF Steps
  <1> QED BY <1>1, <1>2, EndType, FaultType DEF CallFails, End, EndVia

\* Type correctness.
THEOREM TypeCorrect == Spec => []TypeOK
  <1>1. Init => TypeOK
    <2> SUFFICES ASSUME Init PROVE TypeOK
      OBVIOUS
    <2>1. 0 \in 0..MaxEdits /\ 0 \in 0..MaxFaults
      BY ControllerAssumption
    <2>2. spec \in Specs
      BY ControllerAssumption DEF Init, Specs
    <2>3. NoConditions \in Conditions
      BY DEF NoConditions, Conditions, ConditionStatus
    <2> QED BY <2>1, <2>2, <2>3 DEF Init, TypeOK, Steps, PassErrors, CallErrors
  <1>2. TypeOK /\ [Next]_vars => TypeOK'
    <2> SUFFICES ASSUME TypeOK, [Next]_vars PROVE TypeOK'
      OBVIOUS
    <2>0. /\ Target \in Ids
          /\ IdOf(latest) \in Ids
          /\ \A s \in Specs : glue[IdOf(s)] # NoBody => Observed(s) \in Specs
      BY PlaceType DEF TypeOK, Target, Observed, Specs
    <2>1. CASE StartPass
      BY <2>1 DEF StartPass, Goto, TypeOK, Steps, glueVars, crVars, counters
    <2>2. CASE ReadFinds
      <3>1. onSuccess(cond) \in Conditions
        BY ConditionTypes DEF TypeOK, CallErrors
      <3>2. [onSuccess(cond) EXCEPT !.terminal = "True"] \in Conditions
        BY <3>1 DEF Conditions, ConditionStatus
      <3>3. latest' \in Specs
        BY <2>0, <2>2 DEF ReadFinds, Target, TypeOK
      <3>4. pc' \in Steps /\ cond' \in Conditions /\ err' \in PassErrors
        BY <2>2, <3>1, <3>2 DEF ReadFinds, Goto, End, EndVia, TypeOK, Steps, PassErrors
      <3> QED
        BY <2>2, <3>3, <3>4 DEF ReadFinds, TypeOK, glueVars, crVars, counters
    <2>3. CASE ReadFindsNothing
      BY <2>3 DEF ReadFindsNothing, Goto, TypeOK, Steps, glueVars, crVars, counters
    <2>4. CASE ReadFails
      BY <2>4, CallFailsType DEF ReadFails, TypeOK, Steps, glueVars, crVars
    <2>5. CASE Manage
      BY <2>5 DEF Manage, Goto, End, EndVia, TypeOK, Steps, PassErrors, CallErrors,
         glueVars, counters
    <2>6. CASE Create
      <3>1. onSuccess(cond) \in Conditions
        BY ConditionTypes DEF TypeOK, CallErrors
      <3> QED BY <2>0, <2>6, <3>1 DEF Create, CreateEffect, Goto, TypeOK, Specs, Steps,
              crVars, counters
    <2>7. CASE CreateRefused
      <3>1. "InvalidInput" \in CallErrors /\ "OtherCode" \in CallErrors
            /\ "unmanage" \in Steps /\ "publish" \in Steps
        BY DEF CallErrors, Steps
      <3> QED BY <2>7, <3>1, EndType, FaultType DEF CreateRefused, CreateEnds, TypeOK,
              crVars, glueVars
    <2>8. CASE Unmanage
      BY <2>8 DEF Unmanage, RemoveFinalizer, Goto, TypeOK, Steps, glueVars, counters
    <2>9. CASE CreateUnencodable
      <3>1. "Range" \in CallErrors /\ "unmanage" \in Steps /\ "publish" \in Steps
        BY DEF CallErrors, Steps
      <3> QED BY <2>9, <3>1, EndType DEF CreateUnencodable, CreateEnds, TypeOK, crVars, glueVars,
              counters
    <2>10. CASE CreateAnswerLost
      <3>1. "Transport" \in CallErrors /\ "publish" \in Steps
        BY DEF CallErrors, Steps
      <3> QED BY <2>0, <2>10, <3>1, EndType, FaultType DEF CreateAnswerLost, CreateEffect,
              End, TypeOK, Specs, crVars, glueVars
    <2>11. CASE ReadBack
      <3>1. onSuccess(cond) \in Conditions
        BY ConditionTypes DEF TypeOK, CallErrors
      <3> QED BY <2>11, <3>1 DEF ReadBack, Goto, TypeOK, Steps, crVars, glueVars, counters
    <2>12. CASE ReadBackFails
      <3>1. "NotFound" \in CallErrors /\ "publish" \in Steps
        BY DEF CallErrors, Steps
      <3> QED BY <2>12, <3>1, EndType, CallFailsType DEF ReadBackFails, End, TypeOK,
              Steps, crVars, glueVars
    <2>13. CASE Update
      <3>1. onSuccess(cond) \in Conditions
        BY ConditionTypes DEF TypeOK, CallErrors
      <3> QED BY <2>0, <2>13, <3>1 DEF Update, Goto, TypeOK, Specs, Steps, crVars, counters
    <2>14. CASE UpdateRefused
      <3>1. /\ {"Range", "InvalidInput", "OtherCode"} \subseteq CallErrors
            /\ "publish" \in Steps
        BY DEF CallErrors, Steps
      <3> QED BY <2>14, <3>1, EndType DEF UpdateRefused, End, TypeOK, crVars, glueVars,
              counters
    <2>15. CASE UpdateFails
      <3>1. glue' \in [Ids -> Bodies \cup {NoBody}]
        BY <2>0, <2>15 DEF UpdateFails, TypeOK, Specs
      <3> QED BY <2>15, <3>1, CallFailsType DEF UpdateFails, TypeOK, Steps, crVars
    <2>16. CASE LateInitialize
      <3>1. latest' \in Specs
        BY <2>0, <2>16 DEF LateInitialize, TypeOK, Specs
      <3> QED BY <2>16, <3>1 DEF LateInitialize, Goto, TypeOK, Steps, crVars, glueVars,
              counters
    <2>17. CASE LateInitializeFails
      <3>1. \A e \in {"NotFound", "OtherCode", "Transport"} :
                onError(cond, e).err \in PassErrors
        BY ConditionTypes DEF TypeOK, CallErrors
      <3> QED BY <2>17, <3>1, FaultType DEF LateInitializeFails, End, EndVia, TypeOK, Steps,
              crVars, glueVars
    <2>18. CASE PatchSpec
      <3>1. spec' \in Specs
        BY <2>18 DEF PatchSpec, TypeOK, Specs
      <3> QED BY <2>18, <3>1 DEF PatchSpec, Goto, TypeOK, Steps, glueVars, passVars,
              counters
    <2>19. CASE DeleteReadFinds
      <3>1. onSuccess(cond) \in Conditions
        BY ConditionTypes DEF TypeOK, CallErrors
      <3> QED BY <2>0, <2>19, <3>1 DEF DeleteReadFinds, Goto, Target, TypeOK, Steps, crVars,
              glueVars, counters
    <2>20. CASE DeleteReadFindsNothing
      BY <2>20 DEF DeleteReadFindsNothing, Goto, TypeOK, Steps, crVars, glueVars, counters
    <2>21. CASE Delete
      BY <2>0, <2>21 DEF Delete, DeleteEffect, Goto, TypeOK, Steps, crVars, counters
    <2>22. CASE DeleteFails
      <3>1. "OtherCode" \in CallErrors /\ "publish" \in Steps
        BY DEF CallErrors, Steps
      <3>2. glue' \in [Ids -> Bodies \cup {NoBody}] /\ made' \subseteq Ids
        BY <2>0, <2>22 DEF DeleteFails, DeleteEffect, TypeOK, glueVars
      <3> QED BY <2>22, <3>1, <3>2, EndType, CallFailsType DEF DeleteFails, End, TypeOK,
              Steps, crVars
    <2>23. CASE Release
      BY <2>23 DEF Release, RemoveFinalizer, TypeOK, Steps, glueVars, passVars, counters
    <2>24. CASE Publish
      BY <2>24 DEF Publish, TypeOK, Steps, PassErrors, CallErrors, glueVars, counters
    <2>25. CASE Crash
      BY <2>25, FaultType DEF Crash, TypeOK, Steps, PassErrors, CallErrors, crVars, glueVars
    <2>26. CASE UserEdit
      <3>1. edits' \in 0..MaxEdits
        BY <2>26, ControllerAssumption DEF UserEdit, Edit, TypeOK
      <3>2. spec' \in Specs
        BY <2>26, ControllerAssumption DEF UserEdit, Specs
      <3> QED BY <2>26, <3>1, <3>2 DEF UserEdit, Edit, TypeOK, glueVars, passVars
    <2>27. CASE UserDelete
      <3>1. edits' \in 0..MaxEdits
        BY <2>27, ControllerAssumption DEF UserDelete, Edit, TypeOK
      <3> QED BY <2>27, <3>1 DEF UserDelete, Edit, TypeOK, glueVars, passVars
    <2>28. CASE OtherWrite
      <3>1. edits' \in 0..MaxEdits
        BY <2>28, ControllerAssumption DEF OtherWrite, Edit, TypeOK
      <3>2. glue' \in [Ids -> Bodies \cup {NoBody}] /\ made' \subseteq Ids
        BY <2>28 DEF OtherWrite, TypeOK, Acceptable
      <3> QED BY <2>28, <3>1, <3>2 DEF OtherWrite, Edit, TypeOK, crVars, passVars
    <2>30. CASE CreateResent
      <3>1. "OtherCode" \in CallErrors /\ "unmanage" \in Steps /\ "publish" \in Steps
        BY DEF CallErrors, Steps
      <3> QED BY <2>0, <2>30, <3>1, EndType, FaultType DEF CreateResent, CreateEffect,
              CreateEnds, TypeOK, Specs, crVars
    <2>29. CASE UNCHANGED vars
      BY <2>29 DEF vars, TypeOK, crVars, glueVars, passVars, counters
    <2> QED
      BY <2>1, <2>2, <2>3, <2>4, <2>5, <2>6, <2>7, <2>8, <2>9, <2>10, <2>11, <2>12,
         <2>13, <2>14, <2>15, <2>16, <2>17, <2>18, <2>19, <2>20, <2>21, <2>22, <2>23,
         <2>24, <2>25, <2>26, <2>27, <2>28, <2>29, <2>30
         DEF Next, Progress, Failure, Environment
  <1> QED BY <1>1, <1>2, PTL DEF Spec

\* The finalizer is on the custom resource whenever a pass is about to write.
LEMMA FinalizerInvariant == Spec => [](TypeOK /\ FinalizerInv)
  <1>1. Init => FinalizerInv
    BY DEF Init, FinalizerInv
  <1>2. TypeOK /\ FinalizerInv /\ [Next]_vars => FinalizerInv'
    <2> SUFFICES ASSUME TypeOK, FinalizerInv, [Next]_vars PROVE FinalizerInv'
      OBVIOUS
    <2> USE DEF TypeOK, FinalizerInv
    <2>1. CASE StartPass
      BY <2>1 DEF StartPass, Goto, crVars, glueVars, counters
    <2>2. CASE ReadFinds
      BY <2>2 DEF ReadFinds, Goto, End, EndVia, crVars, glueVars, counters
    <2>3. CASE ReadFindsNothing
      BY <2>3 DEF ReadFindsNothing, Goto, crVars, glueVars, counters
    <2>4. CASE ReadFails
      BY <2>4 DEF ReadFails, CallFails, End, EndVia, crVars, glueVars
    <2>5. CASE Manage
      BY <2>5 DEF Manage, Goto, End, EndVia, glueVars, counters
    <2>6. CASE Create
      BY <2>6 DEF Create, CreateEffect, Goto, crVars, counters
    <2>7. CASE CreateRefused
      BY <2>7 DEF CreateRefused, CreateEnds, EndVia, crVars, glueVars
    <2>8. CASE Unmanage
      BY <2>8 DEF Unmanage, RemoveFinalizer, Goto, glueVars, counters
    <2>9. CASE CreateUnencodable
      BY <2>9 DEF CreateUnencodable, CreateEnds, EndVia, crVars, glueVars, counters
    <2>10. CASE CreateAnswerLost
      BY <2>10 DEF CreateAnswerLost, CreateEffect, End, EndVia, crVars, glueVars
    <2>11. CASE ReadBack
      BY <2>11 DEF ReadBack, Goto, crVars, glueVars, counters
    <2>12. CASE ReadBackFails
      BY <2>12 DEF ReadBackFails, CallFails, End, EndVia, crVars, glueVars
    <2>13. CASE Update
      BY <2>13 DEF Update, Goto, crVars, counters
    <2>14. CASE UpdateRefused
      BY <2>14 DEF UpdateRefused, End, EndVia, crVars, glueVars, counters
    <2>15. CASE UpdateFails
      BY <2>15 DEF UpdateFails, CallFails, End, EndVia, crVars
    <2>16. CASE LateInitialize
      BY <2>16 DEF LateInitialize, Goto, crVars, glueVars, counters
    <2>17. CASE LateInitializeFails
      BY <2>17 DEF LateInitializeFails, End, EndVia, crVars, glueVars
    <2>18. CASE PatchSpec
      BY <2>18 DEF PatchSpec, Goto, glueVars, passVars, counters
    <2>19. CASE DeleteReadFinds
      BY <2>19 DEF DeleteReadFinds, Goto, crVars, glueVars, counters
    <2>20. CASE DeleteReadFindsNothing
      BY <2>20 DEF DeleteReadFindsNothing, Goto, crVars, glueVars, counters
    <2>21. CASE Delete
      BY <2>21 DEF Delete, DeleteEffect, Goto, crVars, counters
    <2>22. CASE DeleteFails
      BY <2>22 DEF DeleteFails, DeleteEffect, CallFails, End, EndVia, crVars, glueVars
    <2>23. CASE Release
      BY <2>23 DEF Release, RemoveFinalizer, glueVars, passVars, counters
    <2>24. CASE Publish
      BY <2>24 DEF Publish, glueVars, counters
    <2>25. CASE Crash
      BY <2>25 DEF Crash, crVars, glueVars
    <2>26. CASE UserEdit
      BY <2>26 DEF UserEdit, glueVars, passVars
    <2>27. CASE UserDelete
      BY <2>27 DEF UserDelete, glueVars, passVars
    <2>28. CASE OtherWrite
      BY <2>28 DEF OtherWrite, crVars, passVars
    <2>30. CASE CreateResent
      BY <2>30 DEF CreateResent, CreateEffect, CreateEnds, EndVia, crVars
    <2>29. CASE UNCHANGED vars
      BY <2>29 DEF vars, crVars, glueVars, passVars, counters
    <2> QED
      BY <2>1, <2>2, <2>3, <2>4, <2>5, <2>6, <2>7, <2>8, <2>9, <2>10, <2>11,
         <2>12, <2>13, <2>14, <2>15, <2>16, <2>17, <2>18, <2>19, <2>20, <2>21,
         <2>22, <2>23, <2>24, <2>25, <2>26, <2>27, <2>28, <2>29, <2>30
         DEF Next, Progress, Failure, Environment
  <1> QED BY <1>1, <1>2, TypeCorrect, PTL DEF Spec

\* No create, update or delete is reached without the finalizer, and no object that
\* lost it survives its deletion (MarkManaged comes before Create, MarkUnmanaged
\* after Delete).
THEOREM FinalizerHeld == Spec => []FinalizerInv
  BY FinalizerInvariant, PTL

\* Every write to Glue is made with the finalizer in place.
THEOREM WritesAreManaged == Spec => WritesOnlyManaged
  <1>1. TypeOK /\ FinalizerInv /\ [Next]_vars =>
            [pc' # pc => glue' = glue \/ (finalizer /\ crPhase # "gone")]_vars
    <2> SUFFICES ASSUME TypeOK, FinalizerInv, Next, pc' # pc, glue' # glue
                 PROVE  finalizer /\ crPhase # "gone"
      OBVIOUS
    <2>1. pc \in {"create", "update", "delete"}
      BY DEF Next, Progress, Failure, Environment, StartPass, ReadFinds,
         ReadFindsNothing, ReadFails, Manage, Create, CreateRefused, Unmanage,
         CreateUnencodable, CreateAnswerLost, CreateResent, ReadBack, ReadBackFails, Update,
         UpdateRefused, UpdateFails, LateInitialize, LateInitializeFails, PatchSpec,
         DeleteReadFinds, DeleteReadFindsNothing, Delete, DeleteFails, Release,
         Publish, Crash, UserEdit, UserDelete, OtherWrite, glueVars, passVars
    <2> QED BY <2>1 DEF TypeOK, FinalizerInv
  <1> QED BY <1>1, FinalizerInvariant, PTL DEF Spec, WritesOnlyManaged

\* A failed call ends the pass with an error.
LEMMA ErrorsEnd ==
    ASSUME NEW c \in Conditions
    PROVE  /\ onError(c, "NotFound").err # "none"
           /\ onError(c, "InvalidInput").err # "none"
           /\ onError(c, "OtherCode").err # "none"
           /\ onError(c, "Transport").err # "none"
           /\ onError(c, "Range").err # "none"
  BY DEF onError

\* Who made what, when users do not move the resource and no create request is
\* sent twice.
LEMMA OwnershipInvariant ==
    ASSUME StableIdentity, ~Resends
    PROVE  Spec => [](TypeOK /\ FinalizerInv /\ OwnershipInv)
  <1>1. Init => OwnershipInv
    BY DEF Init, OwnershipInv, StableIdentity, IdOf
  <1>2. TypeOK /\ FinalizerInv /\ OwnershipInv /\ [Next]_vars => OwnershipInv'
    <2> SUFFICES ASSUME TypeOK, FinalizerInv, OwnershipInv, [Next]_vars
                 PROVE  OwnershipInv'
      OBVIOUS
    <2> USE ControllerAssumption DEF TypeOK, OwnershipInv, IdOf, Place, Target, Specs
    <2>1. CASE StartPass
      BY <2>1 DEF StartPass, Goto, crVars, glueVars, counters
    <2>2. CASE ReadFinds
      BY <2>2 DEF ReadFinds, Goto, End, EndVia, crVars, glueVars, counters,
         Observed
    <2>3. CASE ReadFindsNothing
      BY <2>3 DEF ReadFindsNothing, Goto, crVars, glueVars, counters
    <2>4. CASE ReadFails
      BY <2>4 DEF ReadFails, CallFails, End, EndVia, crVars, glueVars
    <2>5. CASE Manage
      BY <2>5 DEF Manage, Goto, End, EndVia, glueVars, counters
    <2>6. CASE Create
      BY <2>6, PlaceType DEF Create, CreateEffect, Goto, crVars, counters,
         FinalizerInv, Acceptable
    <2>7. CASE CreateRefused
      BY <2>7 DEF CreateRefused, CreateEnds, EndVia, crVars, glueVars
    <2>8. CASE Unmanage
      BY <2>8 DEF Unmanage, RemoveFinalizer, Goto, glueVars, counters
    <2>9. CASE CreateUnencodable
      BY <2>9 DEF CreateUnencodable, CreateEnds, EndVia, crVars, glueVars, counters
    <2>10. CASE CreateAnswerLost
      BY <2>10, PlaceType DEF CreateAnswerLost, CreateEffect, End, EndVia, crVars,
         glueVars, FinalizerInv, Acceptable
    <2>11. CASE ReadBack
      BY <2>11 DEF ReadBack, Goto, crVars, glueVars, counters
    <2>12. CASE ReadBackFails
      BY <2>12 DEF ReadBackFails, CallFails, End, EndVia, crVars, glueVars
    <2>13. CASE Update
      BY <2>13 DEF Update, Goto, crVars, counters
    <2>14. CASE UpdateRefused
      BY <2>14 DEF UpdateRefused, End, EndVia, crVars, glueVars, counters
    <2>15. CASE UpdateFails
      BY <2>15 DEF UpdateFails, CallFails, End, EndVia, crVars
    <2>16. CASE LateInitialize
      BY <2>16 DEF LateInitialize, Goto, crVars, glueVars, counters
    <2>17. CASE LateInitializeFails
      BY <2>17 DEF LateInitializeFails, End, EndVia, crVars, glueVars
    <2>18. CASE PatchSpec
      BY <2>18 DEF PatchSpec, Goto, glueVars, passVars, counters
    <2>19. CASE DeleteReadFinds
      BY <2>19 DEF DeleteReadFinds, Goto, crVars, glueVars, counters, Observed
    <2>20. CASE DeleteReadFindsNothing
      BY <2>20 DEF DeleteReadFindsNothing, Goto, crVars, glueVars, counters
    <2>21. CASE Delete
      BY <2>21 DEF Delete, DeleteEffect, Goto, crVars, counters
    <2>22. CASE DeleteFails
      BY <2>22 DEF DeleteFails, DeleteEffect, CallFails, End, EndVia, crVars,
         glueVars
    <2>23. CASE Release
      BY <2>23 DEF Release, RemoveFinalizer, glueVars, passVars, counters
    <2>24. CASE Publish
      BY <2>24 DEF Publish, glueVars, counters
    <2>25. CASE Crash
      BY <2>25 DEF Crash, crVars, glueVars
    <2>26. CASE UserEdit
      BY <2>26 DEF UserEdit, glueVars, passVars
    <2>27. CASE UserDelete
      BY <2>27 DEF UserDelete, glueVars, passVars
    <2>28. CASE OtherWrite
      BY <2>28 DEF OtherWrite, crVars, passVars
    <2>30. CASE CreateResent
      BY <2>30 DEF CreateResent
    <2>29. CASE UNCHANGED vars
      BY <2>29 DEF vars, crVars, glueVars, passVars, counters
    <2> QED
      BY <2>1, <2>2, <2>3, <2>4, <2>5, <2>6, <2>7, <2>8, <2>9, <2>10, <2>11,
         <2>12, <2>13, <2>14, <2>15, <2>16, <2>17, <2>18, <2>19, <2>20, <2>21,
         <2>22, <2>23, <2>24, <2>25, <2>26, <2>27, <2>28, <2>29, <2>30
         DEF Next, Progress, Failure, Environment
  <1> QED BY <1>1, <1>2, FinalizerInvariant, PTL DEF Spec

\* At most one resource is the controller's: the one that every version of the
\* specification designates, and none when a pass is about to create it or to give
\* the finalizer up (createResource, deleteResource).
THEOREM OneResourceOwned ==
    ASSUME StableIdentity, ~Resends
    PROVE  Spec => []OwnershipInv
  BY OwnershipInvariant, PTL

\* Nothing is left behind in Glue, whatever fails and whenever the process dies.
THEOREM NothingOrphaned ==
    ASSUME StableIdentity, ~Resends
    PROVE  Spec => [](NoOrphan /\ NothingLeftBehind)
  <1>1. TypeOK /\ FinalizerInv /\ OwnershipInv => NoOrphan /\ NothingLeftBehind
    BY DEF TypeOK, FinalizerInv, OwnershipInv, NoOrphan, NothingLeftBehind
  <1> QED BY <1>1, OwnershipInvariant, PTL

\* What an undisturbed pass knows.
LEMMA AppliedInvariant == Spec => [](TypeOK /\ AppliedInv)
  <1>1. Init => AppliedInv
    BY DEF Init, AppliedInv, SyncedMeansApplied
  <1>2. TypeOK /\ AppliedInv /\ [Next]_vars => AppliedInv'
    <2> SUFFICES ASSUME TypeOK, AppliedInv, [Next]_vars PROVE AppliedInv'
      OBVIOUS
    <2> USE ControllerAssumption
        DEF TypeOK, AppliedInv, SyncedMeansApplied, IdOf, Place, Target, Specs
    <2>1. CASE StartPass
      BY <2>1 DEF StartPass, Goto, crVars, glueVars, counters
    <2>2. CASE ReadFinds
      BY <2>2 DEF ReadFinds, Goto, End, EndVia, crVars, glueVars, counters,
         Observed, Differs
    <2>3. CASE ReadFindsNothing
      BY <2>3 DEF ReadFindsNothing, Goto, crVars, glueVars, counters
    <2>4. CASE ReadFails
      BY <2>4, ErrorsEnd DEF ReadFails, CallFails, End, EndVia, crVars, glueVars
    <2>5. CASE Manage
      BY <2>5 DEF Manage, Goto, End, EndVia, glueVars, counters
    <2>6. CASE Create
      BY <2>6 DEF Create, CreateEffect, Goto, crVars, counters
    <2>7. CASE CreateRefused
      BY <2>7, ErrorsEnd DEF CreateRefused, CreateEnds, EndVia, crVars, glueVars
    <2>8. CASE Unmanage
      BY <2>8 DEF Unmanage, RemoveFinalizer, Goto, glueVars, counters
    <2>9. CASE CreateUnencodable
      BY <2>9, ErrorsEnd DEF CreateUnencodable, CreateEnds, EndVia, crVars, glueVars,
         counters
    <2>10. CASE CreateAnswerLost
      BY <2>10, ErrorsEnd DEF CreateAnswerLost, CreateEffect, End, EndVia, crVars,
         glueVars
    <2>11. CASE ReadBack
      BY <2>11 DEF ReadBack, Goto, crVars, glueVars, counters
    <2>12. CASE ReadBackFails
      BY <2>12 DEF ReadBackFails, CallFails, End, EndVia, crVars, glueVars
    <2>13. CASE Update
      BY <2>13 DEF Update, Goto, crVars, counters
    <2>14. CASE UpdateRefused
      BY <2>14, ErrorsEnd DEF UpdateRefused, End, EndVia, crVars, glueVars,
         counters
    <2>15. CASE UpdateFails
      BY <2>15, ErrorsEnd DEF UpdateFails, CallFails, End, EndVia, crVars
    <2>16. CASE LateInitialize
      BY <2>16 DEF LateInitialize, Goto, crVars, glueVars, counters
    <2>17. CASE LateInitializeFails
      BY <2>17 DEF LateInitializeFails, End, EndVia, crVars, glueVars
    <2>18. CASE PatchSpec
      BY <2>18 DEF PatchSpec, Goto, glueVars, passVars, counters
    <2>19. CASE DeleteReadFinds
      BY <2>19 DEF DeleteReadFinds, Goto, crVars, glueVars, counters, Observed
    <2>20. CASE DeleteReadFindsNothing
      BY <2>20 DEF DeleteReadFindsNothing, Goto, crVars, glueVars, counters
    <2>21. CASE Delete
      BY <2>21 DEF Delete, DeleteEffect, Goto, crVars, counters
    <2>22. CASE DeleteFails
      BY <2>22, ErrorsEnd DEF DeleteFails, DeleteEffect, CallFails, End, EndVia,
         crVars, glueVars
    <2>23. CASE Release
      BY <2>23 DEF Release, RemoveFinalizer, glueVars, passVars, counters
    <2>24. CASE Publish
      BY <2>24 DEF Publish, glueVars, counters
    <2>25. CASE Crash
      BY <2>25 DEF Crash, crVars, glueVars
    <2>26. CASE UserEdit
      BY <2>26 DEF UserEdit, glueVars, passVars, Edit
    <2>27. CASE UserDelete
      BY <2>27 DEF UserDelete, glueVars, passVars, Edit
    <2>28. CASE OtherWrite
      BY <2>28 DEF OtherWrite, crVars, passVars, Edit
    <2>30. CASE CreateResent
      BY <2>30, ErrorsEnd DEF CreateResent, CreateEffect, CreateEnds, EndVia, crVars
    <2>29. CASE UNCHANGED vars
      BY <2>29 DEF vars, crVars, glueVars, passVars, counters
    <2> QED
      BY <2>1, <2>2, <2>3, <2>4, <2>5, <2>6, <2>7, <2>8, <2>9, <2>10, <2>11,
         <2>12, <2>13, <2>14, <2>15, <2>16, <2>17, <2>18, <2>19, <2>20, <2>21,
         <2>22, <2>23, <2>24, <2>25, <2>26, <2>27, <2>28, <2>29, <2>30
         DEF Next, Progress, Failure, Environment
  <1> QED BY <1>1, <1>2, TypeCorrect, PTL DEF Spec

\* A pass that nobody disturbed goes past its write (Create, sdkUpdate) only when
\* Glue holds the body it wants, and carries an error exactly on its way out, for
\* either kind and also when the client sends a create request twice.
THEOREM PassKnowsGlue == Spec => []AppliedInv
  BY AppliedInvariant, PTL

\* ACK.ResourceSynced tells the truth of every undisturbed pass.
THEOREM SyncedIsApplied == Spec => []SyncedMeansApplied
  <1>1. AppliedInv => SyncedMeansApplied
    BY DEF AppliedInv
  <1> QED BY <1>1, AppliedInvariant, PTL

\* Where it is about one place, a pass changes nothing in Glue elsewhere.
LEMMA OnePlace ==
    ASSUME TypeOK, OwnershipInv, NEW b \in Bodies \cup {NoBody}
    PROVE  /\ Target = IdOf(spec) /\ IdOf(latest) = IdOf(spec)
           /\ [glue EXCEPT ![IdOf(spec)] = b][IdOf(spec)] = b
           /\ made \subseteq {IdOf(spec)}
           /\ glue[IdOf(spec)] = NoBody => made = {}
           /\ glue[IdOf(spec)] \in Bodies \cup {NoBody}
  BY PlaceType DEF TypeOK, OwnershipInv, Target

\* Controller implements Ownership, where users do not move the resource and no
\* create request is sent twice: every step is one that the holder of the claim
\* may take, a move of somebody else, or invisible.
THEOREM OwnershipKept ==
    ASSUME StableIdentity, ~Resends
    PROVE  Spec => KeepsOwnership
  <1>1. Init => Owner!Init
    <2> SUFFICES ASSUME Init PROVE Owner!Init
      OBVIOUS
    <2>1. IdOf(spec) \in Ids
      BY ControllerAssumption DEF Init, IdOf, Place
    <2> QED BY <2>1 DEF Init, Owner!Init
  <1>2. /\ TypeOK /\ FinalizerInv /\ OwnershipInv /\ AppliedInv
        /\ TypeOK' /\ OwnershipInv'
        /\ [Next]_vars
        => [Owner!Next]_(Owner!vars)
    <2> SUFFICES ASSUME TypeOK, FinalizerInv, OwnershipInv, AppliedInv,
                        TypeOK', OwnershipInv', [Next]_vars
                 PROVE  Owner!Next \/ UNCHANGED Owner!vars
      OBVIOUS
    <2>0. \A a, b \in SpecIds : Place(a) = Place(b)
      BY DEF StableIdentity
    \* What leaves both the custom resource and Glue alone cannot be seen.
    <2>1. ASSUME UNCHANGED <<crPhase, finalizer, glue, made, edits>>,
                 IdOf(spec)' = IdOf(spec)
          PROVE  UNCHANGED Owner!vars
      BY <2>1 DEF Owner!vars
    <2>2. CASE \/ StartPass \/ ReadFinds \/ ReadFindsNothing \/ CreateRefused
               \/ CreateUnencodable \/ ReadBack \/ UpdateRefused \/ LateInitialize
               \/ DeleteReadFinds \/ DeleteReadFindsNothing \/ ReadBackFails
               \/ LateInitializeFails \/ Publish \/ ReadFails \/ Crash
               \/ UNCHANGED vars
      <3>1. UNCHANGED <<crPhase, finalizer, glue, made, edits, spec>>
        BY <2>2 DEF StartPass, ReadFinds, ReadFindsNothing, CreateRefused,
           CreateUnencodable, ReadBack, UpdateRefused, LateInitialize,
           DeleteReadFinds, DeleteReadFindsNothing, ReadBackFails,
           LateInitializeFails, Publish, ReadFails, Crash, vars, crVars, glueVars,
           counters
      <3> QED BY <2>1, <3>1
    <2>3. CASE PatchSpec
      <3>1. UNCHANGED <<crPhase, finalizer, glue, made, edits>>
        BY <2>3 DEF PatchSpec, glueVars, counters
      <3>2. IdOf(spec)' = IdOf(spec)
        BY <2>3 DEF PatchSpec, OwnershipInv, passVars, TypeOK, IdOf, Specs
      <3> QED BY <2>1, <3>1, <3>2
    <2>4. CASE Manage
      BY <2>1, <2>4 DEF Manage, glueVars, counters, Owner!Claim, Owner!Next, Owner!vars
    <2>5. CASE Create \/ CreateAnswerLost
      <3>1. CASE UNCHANGED glueVars
        BY <2>1, <2>5, <3>1 DEF Create, CreateAnswerLost, crVars, counters, glueVars
      <3>2. CASE ~UNCHANGED glueVars
        <4>1. /\ glue[Target] = NoBody /\ CreateEffect
              /\ UNCHANGED <<crPhase, finalizer, spec, edits>> /\ pc = "create"
          BY <2>5, <3>2 DEF Create, CreateAnswerLost, crVars, counters
        <4>2. glue'[IdOf(spec)'] = desired.body /\ desired.body \in Bodies
          BY <4>1, PlaceType, OnePlace DEF CreateEffect, TypeOK, Specs
        <4>3. Owner!Make
          BY <4>1, <4>2, OnePlace DEF CreateEffect, Owner!Make, FinalizerInv
        <4> QED BY <4>3 DEF Owner!Next
      <3> QED BY <3>1, <3>2
    <2>6. CASE CreateResent
      BY <2>6 DEF CreateResent
    <2>7. CASE Update \/ UpdateFails
      <3>1. CASE UNCHANGED glue
        BY <2>1, <2>7, <3>1 DEF Update, UpdateFails, crVars, counters
      <3>2. CASE ~UNCHANGED glue
        <4>1. /\ glue[Target] # NoBody
              /\ glue' = [glue EXCEPT ![Target] = desired.body]
              /\ UNCHANGED <<crPhase, finalizer, spec, made, edits>> /\ pc = "update"
          BY <2>7, <3>2 DEF Update, UpdateFails, crVars, counters
        <4>2. glue'[IdOf(spec)'] = desired.body /\ desired.body \in Bodies
          BY <4>1, OnePlace DEF TypeOK, Specs
        <4>3. Owner!Change
          BY <4>1, <4>2, OnePlace DEF Owner!Change, FinalizerInv
        <4> QED BY <4>3 DEF Owner!Next
      <3> QED BY <3>1, <3>2
    <2>8. CASE Delete \/ DeleteFails
      <3>1. CASE UNCHANGED glueVars
        BY <2>1, <2>8, <3>1 DEF Delete, DeleteFails, crVars, counters, glueVars
      <3>2. CASE ~UNCHANGED glueVars
        <4>1. /\ DeleteEffect
              /\ UNCHANGED <<crPhase, finalizer, spec, edits>> /\ pc = "delete"
          BY <2>8, <3>2 DEF Delete, DeleteFails, crVars, counters
        <4>2. glue'[IdOf(spec)'] = NoBody /\ made' = {}
          BY <4>1, OnePlace DEF DeleteEffect
        <4>3. finalizer /\ crPhase = "deleting"
          BY <4>1 DEF FinalizerInv, AppliedInv, TypeOK
        <4>4. Owner!Remove
          BY <4>1, <4>2, <4>3 DEF Owner!Remove
        <4> QED BY <4>4 DEF Owner!Next
      <3> QED BY <3>1, <3>2
    <2>9. CASE Unmanage \/ Release
      <3>1. /\ RemoveFinalizer /\ pc \in {"unmanage", "release"}
            /\ UNCHANGED <<spec, glue, made, edits>>
        BY <2>9 DEF Unmanage, Release, glueVars, counters
      <3>2. Owner!GiveUp
        BY <3>1 DEF RemoveFinalizer, Owner!GiveUp, FinalizerInv, OwnershipInv
      <3> QED BY <3>2 DEF Owner!Next
    <2>10. CASE UserEdit
      <3>1. edits' = edits + 1 /\ UNCHANGED <<crPhase, finalizer, glue, made>>
        BY <2>10 DEF UserEdit, Edit, glueVars
      <3>2. IdOf(spec)' = IdOf(spec)
        BY <2>0, <2>10 DEF UserEdit, OwnershipInv, IdOf
      <3>3. Owner!Others
        BY <3>1, <3>2, OnePlace DEF Owner!Others
      <3> QED BY <3>3 DEF Owner!Next
    <2>11. CASE UserDelete
      <3>1. Owner!Ask
        BY <2>11 DEF UserDelete, Edit, glueVars, Owner!Ask
      <3> QED BY <3>1 DEF Owner!Next
    <2>12. CASE OtherWrite
      <3>1. /\ edits' = edits + 1 /\ UNCHANGED <<crPhase, finalizer, spec>>
        BY <2>12 DEF OtherWrite, Edit, crVars
      <3>2. glue'[IdOf(spec)'] \in Bodies \cup {NoBody}
        BY PlaceType DEF TypeOK
      <3>3. (made' # {}) <=> (made # {} /\ glue'[IdOf(spec)'] # NoBody)
        BY <2>12, <3>1, PlaceType, OnePlace DEF OtherWrite, OwnershipInv, TypeOK
      <3>4. Owner!Others
        BY <3>1, <3>2, <3>3 DEF Owner!Others
      <3> QED BY <3>4 DEF Owner!Next
    <2> QED
      BY <2>2, <2>3, <2>4, <2>5, <2>6, <2>7, <2>8, <2>9, <2>10, <2>11, <2>12
         DEF Next, Progress, Failure, Environment
  <1> QED
    BY <1>1, <1>2, OwnershipInvariant, AppliedInvariant, PTL
       DEF Spec, KeepsOwnership, Owner!Spec

\* Only InvalidInputException makes the Terminal condition True, and a call that
\* succeeds clears both.
LEMMA TerminalErrors ==
    ASSUME NEW c \in Conditions
    PROVE  \A e \in {"NotFound", "OtherCode", "Transport", "Range"} :
              onError(c, e).cond.terminal # "True"
  BY DEF onError, updateConditions, terminalAWSError, Cleared

LEMMA SuccessClears ==
    ASSUME NEW c \in Conditions
    PROVE  onSuccess(c).terminal # "True" /\ onSuccess(c).recoverable # "True"
  BY DEF onSuccess, updateConditions, terminalAWSError, Cleared

\* The conditions a pass is going to report: none that says True once its write
\* is behind it without an error, and Terminal only for what Glue refuses or what
\* is not managed.
ConditionInv ==
    /\ (pc \in {"lateInit", "patchSpec"} \/ (pc = "publish" /\ err = "none"))
          => cond.terminal # "True" /\ cond.recoverable # "True"
    /\ fresh /\ pc = "publish" /\ crPhase = "live" /\ cond.terminal = "True"
          => spec.body \in Refused \/ ~finalizer
    /\ SuccessClearsErrors
    /\ TerminalMeansRefused

LEMMA ConditionInvariant == Spec => []ConditionInv
  <1>1. Init => ConditionInv
    BY DEF Init, ConditionInv, SuccessClearsErrors, TerminalMeansRefused, NoConditions
  <1>2. TypeOK /\ AppliedInv /\ ConditionInv /\ [Next]_vars => ConditionInv'
    <2> SUFFICES ASSUME TypeOK, AppliedInv, ConditionInv, [Next]_vars
                 PROVE  ConditionInv'
      OBVIOUS
    <2> USE DEF TypeOK, AppliedInv, ConditionInv, SuccessClearsErrors,
                TerminalMeansRefused, crVars, counters, glueVars
    <2>1. CASE StartPass
      BY <2>1 DEF StartPass, Goto
    <2>2. CASE ReadFinds
      BY <2>2, SuccessClears DEF ReadFinds, Goto, End, EndVia
    <2>3. CASE ReadFindsNothing
      BY <2>3 DEF ReadFindsNothing, Goto
    <2>4. CASE ReadFails
      BY <2>4, ErrorsEnd, TerminalErrors DEF ReadFails, CallFails, End, EndVia
    <2>5. CASE Manage
      BY <2>5 DEF Manage, Goto, End, EndVia
    <2>6. CASE Create
      BY <2>6, SuccessClears DEF Create, Goto
    <2>7. CASE CreateRefused
      BY <2>7, ErrorsEnd, TerminalErrors DEF CreateRefused, CreateEnds, EndVia
    <2>8. CASE Unmanage
      BY <2>8 DEF Unmanage, RemoveFinalizer, Goto
    <2>9. CASE CreateUnencodable
      BY <2>9, ErrorsEnd, TerminalErrors DEF CreateUnencodable, CreateEnds,
         EndVia
    <2>10. CASE CreateAnswerLost
      BY <2>10, ErrorsEnd, TerminalErrors DEF CreateAnswerLost, End, EndVia
    <2>11. CASE ReadBack
      BY <2>11, SuccessClears DEF ReadBack, Goto
    <2>12. CASE ReadBackFails
      BY <2>12, ErrorsEnd, TerminalErrors DEF ReadBackFails, CallFails, End,
         EndVia
    <2>13. CASE Update
      BY <2>13, SuccessClears DEF Update, Goto
    <2>14. CASE UpdateRefused
      BY <2>14, ErrorsEnd, TerminalErrors DEF UpdateRefused, End, EndVia
    <2>15. CASE UpdateFails
      BY <2>15, ErrorsEnd, TerminalErrors DEF UpdateFails, CallFails, End,
         EndVia
    <2>16. CASE LateInitialize
      BY <2>16 DEF LateInitialize, Goto
    <2>17. CASE LateInitializeFails
      BY <2>17, ErrorsEnd, TerminalErrors DEF LateInitializeFails, End, EndVia
    <2>18. CASE PatchSpec
      BY <2>18 DEF PatchSpec, Goto, passVars
    <2>19. CASE DeleteReadFinds
      BY <2>19, SuccessClears DEF DeleteReadFinds, Goto
    <2>20. CASE DeleteReadFindsNothing
      BY <2>20 DEF DeleteReadFindsNothing, Goto
    <2>21. CASE Delete
      BY <2>21 DEF Delete, Goto
    <2>22. CASE DeleteFails
      BY <2>22, ErrorsEnd, TerminalErrors DEF DeleteFails, CallFails, End,
         EndVia
    <2>23. CASE Release
      BY <2>23 DEF Release, RemoveFinalizer, passVars
    <2>24. CASE Publish
      BY <2>24 DEF Publish
    <2>25. CASE Crash
      BY <2>25 DEF Crash
    <2>26. CASE UserEdit
      BY <2>26 DEF UserEdit, Edit, passVars
    <2>27. CASE UserDelete
      BY <2>27 DEF UserDelete, Edit, passVars
    <2>28. CASE OtherWrite
      BY <2>28 DEF OtherWrite, Edit, passVars
    <2>29. CASE CreateResent
      BY <2>29, ErrorsEnd, TerminalErrors DEF CreateResent, CreateEnds, EndVia
    <2>30. CASE UNCHANGED vars
      BY <2>30 DEF vars, passVars
    <2> QED
      BY <2>1, <2>2, <2>3, <2>4, <2>5, <2>6, <2>7, <2>8, <2>9, <2>10, <2>11,
         <2>12, <2>13, <2>14, <2>15, <2>16, <2>17, <2>18, <2>19, <2>20, <2>21,
         <2>22, <2>23, <2>24, <2>25, <2>26, <2>27, <2>28, <2>29, <2>30
         DEF Next, Progress, Failure, Environment
  <1> QED BY <1>1, <1>2, AppliedInvariant, PTL DEF Spec

\* The Terminal condition is shown only of what Glue refuses or what is not the
\* controller's.
THEOREM TerminalIsRefused == Spec => []TerminalMeansRefused
  <1>1. ConditionInv => TerminalMeansRefused
    BY DEF ConditionInv
  <1> QED BY <1>1, ConditionInvariant, PTL

\* A custom resource that is reported as synced shows neither error condition.
THEOREM SuccessIsClear == Spec => []SuccessClearsErrors
  <1>1. ConditionInv => SuccessClearsErrors
    BY DEF ConditionInv
  <1> QED BY <1>1, ConditionInvariant, PTL
=================================================================================
