--------------------------- MODULE ControllerPassProofs ---------------------------
(*****************************************************************************)
(* The safety half of Controller's liveness properties: a pass ends, one that  *)
(* is undisturbed and meets no failure leaves behind what Converges and         *)
(* DeletionCompletes want, and the passes after it keep that.                   *)
(*****************************************************************************)
EXTENDS ControllerProofs

\* A pass that nobody disturbed and in which no call failed has an error only if
\* the body is not acceptable or the resource found is not the controller's.
ErrorsHaveCauses ==
    fresh /\ clean /\ err # "none" =>
        /\ crPhase = "live"
        /\ spec.body \notin Acceptable \/ (~finalizer /\ glue[IdOf(spec)] # NoBody)

\* What an undisturbed pass has seen stays true: there is nothing yet where it is
\* about to create, and something where it is about to update or delete; so it
\* meets no error of its own making.
CleanInv ==
    /\ fresh /\ pc \in {"read", "manage", "create", "readBack", "update", "lateInit",
                        "patchSpec", "unmanage"} => crPhase = "live"
    /\ fresh /\ pc \in {"manage", "create", "release"} => glue[IdOf(spec)] = NoBody
    /\ fresh /\ pc \in {"update", "delete"} => glue[IdOf(spec)] # NoBody
    /\ fresh /\ pc = "publish" /\ err = "none" => crPhase = "live"
    /\ ErrorsHaveCauses
    /\ CleanPassSettles

LEMMA CleanInvariant == Spec => []CleanInv
  <1>1. Init => CleanInv
    BY DEF Init, CleanInv, ErrorsHaveCauses, CleanPassSettles
  <1>2. TypeOK /\ FinalizerInv /\ AppliedInv /\ CleanInv /\ [Next]_vars => CleanInv'
    <2> SUFFICES ASSUME TypeOK, FinalizerInv, AppliedInv, CleanInv, [Next]_vars
                 PROVE  CleanInv'
      OBVIOUS
    <2> USE ControllerAssumption
        DEF TypeOK, AppliedInv, CleanInv, ErrorsHaveCauses, CleanPassSettles, Settled, Acceptable, IdOf,
            Place, Target, Specs, crVars, glueVars, counters, passVars
    <2>1. CASE StartPass
      BY <2>1 DEF StartPass, Goto
    <2>2. CASE ReadFinds
      BY <2>2 DEF ReadFinds, Goto, End, EndVia, Observed
    <2>3. CASE ReadFindsNothing
      BY <2>3 DEF ReadFindsNothing, Goto
    <2>4. CASE ReadFails
      BY <2>4, ErrorsEnd DEF ReadFails, CallFails, Fault, End, EndVia
    <2>5. CASE Manage
      BY <2>5 DEF Manage, Goto, End, EndVia
    <2>6. CASE Create
      BY <2>6 DEF Create, CreateEffect, Goto
    <2>7. CASE CreateRefused
      BY <2>7, ErrorsEnd DEF CreateRefused, CreateEnds, EndVia, Fault
    <2>8. CASE Unmanage
      BY <2>8 DEF Unmanage, RemoveFinalizer, Goto, FinalizerInv
    <2>9. CASE CreateUnencodable
      BY <2>9, ErrorsEnd DEF CreateUnencodable, CreateEnds, EndVia
    <2>10. CASE CreateAnswerLost
      BY <2>10, ErrorsEnd DEF CreateAnswerLost, Fault, End, EndVia
    <2>11. CASE CreateResent
      BY <2>11, ErrorsEnd DEF CreateResent, Fault, CreateEnds, EndVia
    <2>12. CASE ReadBack
      BY <2>12 DEF ReadBack, Goto
    <2>13. CASE ReadBackFails
      BY <2>13, ErrorsEnd DEF ReadBackFails, CallFails, Fault, End, EndVia
    <2>14. CASE Update
      BY <2>14 DEF Update, Goto
    <2>15. CASE UpdateRefused
      BY <2>15, ErrorsEnd DEF UpdateRefused, End, EndVia
    <2>16. CASE UpdateFails
      BY <2>16, ErrorsEnd DEF UpdateFails, CallFails, Fault, End, EndVia
    <2>17. CASE LateInitialize
      BY <2>17 DEF LateInitialize, Goto
    <2>18. CASE LateInitializeFails
      BY <2>18, ErrorsEnd DEF LateInitializeFails, Fault, End, EndVia
    <2>19. CASE PatchSpec
      BY <2>19 DEF PatchSpec, Goto
    <2>20. CASE DeleteReadFinds
      BY <2>20 DEF DeleteReadFinds, Goto, Observed
    <2>21. CASE DeleteReadFindsNothing
      BY <2>21 DEF DeleteReadFindsNothing, Goto
    <2>22. CASE Delete
      BY <2>22 DEF Delete, DeleteEffect, Goto, FinalizerInv
    <2>23. CASE DeleteFails
      BY <2>23, ErrorsEnd DEF DeleteFails, CallFails, Fault, End, EndVia
    <2>24. CASE Release
      BY <2>24 DEF Release, RemoveFinalizer, FinalizerInv
    <2>25. CASE Publish
      BY <2>25 DEF Publish
    <2>26. CASE Crash
      BY <2>26 DEF Crash, Fault
    <2>27. CASE UserEdit
      BY <2>27 DEF UserEdit, Edit
    <2>28. CASE UserDelete
      BY <2>28 DEF UserDelete, Edit
    <2>29. CASE OtherWrite
      BY <2>29 DEF OtherWrite, Edit
    <2>30. CASE UNCHANGED vars
      BY <2>30 DEF vars
    <2> QED
      BY <2>1, <2>2, <2>3, <2>4, <2>5, <2>6, <2>7, <2>8, <2>9, <2>10, <2>11, <2>12, <2>13, <2>14, <2>15, <2>16, <2>17, <2>18, <2>19, <2>20, <2>21, <2>22, <2>23, <2>24, <2>25, <2>26, <2>27, <2>28, <2>29, <2>30
         DEF Next, Progress, Failure, Environment
  <1> QED BY <1>1, <1>2, FinalizerInvariant, AppliedInvariant, PTL DEF Spec

\* An undisturbed pass without a failed call leaves an acceptable specification
\* applied and reported, and no deletion undone (reconcile, from ReadOne to the
\* status patch), whatever state earlier failures and crashes left behind.
THEOREM PassSettles == Spec => []CleanPassSettles
  <1>1. CleanInv => CleanPassSettles
    BY DEF CleanInv
  <1> QED BY <1>1, CleanInvariant, PTL

\* The controller brings no error upon itself: where nobody interferes and no call
\* fails, every error onError is given is the user's or somebody else's.
THEOREM ErrorsAreCaused == Spec => []ErrorsHaveCauses
  <1>1. CleanInv => ErrorsHaveCauses
    BY DEF CleanInv
  <1> QED BY <1>1, CleanInvariant, PTL

\* What has been reached is kept: from then on no step of any pass undoes it, until
\* somebody interferes or something fails (sdkUpdate and the patch of late
\* initialization among them, which may write again what is there already).
THEOREM StaysSettled ==
    Spec => [][fresh /\ clean /\ Settled /\ edits' = edits /\ faults' = faults
                  => Settled']_vars
  <1>1. /\ TypeOK /\ FinalizerInv /\ AppliedInv /\ CleanInv
        /\ [Next]_vars
        => [fresh /\ clean /\ Settled /\ edits' = edits /\ faults' = faults
                => Settled']_vars
    <2> SUFFICES ASSUME TypeOK, FinalizerInv, AppliedInv, CleanInv, Next,
                        fresh, clean, Settled, edits' = edits, faults' = faults
                 PROVE  Settled'
      OBVIOUS
    <2>0. faults \in Nat /\ edits \in Nat
      BY ControllerAssumption DEF TypeOK
    \* Settled is about nothing else.
    <2>1. ASSUME UNCHANGED <<crPhase, finalizer, spec, synced, glue>> PROVE Settled'
      BY <2>1 DEF Settled, IdOf
    <2>2. CASE StartPass \/ ReadFinds \/ ReadFindsNothing \/ CreateRefused
               \/ CreateUnencodable \/ ReadBack \/ ReadBackFails \/ UpdateRefused
               \/ LateInitialize \/ LateInitializeFails \/ DeleteReadFinds
               \/ DeleteReadFindsNothing \/ ReadFails \/ Crash
      <3>1. UNCHANGED <<crPhase, finalizer, spec, synced, glue>>
        BY <2>2 DEF StartPass, ReadFinds, ReadFindsNothing, CreateRefused,
           CreateUnencodable, ReadBack, ReadBackFails, UpdateRefused, LateInitialize,
           LateInitializeFails, DeleteReadFinds, DeleteReadFindsNothing, ReadFails,
           Crash, crVars, glueVars
      <3> QED BY <2>1, <3>1
    <2>3. CASE CreateAnswerLost \/ CreateResent \/ UpdateFails
      <3>1. faults' = faults + 1
        BY <2>3 DEF CreateAnswerLost, CreateResent, UpdateFails, CallFails, Fault
      <3> QED BY <2>0, <3>1
    <2>4. CASE UserEdit \/ UserDelete \/ OtherWrite
      <3>1. edits' = edits + 1
        BY <2>4 DEF UserEdit, UserDelete, OtherWrite, Edit
      <3> QED BY <2>0, <3>1
    \* There was nothing in Glue, so that an acceptable body was not settled.
    <2>5. CASE Manage \/ Create
      <3>1. spec.body \notin Acceptable
        <4>1. crPhase = "live" /\ glue[IdOf(spec)] = NoBody
          BY <2>5 DEF Manage, Create, CleanInv
        <4>2. spec.body # NoBody
          BY ControllerAssumption DEF TypeOK, Specs
        <4> QED BY <4>1, <4>2 DEF Settled
      <3>2. spec' = spec
        BY <2>5 DEF Manage, Create, crVars
      <3> QED BY <3>1, <3>2 DEF Settled
    <2>6. CASE Unmanage
      <3>1. spec.body \notin Acceptable /\ spec' = spec
        BY <2>6 DEF Unmanage, AppliedInv, FinalizerInv, CleanInv, ErrorsHaveCauses
      <3> QED BY <3>1 DEF Settled
    <2>7. CASE Update
      <3>1. /\ glue' = [glue EXCEPT ![IdOf(spec)] = spec.body]
            /\ UNCHANGED <<crPhase, finalizer, spec, synced>>
            /\ glue[IdOf(spec)] # NoBody
        BY <2>7 DEF Update, Target, AppliedInv, CleanInv, crVars
      <3>2. IdOf(spec) \in Ids
        BY PlaceType DEF TypeOK
      <3>3. glue'[IdOf(spec)] = spec.body /\ IdOf(spec)' = IdOf(spec)
        BY <3>1, <3>2 DEF TypeOK, IdOf
      <3>4. spec.body # NoBody
        BY ControllerAssumption DEF TypeOK, Specs
      <3> QED BY <3>1, <3>3, <3>4 DEF Settled
    <2>8. CASE PatchSpec
      <3>1. /\ IdOf(spec)' = IdOf(spec) /\ spec'.body = spec.body
            /\ UNCHANGED <<crPhase, finalizer, synced, glue>>
        BY <2>8 DEF PatchSpec, AppliedInv, TypeOK, Specs, IdOf, glueVars
      <3> QED BY <3>1 DEF Settled
    <2>9. CASE Delete \/ Release
      <3>1. crPhase # "live" /\ crPhase' # "live"
        BY <2>9 DEF Delete, Release, RemoveFinalizer, AppliedInv, crVars
      <3> QED BY <3>1 DEF Settled
    <2>10. CASE DeleteFails
      <3>1. crPhase # "live" /\ crPhase' # "live"
        BY <2>10 DEF DeleteFails, AppliedInv, crVars
      <3> QED BY <3>1 DEF Settled
    <2>11. CASE Publish
      <3>1. UNCHANGED <<crPhase, finalizer, spec, glue>>
        BY <2>11 DEF Publish, glueVars
      <3>2. CASE err = "none"
        <4>1. glue[IdOf(spec)] = spec.body /\ crPhase = "live"
          BY <2>11, <3>2 DEF Publish, AppliedInv, CleanInv
        <4>2. synced'
          BY <2>11, <3>2, <4>1 DEF Publish
        <4> QED BY <3>1, <4>1, <4>2 DEF Settled, IdOf
      <3>3. CASE err # "none"
        BY <3>1, <3>3 DEF CleanInv, ErrorsHaveCauses, Settled, IdOf
      <3> QED BY <3>2, <3>3
    <2> QED
      BY <2>2, <2>3, <2>4, <2>5, <2>6, <2>7, <2>8, <2>9, <2>10, <2>11
         DEF Next, Progress, Failure, Environment
  <1> QED
    BY <1>1, TypeCorrect, FinalizerInvariant, AppliedInvariant, CleanInvariant, PTL
       DEF Spec

\* How many steps a pass has ahead of it at most.
Ahead(step) ==
    CASE step = "idle" -> 0
      [] step \in {"publish", "release"} -> 1
      [] step \in {"unmanage", "patchSpec", "delete"} -> 2
      [] step \in {"lateInit", "deleteRead"} -> 3
      [] step \in {"readBack", "update"} -> 4
      [] step = "create" -> 5
      [] step = "manage" -> 6
      [] step = "read" -> 7

\* A pass ends: whatever the calls answer, every step of it leads closer to its end, so
\* that it takes none twice; what others do meanwhile are edits, which are bounded, and
\* does not move it.
THEOREM PassesEnd ==
    Spec => [][pc # "idle" => \/ Ahead(pc') < Ahead(pc)
                              \/ pc' = pc /\ edits' = edits + 1]_vars
  <1>1. TypeOK /\ [Next]_vars
        => [pc # "idle" => \/ Ahead(pc') < Ahead(pc)
                           \/ pc' = pc /\ edits' = edits + 1]_vars
    <2> SUFFICES ASSUME TypeOK, Next, pc # "idle",
                        ~(pc' = pc /\ edits' = edits + 1)
                 PROVE  Ahead(pc') < Ahead(pc)
      OBVIOUS
    <2>1. \/ pc = "read" /\ pc' \in {"manage", "create", "update", "lateInit", "publish"}
          \/ pc = "manage" /\ pc' \in {"create", "publish"}
          \/ pc = "create" /\ pc' \in {"readBack", "unmanage", "publish"}
          \/ pc = "readBack" /\ pc' \in {"lateInit", "publish"}
          \/ pc = "update" /\ pc' \in {"lateInit", "publish"}
          \/ pc = "lateInit" /\ pc' \in {"patchSpec", "publish"}
          \/ pc \in {"patchSpec", "unmanage"} /\ pc' = "publish"
          \/ pc = "deleteRead" /\ pc' \in {"delete", "release", "publish"}
          \/ pc = "delete" /\ pc' \in {"release", "publish"}
          \/ pc # "idle" /\ pc' = "idle"
      <3>1. CASE Progress
        BY <3>1 DEF Progress, StartPass, ReadFinds, ReadFindsNothing, Manage, Create,
           CreateRefused, CreateUnencodable, CreateEnds, Unmanage, ReadBack, Update,
           UpdateRefused, LateInitialize, PatchSpec, DeleteReadFinds,
           DeleteReadFindsNothing, Delete, Release, ReadBackFails, LateInitializeFails,
           DeleteFails, Publish, CallFails, Goto, End, EndVia
      <3>2. CASE Failure
        BY <3>2 DEF Failure, ReadFails, CreateAnswerLost, CreateResent, CreateEnds,
           UpdateFails, Crash, CallFails, End, EndVia
      <3>3. CASE Environment
        BY <3>3 DEF Environment, UserEdit, UserDelete, OtherWrite, Edit
      <3> QED BY <3>1, <3>2, <3>3 DEF Next
    <2> QED BY <2>1 DEF TypeOK, Steps, Ahead
  <1> QED BY <1>1, TypeCorrect, PTL DEF Spec

\* What the controller made, also when a create request is sent twice: it is where
\* every version of the specification says, and a pass that is about to create or
\* to let a deleted resource go has nothing there.  Only a create that was sent
\* twice leaves something behind the finalizer.
ReachInv ==
    /\ \A a \in SpecIds : Place(a) = IdOf(spec)
    /\ IdOf(desired) = IdOf(spec)
    /\ IdOf(latest) = IdOf(spec)
    /\ \A i \in made : i = IdOf(spec) /\ glue[i] # NoBody
    /\ pc \in {"manage", "create", "release"} => made = {}
    /\ pc = "unmanage" => made = {} \/ Resends
    /\ made # {} => finalizer \/ Resends

LEMMA ReachInvariant ==
    ASSUME StableIdentity
    PROVE  Spec => [](TypeOK /\ FinalizerInv /\ ReachInv)
  <1>1. Init => ReachInv
    BY DEF Init, ReachInv, StableIdentity, IdOf
  <1>2. TypeOK /\ FinalizerInv /\ ReachInv /\ [Next]_vars => ReachInv'
    <2> SUFFICES ASSUME TypeOK, FinalizerInv, ReachInv, [Next]_vars
                 PROVE  ReachInv'
      OBVIOUS
    <2> USE ControllerAssumption
        DEF TypeOK, ReachInv, IdOf, Place, Target, Specs, crVars, glueVars, counters,
            passVars
    <2>1. CASE StartPass
      BY <2>1 DEF StartPass, Goto
    <2>2. CASE ReadFinds
      BY <2>2 DEF ReadFinds, Goto, End, EndVia, Observed
    <2>3. CASE ReadFindsNothing
      BY <2>3 DEF ReadFindsNothing, Goto
    <2>4. CASE ReadFails
      BY <2>4 DEF ReadFails, CallFails, End, EndVia
    <2>5. CASE Manage
      BY <2>5 DEF Manage, Goto, End, EndVia
    <2>6. CASE Create
      BY <2>6, PlaceType DEF Create, CreateEffect, Goto, CreateEnds, End, EndVia, FinalizerInv, Acceptable
    <2>7. CASE CreateRefused
      BY <2>7 DEF CreateRefused, CreateEnds, EndVia
    <2>8. CASE Unmanage
      BY <2>8 DEF Unmanage, RemoveFinalizer, Goto
    <2>9. CASE CreateUnencodable
      BY <2>9 DEF CreateUnencodable, CreateEnds, EndVia
    <2>10. CASE CreateAnswerLost
      BY <2>10, PlaceType DEF CreateAnswerLost, CreateEffect, Goto, CreateEnds, End, EndVia, FinalizerInv, Acceptable
    <2>11. CASE CreateResent
      BY <2>11, PlaceType DEF CreateResent, CreateEffect, Goto, CreateEnds, End, EndVia, FinalizerInv, Acceptable
    <2>12. CASE ReadBack
      BY <2>12 DEF ReadBack, Goto
    <2>13. CASE ReadBackFails
      BY <2>13 DEF ReadBackFails, CallFails, End, EndVia
    <2>14. CASE Update
      BY <2>14 DEF Update, Goto
    <2>15. CASE UpdateRefused
      BY <2>15 DEF UpdateRefused, End, EndVia
    <2>16. CASE UpdateFails
      BY <2>16 DEF UpdateFails, CallFails, End, EndVia
    <2>17. CASE LateInitialize
      BY <2>17 DEF LateInitialize, Goto
    <2>18. CASE LateInitializeFails
      BY <2>18 DEF LateInitializeFails, End, EndVia
    <2>19. CASE PatchSpec
      BY <2>19 DEF PatchSpec, Goto
    <2>20. CASE DeleteReadFinds
      BY <2>20 DEF DeleteReadFinds, Goto, Observed
    <2>21. CASE DeleteReadFindsNothing
      BY <2>21 DEF DeleteReadFindsNothing, Goto
    <2>22. CASE Delete
      BY <2>22 DEF Delete, DeleteEffect, Goto
    <2>23. CASE DeleteFails
      BY <2>23 DEF DeleteFails, CallFails, End, EndVia, DeleteEffect
    <2>24. CASE Release
      BY <2>24 DEF Release, RemoveFinalizer
    <2>25. CASE Publish
      BY <2>25 DEF Publish
    <2>26. CASE Crash
      BY <2>26 DEF Crash
    <2>27. CASE UserEdit
      BY <2>27 DEF UserEdit, Edit
    <2>28. CASE UserDelete
      BY <2>28 DEF UserDelete, Edit
    <2>29. CASE OtherWrite
      BY <2>29 DEF OtherWrite, Edit
    <2>30. CASE UNCHANGED vars
      BY <2>30 DEF vars
    <2> QED
      BY <2>1, <2>2, <2>3, <2>4, <2>5, <2>6, <2>7, <2>8, <2>9, <2>10, <2>11, <2>12, <2>13, <2>14, <2>15, <2>16, <2>17, <2>18, <2>19, <2>20, <2>21, <2>22, <2>23, <2>24, <2>25, <2>26, <2>27, <2>28, <2>29, <2>30
         DEF Next, Progress, Failure, Environment
  <1> QED BY <1>1, <1>2, FinalizerInvariant, PTL DEF Spec

\* What the controller made is always where its specification points, so that it is
\* what ReadOne finds and what Delete deletes, also when nothing shows any more that
\* it is the controller's.
THEOREM MadeStaysWithinReach ==
    ASSUME StableIdentity
    PROVE  Spec => [](\A i \in made : i = IdOf(spec) /\ glue[i] # NoBody)
  <1>1. ReachInv => \A i \in made : i = IdOf(spec) /\ glue[i] # NoBody
    BY DEF ReachInv
  <1> QED BY <1>1, ReachInvariant, PTL

\* The run controller_resent shows the only way to lose a resource: nothing but the
\* MarkUnmanaged after a create that was sent twice takes the finalizer away while
\* something is there that Create made.
THEOREM OrphansComeFromResending ==
    ASSUME StableIdentity
    PROVE  Spec => [][finalizer /\ ~finalizer' /\ made' # {}
                          => Resends /\ pc = "unmanage"]_vars
  <1>1. TypeOK /\ FinalizerInv /\ ReachInv /\ [Next]_vars
        => [finalizer /\ ~finalizer' /\ made' # {} => Resends /\ pc = "unmanage"]_vars
    <2> SUFFICES ASSUME TypeOK, FinalizerInv, ReachInv, Next,
                        finalizer, ~finalizer', made' # {}
                 PROVE  Resends /\ pc = "unmanage"
      OBVIOUS
    <2>1. CASE Unmanage
      BY <2>1 DEF Unmanage, glueVars, ReachInv
    <2>2. CASE Release
      BY <2>2 DEF Release, glueVars, ReachInv
    <2>3. CASE ~Unmanage /\ ~Release
      <3>1. finalizer' = finalizer \/ finalizer'
        BY <2>3 DEF Next, Progress, Failure, Environment, StartPass, ReadFinds,
           ReadFindsNothing, ReadFails, Manage, Create, CreateRefused,
           CreateUnencodable, CreateAnswerLost, CreateResent, ReadBack, ReadBackFails,
           Update, UpdateRefused, UpdateFails, LateInitialize, LateInitializeFails,
           PatchSpec, DeleteReadFinds, DeleteReadFindsNothing, Delete, DeleteFails,
           Publish, Crash, UserEdit, UserDelete, OtherWrite, crVars
      <3> QED BY <3>1
    <2> QED BY <2>1, <2>2, <2>3
  <1> QED BY <1>1, ReachInvariant, PTL DEF Spec
=================================================================================
