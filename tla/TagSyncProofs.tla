------------------------------ MODULE TagSyncProofs ------------------------------
(*****************************************************************************)
(* TagSync for every set of keys and values, every limit and every number of  *)
(* edits and failures.                                                        *)
(*****************************************************************************)
EXTENDS TagSync, TLAPS

\* What SyncResourceTags asks for: to put the entries that differ, and to remove
\* the keys that are no longer wanted.
LEMMA RequestsOf ==
    ASSUME NEW want \in ACKTags, NEW have \in ACKTags
    PROVE  /\ TagRequests(want, have).added =
                  [k \in Keys |-> IF have[k] # want[k] THEN want[k] ELSE Absent]
           /\ TagRequests(want, have).removed =
                  {k \in Keys : have[k] # Absent /\ want[k] = Absent}
  <1>1. \A t \in ACKTags : convertToOrderedACKTags(t) = t
    BY TagsAssumption DEF ACKTags, convertToOrderedACKTags
  <1>2. TagRequests(want, have).added =
            [k \in Keys |-> IF have[k] # want[k] THEN want[k] ELSE Absent]
    BY <1>1 DEF TagRequests, GetTagsDifference
  <1>3. TagRequests(want, have).removed =
            {k \in Keys : have[k] # Absent /\ have[k] # want[k]}
                \ Present(TagRequests(want, have).added)
    BY <1>1 DEF TagRequests, GetTagsDifference
  <1>4. Present(TagRequests(want, have).added) =
            {k \in Keys : have[k] # want[k] /\ want[k] # Absent}
    BY <1>2 DEF Present
  <1> QED BY <1>2, <1>3, <1>4

\* The two requests have the types of a tag map and of a set of keys.
LEMMA RequestsType ==
    ASSUME NEW want \in ACKTags, NEW have \in ACKTags
    PROVE  /\ TagRequests(want, have).added \in ACKTags
           /\ TagRequests(want, have).removed \subseteq Keys
  <1>1. \A k \in Keys : want[k] \in Values \cup {Absent}
    BY DEF ACKTags
  <1>2. TagRequests(want, have).added =
            [k \in Keys |-> IF have[k] # want[k] THEN want[k] ELSE Absent]
    BY RequestsOf
  <1>3. TagRequests(want, have).removed =
            {k \in Keys : have[k] # Absent /\ want[k] = Absent}
    BY RequestsOf
  <1>4. TagRequests(want, have).added \in ACKTags
    BY <1>1, <1>2 DEF ACKTags
  <1> QED BY <1>3, <1>4

\* Carried out on the tags they were computed from, removal first, they give
\* the wanted tags.
LEMMA RequestsReachDesired ==
    ASSUME NEW want \in ACKTags, NEW have \in ACKTags
    PROVE  LET req == TagRequests(want, have)
           IN  Tagged(Untagged(have, req.removed), req.added) = want
  <1> DEFINE req == TagRequests(want, have)
  <1> DEFINE result == Tagged(Untagged(have, req.removed), req.added)
  <1>1. result = [k \in Keys |->
                    IF req.added[k] # Absent THEN req.added[k]
                    ELSE IF k \in req.removed THEN Absent ELSE have[k]]
    BY DEF Tagged, Merge, Untagged
  <1>2. req.added = [k \in Keys |-> IF have[k] # want[k] THEN want[k] ELSE Absent]
    BY RequestsOf
  <1>3. req.removed = {k \in Keys : have[k] # Absent /\ want[k] = Absent}
    BY RequestsOf
  <1>4. ASSUME NEW k \in Keys PROVE result[k] = want[k]
    <2> HIDE DEF req, result
    <2> QED BY <1>1, <1>2, <1>3
  <1>5. want = [k \in Keys |-> want[k]]
    BY DEF ACKTags
  <1> HIDE DEF result, req
  <1>6. result = [k \in Keys |-> result[k]]
    BY <1>1
  <1>7. result = want
    BY <1>4, <1>5, <1>6
  <1> QED BY <1>7 DEF result, req

\* The operators of Tags return tag maps.
LEMMA TagOperatorTypes ==
    /\ NoTags \in ACKTags
    /\ NoTags \in SpecTags
    /\ \A t \in SpecTags : convertToOrderedACKTags(t) \in ACKTags
    /\ \A a, b \in ACKTags : Merge(a, b) \in ACKTags
    /\ \A a, b \in ACKTags : mirrorAWSTags(a, b) \in ACKTags
    /\ \A t \in ACKTags, K \in SUBSET Keys : Untagged(t, K) \in ACKTags
  <1>1. /\ NoTags \in ACKTags
        /\ NoTags \in SpecTags
    BY DEF NoTags, ACKTags, SpecTags
  <1>2. \A t \in SpecTags : convertToOrderedACKTags(t) \in ACKTags
    BY TagsAssumption DEF SpecTags, ACKTags, convertToOrderedACKTags
  <1>3. \A a, b \in ACKTags : Merge(a, b) \in ACKTags
    BY DEF ACKTags, Merge
  <1>4. \A t \in ACKTags : convertToOrderedACKTags(t) = t
    BY TagsAssumption DEF ACKTags, convertToOrderedACKTags
  <1>5. \A a, b \in ACKTags : mirrorAWSTags(a, b) \in ACKTags
    BY <1>4 DEF ACKTags, mirrorAWSTags, syncAWSTags
  <1>6. \A t \in ACKTags, K \in SUBSET Keys : Untagged(t, K) \in ACKTags
    BY DEF ACKTags, Untagged
  <1> QED BY <1>1, <1>2, <1>3, <1>5, <1>6

\* Mirroring copies the "aws:" entries read and nothing else.
LEMMA MirrorAt ==
    ASSUME NEW a \in ACKTags, NEW b \in ACKTags, NEW k \in Keys
    PROVE  mirrorAWSTags(a, b)[k] =
               IF k \in AWSKeys /\ b[k] # Absent THEN b[k] ELSE a[k]
  <1>1. \A t \in ACKTags : convertToOrderedACKTags(t) = t
    BY TagsAssumption DEF ACKTags, convertToOrderedACKTags
  <1> QED BY <1>1 DEF mirrorAWSTags, syncAWSTags

\* Type correctness: of the initial state, and of every step.
LEMMA TypeInit == Init => TypeOK
  <1>1. 0 \in 0..MaxEdits /\ 0 \in 0..MaxFaults
    BY TagSyncAssumption
  <1> QED BY <1>1, TagOperatorTypes DEF Init, TypeOK

LEMMA TypeStep == ASSUME TypeOK, [Next]_vars PROVE TypeOK'
  <1> USE DEF TypeOK
  <1>0. /\ Requests.added \in ACKTags
        /\ Requests.removed \in SUBSET Keys
    BY RequestsType DEF Requests
  <1>1. CASE StartPass
    <2>1. EnsureTags(specTags, DefaultTags) \in ACKTags
      BY TagOperatorTypes, TagSyncAssumption DEF EnsureTags
    <2> QED BY <1>1, <2>1 DEF StartPass
  <1>2. CASE ReadTags
    BY <1>2, TagOperatorTypes DEF ReadTags, Observe, Finish
  <1>3. CASE ReadTagsFails
    BY <1>3, TagOperatorTypes, TagSyncAssumption
       DEF ReadTagsFails, Observe, Finish, Fault
  <1>4. CASE UntagResource
    BY <1>4, <1>0, TagOperatorTypes DEF UntagResource
  <1>5. CASE UntagFails
    BY <1>5, <1>0, TagOperatorTypes, TagSyncAssumption
       DEF UntagFails, Finish, Fault
  <1>6. CASE TagResource
    BY <1>6, <1>0, TagOperatorTypes DEF TagResource, Tagged, Finish
  <1>7. CASE TagRefused
    BY <1>7 DEF TagRefused, Finish
  <1>8. CASE TagFails
    BY <1>8, <1>0, TagOperatorTypes, TagSyncAssumption
       DEF TagFails, Tagged, Finish, Fault
  <1>9. CASE Crash
    BY <1>9, TagSyncAssumption DEF Crash, Finish, Fault
  <1>10. CASE UserEdit
    BY <1>10, TagSyncAssumption DEF UserEdit, SpecTags
  <1>11. CASE OtherWrite
    BY <1>11, TagSyncAssumption DEF OtherWrite, ACKTags
  <1>12. CASE UNCHANGED vars
    BY <1>12 DEF vars
  <1> QED
    BY <1>1, <1>2, <1>3, <1>4, <1>5, <1>6, <1>7, <1>8, <1>9, <1>10, <1>11, <1>12
       DEF Next, Answered, Failed

\* Every variable keeps its type; nil pointers of the custom resource never reach
\* a request.
THEOREM TypeCorrect == Spec => []TypeOK
  <1>1. TypeOK /\ [Next]_vars => TypeOK'
    BY TypeStep
  <1> QED BY <1>1, TypeInit, PTL DEF Spec

\* A step of either kind's pass, or of the environment, keeps the invariant.
LEMMA PassStep == ASSUME TypeOK, PassInv, [Next]_vars PROVE PassInv'
  <1> USE DEF TypeOK, PassInv
  <1>0. Tagged(Untagged(latest, Requests.removed), Requests.added) = desired
    BY RequestsReachDesired DEF Requests
  <1>1. CASE StartPass
    BY <1>1 DEF StartPass
  <1>2. CASE ReadTags
    <2>1. \A k \in AWSKeys : awsTags[k] # Absent => desired'[k] = awsTags[k]
      BY <1>2, MirrorAt, TagsAssumption DEF ReadTags, Observe
    <2> QED BY <1>2, <2>1 DEF ReadTags, Observe, Finish
  <1>3. CASE ReadTagsFails
    <2>1. CASE ReportsReadErrors
      BY <1>3, <2>1 DEF ReadTagsFails, Finish
    <2>2. CASE ~ReportsReadErrors
      <3>1. \A k \in Keys : NoTags[k] = Absent
        BY DEF NoTags
      <3>2. Blind' /\ pc' \in {"idle", "untag"}
        BY <1>3, <2>2 DEF ReadTagsFails, Observe, Finish, Blind
      <3>3. pc' = "idle" => Present(desired') = {}
        <4>1. SUFFICES ASSUME pc' = "idle" PROVE desired' = NoTags
          BY <3>1 DEF Present
        <4> QED BY <1>3, <2>2, <4>1 DEF ReadTagsFails, Observe
      <3>4. \A k \in AWSKeys : latest'[k] = Absent
        BY <1>3, <2>2, <3>1, TagsAssumption DEF ReadTagsFails, Observe
      <3> QED BY <3>2, <3>3, <3>4
    <2> QED BY <2>1, <2>2
  <1>4. CASE UntagResource
    <2>1. Requests' = Requests /\ (Blind => Blind')
      BY <1>4 DEF UntagResource, Requests, Blind
    <2> QED BY <1>4, <2>1 DEF UntagResource
  <1>5. CASE UntagFails
    BY <1>5 DEF UntagFails, Finish
  <1>6. CASE TagResource
    <2>1. awsTags' = Tagged(awsTags, Requests.added) /\ pc' = "idle"
          /\ UNCHANGED <<desired, latest, disturbed>>
      BY <1>6 DEF TagResource, Finish
    <2>2. CASE disturbed \/ ~Blind
      BY <1>0, <1>6, <2>1, <2>2 DEF TagResource, Blind
    <2>3. CASE Blind
      <3>1. Requests.added =
                [k \in Keys |-> IF latest[k] # desired[k] THEN desired[k] ELSE Absent]
        BY RequestsOf DEF Requests
      <3>2. \A k \in Present(desired) : Requests.added[k] = desired[k]
        BY <2>3, <3>1 DEF Present, Blind, NoTags
      <3>3. \A k \in Present(desired) : awsTags'[k] = desired[k]
        BY <2>1, <3>2 DEF Tagged, Merge, Present
      <3> QED BY <2>1, <2>3, <3>3 DEF Present, Blind
    <2> QED BY <2>2, <2>3
  <1>7. CASE TagRefused
    BY <1>7 DEF TagRefused, Finish
  <1>8. CASE TagFails
    BY <1>8 DEF TagFails, Finish
  <1>9. CASE Crash
    BY <1>9 DEF Crash, Finish
  <1>10. CASE UserEdit
    <2>1. Requests' = Requests /\ (Blind => Blind') /\ Present(desired)' = Present(desired)
      BY <1>10 DEF UserEdit, Requests, Blind, Present
    <2> QED BY <1>10, <2>1 DEF UserEdit
  <1>11. CASE OtherWrite
    BY <1>11 DEF OtherWrite
  <1>12. CASE UNCHANGED vars
    <2>1. Requests' = Requests /\ (Blind => Blind') /\ Present(desired)' = Present(desired)
      BY <1>12 DEF vars, Requests, Blind, Present
    <2> QED BY <1>12, <2>1 DEF vars
  <1> QED
    BY <1>1, <1>2, <1>3, <1>4, <1>5, <1>6, <1>7, <1>8, <1>9, <1>10, <1>11, <1>12
       DEF Next, Answered, Failed

LEMMA PassInit == Init => PassInv
  BY DEF Init, PassInv

\* How far a pass has come, for either kind: undisturbed, what is stored is what
\* was read, less the removed keys, and then what is wanted; the exception is a
\* reading that failed unnoticed (job/sdk.go:3373).
THEOREM PassInvariant == Spec => []PassInv
  <1>1. TypeOK /\ PassInv /\ [Next]_vars => PassInv'
    BY PassStep
  <1> QED BY <1>1, PassInit, TypeCorrect, PTL DEF Spec

\* While the desired tags carry AWS's, the requests leave AWS's alone.
LEMMA PassSparesSystemTags ==
    ASSUME TypeOK, PassInv PROVE SystemTagsUntouched
  <1> SUFFICES ASSUME pc \in {"untag", "tag"}, NEW k \in AWSKeys
               PROVE  /\ k \notin Requests.removed
                      /\ latest[k] # Absent => Requests.added[k] = Absent
    BY DEF SystemTagsUntouched
  <1>1. k \in Keys /\ desired \in ACKTags /\ latest \in ACKTags
    BY TagsAssumption DEF TypeOK
  <1>2. latest[k] # Absent => desired[k] = latest[k]
    BY DEF PassInv
  <1>3. Requests.added =
            [i \in Keys |-> IF latest[i] # desired[i] THEN desired[i] ELSE Absent]
    BY <1>1, RequestsOf DEF Requests
  <1>4. Requests.removed =
            {i \in Keys : latest[i] # Absent /\ desired[i] = Absent}
    BY <1>1, RequestsOf DEF Requests
  <1> QED BY <1>1, <1>2, <1>3, <1>4

\* No request of any pass touches a tag AWS owns, for both kinds.
THEOREM SystemTagsSafe == Spec => []SystemTagsUntouched
  <1> QED BY PassSparesSystemTags, PassInvariant, TypeCorrect, PTL

\* A Database pass that reports success left the wanted tags behind.
THEOREM SuccessIsSync == ASSUME ReportsReadErrors PROVE Spec => []SuccessMeansInSync
  <1>1. PassInv => SuccessMeansInSync
    BY DEF PassInv, SuccessMeansInSync, Blind
  <1> QED BY <1>1, PassInvariant, TypeCorrect, PTL

\* A Database pass can always replace tags at the service's limit.
THEOREM LimitSafe == ASSUME ReportsReadErrors PROVE Spec => []ReplacesWithinLimit
  <1>1. TypeOK /\ PassInv => ReplacesWithinLimit
    BY RequestsReachDesired DEF TypeOK, PassInv, Requests, ReplacesWithinLimit, Blind
  <1> QED BY <1>1, PassInvariant, TypeCorrect, PTL

\* Whatever goes wrong, a pass that succeeds undisturbed leaves every key it wants
\* with the value it wants; only what nobody wants may be left over, and only where
\* a failed GetTags goes unnoticed (job/sdk.go:3373).
THEOREM WantedTagsThere ==
    Spec => [](pc = "idle" /\ outcome = "ok" /\ ~disturbed
                  => \A k \in Present(desired) : awsTags[k] = desired[k])
  <1>1. PassInv => (pc = "idle" /\ outcome = "ok" /\ ~disturbed
                        => \A k \in Present(desired) : awsTags[k] = desired[k])
    BY DEF PassInv
  <1> QED BY <1>1, PassInvariant, PTL

\* The service has no reason to refuse an UntagResource, so no pass is held up
\* before it has put what is wanted.
THEOREM UntagsAreAccepted == Spec => [](pc = "untag" => UntagAccepted)
  <1>1. SystemTagsUntouched => (pc = "untag" => UntagAccepted)
    BY DEF SystemTagsUntouched, UntagAccepted
  <1> QED BY <1>1, SystemTagsSafe, PTL

\* TagResource is refused only for what the user asks: an "aws:" tag that AWS has
\* not set itself, or more tags than a resource may carry.
THEOREM RefusalsHaveCauses ==
    ASSUME ReportsReadErrors
    PROVE  Spec => [](pc = "tag" /\ ~disturbed /\ ~TagAccepted
                         => \/ \E k \in AWSKeys : desired[k] # Absent /\ latest[k] = Absent
                            \/ ~(Cardinality(Present(desired)) <= TagLimit))
  <1>1. TypeOK /\ PassInv /\ ReplacesWithinLimit
        => (pc = "tag" /\ ~disturbed /\ ~TagAccepted
               => \/ \E k \in AWSKeys : desired[k] # Absent /\ latest[k] = Absent
                  \/ ~(Cardinality(Present(desired)) <= TagLimit))
    <2> SUFFICES ASSUME TypeOK, PassInv, ReplacesWithinLimit,
                        pc = "tag", ~disturbed, ~TagAccepted,
                        Cardinality(Present(desired)) <= TagLimit
                 PROVE  \E k \in AWSKeys : desired[k] # Absent /\ latest[k] = Absent
      OBVIOUS
    <2>1. Cardinality(Present(Tagged(awsTags, Requests.added))) <= TagLimit
      BY DEF ReplacesWithinLimit
    <2>2. PICK k \in AWSKeys : k \in Present(Requests.added)
      BY <2>1 DEF TagAccepted
    <2>3. Requests.added =
              [i \in Keys |-> IF latest[i] # desired[i] THEN desired[i] ELSE Absent]
      BY RequestsOf DEF Requests, TypeOK
    <2>4. k \in Keys /\ desired[k] # Absent /\ latest[k] # desired[k]
      BY <2>2, <2>3, TagsAssumption DEF Present
    <2>5. latest[k] = Absent
      BY <2>4 DEF PassInv
    <2> QED BY <2>4, <2>5
  <1> QED BY <1>1, PassInvariant, LimitSafe, TypeCorrect, PTL

\* Tags that are the wanted ones, AWS's own beside them, end the pass when they are read.
LEMMA InSyncReading ==
    ASSUME TypeOK, ReadTags,
           \A k \in Keys :
               awsTags[k] = desired[k] \/ (k \in AWSKeys /\ awsTags[k] # Absent)
    PROVE  pc' = "idle" /\ outcome' = "ok" /\ awsTags' = awsTags
  <1>1. desired' = mirrorAWSTags(desired, awsTags) /\ awsTags' = awsTags
    BY DEF ReadTags, Observe
  <1>2. desired' \in ACKTags /\ awsTags \in ACKTags
    BY <1>1, TagOperatorTypes DEF TypeOK
  <1>3. \A k \in Keys : desired'[k] = awsTags[k]
    BY <1>1, MirrorAt DEF TypeOK
  <1>4. desired' = awsTags
    BY <1>2, <1>3 DEF ACKTags
  <1> QED BY <1>1, <1>4 DEF ReadTags, Observe, Finish

\* What one step of the reconciler can do to the stored tags: remove keys that
\* were read and are not wanted, or put wanted entries.
LEMMA StepOnTags ==
    ASSUME TypeOK, Next, pc' # pc
    PROVE  \/ awsTags' = awsTags
           \/ awsTags' = Untagged(awsTags, Requests.removed)
           \/ awsTags' = Tagged(awsTags, Requests.added)
  BY DEF Next, Answered, Failed, StartPass, ReadTags, ReadTagsFails, UntagResource,
         UntagFails, TagResource, TagRefused, TagFails, Crash, UserEdit, OtherWrite

\* A step that removes a key removes one that was read and is not wanted.
LEMMA StepRemoves ==
    ASSUME TypeOK, Next, pc' # pc, NEW k \in Keys,
           awsTags[k] # Absent, awsTags'[k] = Absent
    PROVE  k \in Requests.removed /\ latest[k] # Absent /\ desired[k] = Absent
  <1>0. latest \in ACKTags /\ desired \in ACKTags
    BY DEF TypeOK
  <1>1. Requests.removed = {i \in Keys : latest[i] # Absent /\ desired[i] = Absent}
    BY <1>0, RequestsOf DEF Requests
  <1>2. CASE awsTags' = awsTags
    BY <1>2
  <1>3. CASE awsTags' = Untagged(awsTags, Requests.removed)
    BY <1>1, <1>3 DEF Untagged
  <1>4. CASE awsTags' = Tagged(awsTags, Requests.added)
    BY <1>4 DEF Tagged, Merge
  <1> QED BY <1>2, <1>3, <1>4, StepOnTags

\* Changing a tag's value never goes through its absence, in any pass of either
\* kind, whatever fails.
THEOREM WantedKeysStay == Spec => NeverDropsWantedKey
  <1>1. TypeOK /\ [Next]_vars =>
            [pc' # pc =>
                \A k \in Keys :
                    (awsTags[k] # Absent /\ desired[k] # Absent)
                        => awsTags'[k] # Absent]_vars
    <2> SUFFICES ASSUME TypeOK, Next, pc' # pc, NEW k \in Keys,
                        awsTags[k] # Absent, desired[k] # Absent
                 PROVE  awsTags'[k] # Absent
      OBVIOUS
    <2> QED BY StepRemoves
  <1> QED BY <1>1, TypeCorrect, PTL DEF Spec, NeverDropsWantedKey

\* Such a key has been read in this pass and is not one of AWS's own.
LEMMA StepRemovesObserved ==
    ASSUME TypeOK, SystemTagsUntouched, Next, pc' # pc, NEW k \in Keys,
           awsTags[k] # Absent, awsTags'[k] = Absent
    PROVE  latest[k] # Absent /\ k \notin AWSKeys
  <1>1. k \in Requests.removed /\ latest[k] # Absent
    BY StepRemoves
  <1>2. pc \in {"untag", "tag"}
    <2>1. awsTags' # awsTags
      OBVIOUS
    <2> QED BY <2>1 DEF Next, Answered, Failed, StartPass, ReadTags, ReadTagsFails,
           UntagResource, UntagFails, TagResource, TagRefused, TagFails, Crash,
           UserEdit, OtherWrite
  <1> QED BY <1>1, <1>2 DEF SystemTagsUntouched

\* The reconciler never removes a tag it has not read in this pass, nor one of
\* AWS's own.
THEOREM RemovalsWereObserved == Spec => RemovesOnlyObserved
  <1>1. TypeOK /\ SystemTagsUntouched /\ [Next]_vars =>
            [pc' # pc =>
                \A k \in Keys :
                    (awsTags[k] # Absent /\ awsTags'[k] = Absent) =>
                        latest[k] # Absent /\ k \notin AWSKeys]_vars
    BY StepRemovesObserved
  <1> QED BY <1>1, TypeCorrect, SystemTagsSafe, PTL DEF Spec, RemovesOnlyObserved

\* The two requests, in TagPromise's terms: each sets some of the keys that are
\* owed, and together they are all of them.
LEMMA RequestsSet ==
    ASSUME TypeOK
    PROVE  /\ Promise!Owed = Requests.removed \cup Present(Requests.added)
           /\ Requests.removed \subseteq Keys
           /\ Present(Requests.added) \subseteq Keys
           /\ Untagged(awsTags, Requests.removed) = Promise!Set(awsTags, Requests.removed)
           /\ Tagged(awsTags, Requests.added)
                 = Promise!Set(awsTags, Present(Requests.added))
           /\ awsTags = Promise!Set(awsTags, {})
  <1>0. desired \in ACKTags /\ latest \in ACKTags /\ awsTags \in ACKTags
    BY DEF TypeOK
  <1>1. Requests.added =
            [k \in Keys |-> IF latest[k] # desired[k] THEN desired[k] ELSE Absent]
    BY <1>0, RequestsOf DEF Requests
  <1>2. Requests.removed = {k \in Keys : latest[k] # Absent /\ desired[k] = Absent}
    BY <1>0, RequestsOf DEF Requests
  <1>3. Present(Requests.added) =
            {k \in Keys : latest[k] # desired[k] /\ desired[k] # Absent}
    BY <1>1 DEF Present
  <1>4. Promise!Owed = Requests.removed \cup Present(Requests.added)
    BY <1>2, <1>3 DEF Promise!Owed
  <1>5. Untagged(awsTags, Requests.removed) = Promise!Set(awsTags, Requests.removed)
    BY <1>2 DEF Untagged, Promise!Set
  <1>6. ASSUME NEW k \in Keys
        PROVE  (IF Requests.added[k] # Absent THEN Requests.added[k] ELSE awsTags[k])
             = (IF k \in Present(Requests.added) THEN desired[k] ELSE awsTags[k])
    BY <1>1, <1>3
  <1>7. Tagged(awsTags, Requests.added)
            = Promise!Set(awsTags, Present(Requests.added))
    BY <1>6 DEF Tagged, Merge, Promise!Set
  <1>8. awsTags = Promise!Set(awsTags, {})
    BY <1>0 DEF ACKTags, Promise!Set
  <1> QED BY <1>2, <1>3, <1>4, <1>5, <1>7, <1>8

\* A reading is a look: the goal takes over AWS's own tags, and the pass is over
\* if nothing differs.
LEMMA ObserveLooks ==
    ASSUME TypeOK, NEW seen \in ACKTags, pc = "read", Observe(seen),
           awsTags' = awsTags, edits' = edits,
           seen = awsTags \/ (~ReportsReadErrors /\ seen = NoTags)
    PROVE  Promise!Look
  <1>1. desired' = [k \in Keys |-> IF k \in AWSKeys /\ seen[k] # Absent THEN seen[k]
                                   ELSE desired[k]]
    <2>1. mirrorAWSTags(desired, seen) = [k \in Keys |-> mirrorAWSTags(desired, seen)[k]]
      BY DEF mirrorAWSTags, syncAWSTags
    <2> QED BY <2>1, MirrorAt DEF Observe, TypeOK
  <1>2. CASE desired' = seen
    BY <1>1, <1>2 DEF Promise!Look, Promise!Over, Promise!NoTags, NoTags, Observe, Finish
  <1>3. CASE desired' # seen
    BY <1>1, <1>3 DEF Promise!Look, Promise!Over, Promise!NoTags, NoTags, Observe, Finish
  <1> QED BY <1>2, <1>3

\* Each step of TagSync is one of TagPromise, or leaves what it speaks of alone.
LEMMA PromiseStep ==
    ASSUME TypeOK, TypeOK', [Next]_vars
    PROVE  [Promise!Next]_(Promise!vars)
  <1>1. CASE StartPass
    <2>1. Promise!Begin
      BY <1>1 DEF StartPass, Promise!Begin, TypeOK, ACKTags, Promise!ACKTags
    <2> QED BY <2>1 DEF Promise!Next
  <1>2. CASE ReadTags
    <2>1. Promise!Look
      BY <1>2, ObserveLooks DEF ReadTags, TypeOK
    <2> QED BY <2>1 DEF Promise!Next
  <1>3. CASE ReadTagsFails
    <2>1. CASE ReportsReadErrors
      <3>1. Promise!GiveUp({})
        BY <1>3, <2>1, RequestsSet DEF ReadTagsFails, Finish, Promise!GiveUp,
           Promise!Over
      <3> QED BY <3>1 DEF Promise!Next
    <2>2. CASE ~ReportsReadErrors
      <3>1. Promise!Look
        BY <1>3, <2>2, ObserveLooks, TagOperatorTypes DEF ReadTagsFails
      <3> QED BY <3>1 DEF Promise!Next
    <2> QED BY <2>1, <2>2
  <1>4. CASE UntagResource
    <2>1. Requests' = Requests
      BY <1>4 DEF UntagResource, Requests
    <2>2. Promise!Settle(Requests.removed)
      BY <1>4, <2>1, RequestsSet DEF UntagResource, UntagAccepted, Promise!Settle
    <2> QED BY <2>2, RequestsSet DEF Promise!Next
  <1>5. CASE UntagFails
    <2>1. CASE awsTags' = awsTags
      <3>1. Promise!GiveUp({})
        BY <1>5, <2>1, RequestsSet DEF UntagFails, Finish, Promise!GiveUp,
           Promise!Over
      <3> QED BY <3>1 DEF Promise!Next
    <2>2. CASE awsTags' # awsTags
      <3>1. Promise!GiveUp(Requests.removed)
        BY <1>5, <2>2, RequestsSet DEF UntagFails, UntagAccepted, Finish,
           Promise!GiveUp, Promise!Over
      <3> QED BY <3>1, RequestsSet DEF Promise!Next
    <2> QED BY <2>1, <2>2
  <1>6. CASE TagResource
    <2>1. Promise!Settle(Present(Requests.added))
      BY <1>6, RequestsSet DEF TagResource, TagAccepted, Finish, Promise!Settle,
         Promise!Over
    <2> QED BY <2>1, RequestsSet DEF Promise!Next
  <1>7. CASE TagRefused
    <2>1. Promise!GiveUp({})
      BY <1>7, RequestsSet DEF TagRefused, Finish, Promise!GiveUp, Promise!Over
    <2> QED BY <2>1 DEF Promise!Next
  <1>8. CASE TagFails
    <2>1. CASE awsTags' = awsTags
      <3>1. Promise!GiveUp({})
        BY <1>8, <2>1, RequestsSet DEF TagFails, Finish, Promise!GiveUp, Promise!Over
      <3> QED BY <3>1 DEF Promise!Next
    <2>2. CASE awsTags' # awsTags
      <3>1. Promise!GiveUp(Present(Requests.added))
        BY <1>8, <2>2, RequestsSet DEF TagFails, TagAccepted, Finish,
           Promise!GiveUp, Promise!Over
      <3> QED BY <3>1, RequestsSet DEF Promise!Next
    <2> QED BY <2>1, <2>2
  <1>9. CASE Crash
    <2>1. Promise!GiveUp({})
      BY <1>9, RequestsSet DEF Crash, Finish, Promise!GiveUp, Promise!Over, TypeOK
    <2> QED BY <2>1 DEF Promise!Next
  <1>10. CASE UserEdit
    <2>1. Requests' = Requests
      BY <1>10 DEF UserEdit, Requests
    <2>2. Promise!Others
      BY <1>10, <2>1 DEF UserEdit, Promise!Others, TypeOK, ACKTags, Promise!ACKTags
    <2> QED BY <2>2 DEF Promise!Next
  <1>11. CASE OtherWrite
    <2>1. Requests' = Requests
      BY <1>11 DEF OtherWrite, Requests
    <2>2. Promise!Others
      BY <1>11, <2>1 DEF OtherWrite, Promise!Others, TypeOK, ACKTags, Promise!ACKTags
    <2> QED BY <2>2 DEF Promise!Next
  <1>12. CASE UNCHANGED vars
    BY <1>12 DEF vars, Requests, Promise!vars
  <1> QED
    BY <1>1, <1>2, <1>3, <1>4, <1>5, <1>6, <1>7, <1>8, <1>9, <1>10, <1>11, <1>12
       DEF Next, Answered, Failed

LEMMA PromiseInit == Init => Promise!Init
  BY DEF Init, Promise!Init, NoTags, Promise!NoTags

\* TagSync implements TagPromise, for either kind: whatever happens, a pass sets
\* only what it owes and is a success only with all of it set.
THEOREM PromiseKept == Spec => KeepsPromise
  <1>1. TypeOK /\ TypeOK' /\ [Next]_vars => [Promise!Next]_(Promise!vars)
    BY PromiseStep
  <1> QED BY <1>1, PromiseInit, TypeCorrect, PTL DEF Spec, KeepsPromise, Promise!Spec
=================================================================================
