------------------------------- MODULE TagPassProofs -------------------------------
(*****************************************************************************)
(* The safety half of TagSync's Converges: a pass ends, and one that nobody    *)
(* disturbs and that meets no failure leaves the tags that are wanted at that   *)
(* moment, for either kind; a pass over such tags writes nothing.               *)
(*                                                                           *)
(* A history variable remembers whether anything failed, or the custom resource *)
(* was edited, since the pass began; it says nothing that TagSync reads.        *)
(*****************************************************************************)
EXTENDS TagSyncProofs

VARIABLE clean      \* no failure and no edit since the last pass began

CleanVars == <<vars, clean>>

Remember ==
    clean' = IF pc = "idle" /\ pc' # "idle" THEN TRUE
             ELSE clean /\ faults' = faults /\ specTags' = specTags

CleanSpec == Init /\ clean = FALSE /\ [][Next /\ Remember]_CleanVars

\* The tags wanted together with those AWS has set.
Asked == {k \in Keys : Wanted[k] # Absent \/ (k \in AWSKeys /\ awsTags[k] # Absent)}

\* Nothing is asked that the service refuses: no "aws:" tag that AWS has not set
\* itself, and not more tags than a resource may carry.
AskedIsAllowed ==
    /\ \A k \in AWSKeys : Wanted[k] # Absent => awsTags[k] # Absent
    /\ Cardinality(Asked) <= TagLimit

\* What one pass without edits, disturbance and failure is enough for.
CleanPassSyncs ==
    (pc = "idle" /\ clean /\ ~disturbed /\ AskedIsAllowed) =>
        outcome = "ok" /\ \A k \in Keys \ AWSKeys : awsTags[k] = Wanted[k]

\* Where such a pass stands: it wants what is wanted, AWS's own tags are part of
\* that once they have been read, no reading has failed (so that PassInv's exception
\* does not arise), and a refusal had its cause in what is asked.
CleanInv ==
    /\ clean => \A k \in Keys \ AWSKeys : desired[k] = Wanted[k]
    /\ clean /\ pc = "read" => \A k \in AWSKeys : desired[k] = Wanted[k]
    /\ clean /\ pc # "read" =>
          \A k \in AWSKeys :
              desired[k] = IF latest[k] # Absent THEN latest[k] ELSE Wanted[k]
    /\ clean /\ ~disturbed =>
          /\ pc = "untag" => awsTags = latest
          /\ pc = "tag" => awsTags = Untagged(latest, Requests.removed)
          /\ pc = "idle" =>
                \/ outcome = "ok" /\ awsTags = desired
                \/ /\ \A k \in AWSKeys : awsTags[k] = latest[k]
                   /\ \/ \E k \in AWSKeys : desired[k] # Absent /\ latest[k] = Absent
                      \/ ~(Cardinality(Present(desired)) <= TagLimit)

\* In such a pass no call fails and nobody edits the custom resource.
LEMMA CleanSteps ==
    ASSUME TypeOK, Next, Remember, clean'
    PROVE  \/ StartPass
           \/ clean /\ (ReadTags \/ UntagResource \/ TagResource \/ TagRefused
                           \/ OtherWrite)
  <1>1. CASE StartPass
    BY <1>1
  <1>2. CASE Failed
    <2>1. faults' = faults + 1 /\ faults \in Nat /\ pc # "idle"
      BY <1>2, TagSyncAssumption DEF Failed, ReadTagsFails, UntagFails, TagFails, Crash, Fault,
         TypeOK
    <2>2. faults' # faults
      BY <2>1
    <2> QED BY <2>1, <2>2 DEF Remember
  <1>3. CASE UserEdit
    <2>1. specTags' # specTags /\ pc' = pc
      BY <1>3, TagSyncAssumption DEF UserEdit, TypeOK, SpecTags
    <2> QED BY <2>1 DEF Remember
  <1>4. CASE Answered \/ OtherWrite
    BY <1>4 DEF Answered, ReadTags, UntagResource, TagResource, TagRefused, OtherWrite,
       Remember
  <1> QED BY <1>1, <1>2, <1>3, <1>4 DEF Next

LEMMA CleanStep ==
    ASSUME TypeOK, CleanInv, [Next /\ Remember]_CleanVars
    PROVE  CleanInv'
  <1> USE DEF TypeOK
  <1>1. CASE UNCHANGED CleanVars
    <2>1. UNCHANGED <<specTags, awsTags, pc, desired, latest, outcome, disturbed, clean>>
      BY <1>1 DEF CleanVars, vars
    <2> QED BY <2>1 DEF CleanInv, Wanted, Requests
  <1>2. CASE ~clean'
    BY <1>2 DEF CleanInv
  <1>3. CASE clean' /\ StartPass
    <2>1. Wanted' = Wanted /\ desired' = Wanted /\ pc' = "read"
      BY <1>3 DEF StartPass, Wanted
    <2> QED BY <2>1, TagsAssumption DEF CleanInv
  <1>4. CASE clean /\ clean' /\ ReadTags
    <2>1. /\ latest' = awsTags /\ awsTags' = awsTags /\ Wanted' = Wanted
          /\ desired' = mirrorAWSTags(desired, awsTags)
          /\ \/ (desired' # awsTags /\ pc' = "untag")
             \/ (desired' = awsTags /\ pc' = "idle" /\ outcome' = "ok")
      BY <1>4 DEF ReadTags, Observe, Finish, Wanted
    <2>2. \A k \in Keys :
              desired'[k] = IF k \in AWSKeys /\ awsTags[k] # Absent THEN awsTags[k]
                            ELSE desired[k]
      BY <2>1, MirrorAt
    <2>3. \A k \in Keys \ AWSKeys : desired'[k] = Wanted'[k]
      BY <1>4, <2>1, <2>2 DEF CleanInv
    <2>4. \A k \in AWSKeys :
              desired'[k] = IF latest'[k] # Absent THEN latest'[k] ELSE Wanted'[k]
      BY <1>4, <2>1, <2>2, TagsAssumption DEF CleanInv, ReadTags
    <2> QED BY <2>1, <2>3, <2>4 DEF CleanInv
  <1>5. CASE clean /\ clean' /\ UntagResource
    <2>1. /\ Requests' = Requests /\ Wanted' = Wanted
          /\ awsTags' = Untagged(awsTags, Requests.removed)
          /\ pc = "untag" /\ pc' = "tag" /\ UNCHANGED <<desired, latest, disturbed>>
      BY <1>5 DEF UntagResource, Requests, Wanted
    <2> QED BY <1>5, <2>1 DEF CleanInv
  <1>6. CASE clean /\ clean' /\ TagResource
    <2>1. /\ Wanted' = Wanted
          /\ awsTags' = Tagged(awsTags, Requests.added)
          /\ pc = "tag" /\ pc' = "idle" /\ outcome' = "ok"
          /\ UNCHANGED <<desired, latest, disturbed>>
      BY <1>6 DEF TagResource, Finish, Wanted
    <2>2. ~disturbed => awsTags' = desired'
      BY <1>6, <2>1, RequestsReachDesired DEF CleanInv, Requests
    <2> QED BY <1>6, <2>1, <2>2 DEF CleanInv
  <1>7. CASE clean /\ clean' /\ TagRefused
    <2>1. /\ Wanted' = Wanted /\ pc = "tag" /\ pc' = "idle" /\ ~TagAccepted
          /\ UNCHANGED <<awsTags, desired, latest, disturbed>>
      BY <1>7 DEF TagRefused, Finish, Wanted
    <2>2. /\ Requests.added =
                [k \in Keys |-> IF latest[k] # desired[k] THEN desired[k] ELSE Absent]
          /\ Requests.removed = {k \in Keys : latest[k] # Absent /\ desired[k] = Absent}
      BY RequestsOf DEF Requests
    <2>3. ASSUME ~disturbed
          PROVE  /\ \A k \in AWSKeys : awsTags[k] = latest[k]
                 /\ \/ \E k \in AWSKeys : desired[k] # Absent /\ latest[k] = Absent
                    \/ ~(Cardinality(Present(desired)) <= TagLimit)
      <3>1. awsTags = Untagged(latest, Requests.removed)
        BY <1>7, <2>1, <2>3 DEF CleanInv
      <3>2. \A k \in AWSKeys : k \in Keys /\ k \notin Requests.removed
        BY <1>7, <2>1, <2>2, TagsAssumption DEF CleanInv
      <3>3. \A k \in AWSKeys : awsTags[k] = latest[k]
        BY <3>1, <3>2 DEF Untagged
      <3>4. Tagged(awsTags, Requests.added) = desired
        BY <3>1, RequestsReachDesired DEF Requests
      <3>5. \/ Present(Requests.added) \cap AWSKeys # {}
            \/ ~(Cardinality(Present(desired)) <= TagLimit)
        BY <2>1, <3>4 DEF TagAccepted
      <3>6. ASSUME NEW k \in AWSKeys, k \in Present(Requests.added)
            PROVE  desired[k] # Absent /\ latest[k] = Absent
        <4>1. desired[k] # Absent /\ latest[k] # desired[k]
          BY <2>2, <3>6, TagsAssumption DEF Present
        <4> QED BY <1>7, <2>1, <4>1 DEF CleanInv
      <3> QED BY <3>3, <3>5, <3>6
    <2> QED BY <1>7, <2>1, <2>3 DEF CleanInv
  <1>8. CASE clean /\ clean' /\ OtherWrite
    <2>1. Wanted' = Wanted /\ disturbed' /\ UNCHANGED <<pc, desired, latest>>
      BY <1>8 DEF OtherWrite, Wanted
    <2> QED BY <1>8, <2>1 DEF CleanInv
  <1> QED BY <1>1, <1>2, <1>3, <1>4, <1>5, <1>6, <1>7, <1>8, CleanSteps

\* The history variable does not change what TagSync does.
LEMMA CleanIsHistory == CleanSpec => Spec
  <1>1. [Next /\ Remember]_CleanVars => [Next]_vars
    BY DEF CleanVars
  <1> QED BY <1>1, PTL DEF CleanSpec, Spec

LEMMA CleanInvariant == CleanSpec => [](TypeOK /\ CleanInv)
  <1>1. Init /\ clean = FALSE => CleanInv
    BY DEF CleanInv
  <1> QED BY <1>1, CleanStep, CleanIsHistory, TypeCorrect, PTL DEF CleanSpec

LEMMA CleanSyncs == ASSUME TypeOK, CleanInv PROVE CleanPassSyncs
  <1> SUFFICES ASSUME pc = "idle", clean, ~disturbed, AskedIsAllowed
               PROVE  outcome = "ok" /\ \A k \in Keys \ AWSKeys : awsTags[k] = Wanted[k]
    BY DEF CleanPassSyncs
  <1>1. CASE outcome = "ok" /\ awsTags = desired
    BY <1>1 DEF CleanInv
  <1>2. CASE /\ \A k \in AWSKeys : awsTags[k] = latest[k]
             /\ \/ \E k \in AWSKeys : desired[k] # Absent /\ latest[k] = Absent
                \/ ~(Cardinality(Present(desired)) <= TagLimit)
    <2>1. \A k \in AWSKeys :
              desired[k] = IF awsTags[k] # Absent THEN awsTags[k] ELSE Wanted[k]
      BY <1>2 DEF CleanInv
    <2>2. \A k \in AWSKeys : desired[k] # Absent => latest[k] # Absent
      BY <1>2, <2>1 DEF AskedIsAllowed
    <2>3. \A k \in Keys : desired[k] # Absent
              <=> Wanted[k] # Absent \/ (k \in AWSKeys /\ awsTags[k] # Absent)
      BY <2>1 DEF CleanInv
    <2>4. Present(desired) = Asked
      BY <2>3 DEF Present, Asked
    <2> QED BY <1>2, <2>2, <2>4 DEF AskedIsAllowed
  <1> QED BY <1>1, <1>2 DEF CleanInv

\* A single pass over tags the service takes, without a failure or an interference,
\* leaves the tags that the custom resource and the controller ask for, for either
\* kind and whatever earlier passes left half done (ReadOne, SyncResourceTags).
THEOREM CleanPassIsEnough == CleanSpec => []CleanPassSyncs
  <1> QED BY CleanSyncs, CleanInvariant, PTL

\* How much of a pass is ahead.
Ahead(at) == CASE at = "read" -> 3 [] at = "untag" -> 2 [] at = "tag" -> 1 [] OTHER -> 0

\* No pass goes on for ever or turns back: every step of the reconciler but a pass's
\* first has less of the pass ahead of it, whatever the calls answer, and nobody else's
\* step lengthens a pass (ReadOne, then Update).
PassesEnd ==
    [][/\ (Answered \/ Failed) => Ahead(pc') < Ahead(pc)
       /\ (UserEdit \/ OtherWrite) => pc' = pc
       /\ StartPass => pc = "idle"]_vars

THEOREM TagPassesEnd == Spec => PassesEnd
  <1>1. ASSUME TypeOK, Answered \/ Failed
        PROVE  Ahead(pc') < Ahead(pc)
    <2>1. pc' # pc /\ pc # "idle"
          /\ pc' \in {"idle", "untag", "tag"} /\ (pc = "tag" => pc' = "idle")
          /\ (pc = "untag" => pc' \in {"idle", "tag"})
      BY <1>1 DEF Answered, Failed, ReadTags, UntagResource, TagResource, TagRefused,
         ReadTagsFails, UntagFails, TagFails, Crash, Observe, Finish
    <2> QED BY <1>1, <2>1 DEF TypeOK, Ahead
  <1>2. UserEdit \/ OtherWrite => pc' = pc
    BY DEF UserEdit, OtherWrite
  <1>3. StartPass => pc = "idle"
    BY DEF StartPass
  <1>4. TypeOK /\ [Next]_vars =>
            [/\ (Answered \/ Failed) => Ahead(pc') < Ahead(pc)
             /\ (UserEdit \/ OtherWrite) => pc' = pc
             /\ StartPass => pc = "idle"]_vars
    BY <1>1, <1>2, <1>3
  <1> QED BY <1>4, TypeCorrect, PTL DEF Spec, PassesEnd

\* A resource in step is left alone: a reading of tags that are the wanted ones, AWS's
\* own beside them, ends the pass there without a request, so that resyncs cost no
\* writes (the tag delta is empty and Update is not called).
InSyncRests ==
    [][(ReadTags /\ \A k \in Keys :
            awsTags[k] = desired[k] \/ (k \in AWSKeys /\ awsTags[k] # Absent))
       => pc' = "idle" /\ outcome' = "ok" /\ awsTags' = awsTags]_vars

THEOREM InSyncStaysUntouched == Spec => InSyncRests
  <1> QED BY InSyncReading, TypeCorrect, PTL DEF Spec, InSyncRests
===================================================================================
