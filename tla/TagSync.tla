-------------------------------- MODULE TagSync ---------------------------------
(*****************************************************************************)
(* Keeping the tags of one Glue resource in step with its custom resource:   *)
(* the tag part of ReadOne, the tag delta, and SyncResourceTags               *)
(* (pkg/tags/sync.go), with everything that can happen between its calls.     *)
(*                                                                           *)
(* The controller reads the tags once (GetTags), decides from that reading,   *)
(* and then makes up to two writes (UntagResource, TagResource).  Users edit  *)
(* the custom resource and other clients of AWS write tags at any moment; a   *)
(* call may be refused, its answer may be lost after it took effect, and the  *)
(* controller may be killed.                                                  *)
(*****************************************************************************)
EXTENDS Tags, Naturals

CONSTANTS
    DefaultTags,        \* the controller's own tags, added to every resource
    TagLimit,           \* how many tags the service lets a resource carry
    ReportsReadErrors,  \* a failed GetTags fails the read: TRUE for Database,
                        \* FALSE for Job
    UserKeys,           \* the keys users write in spec.tags
    MaxEdits,           \* bound on edits by users and by other AWS clients
    MaxFaults           \* bound on failed calls and crashes

ASSUME TagSyncAssumption ==
    /\ DefaultTags \in ACKTags
    /\ TagLimit \in Nat
    /\ ReportsReadErrors \in BOOLEAN
    /\ UserKeys \subseteq Keys
    /\ MaxEdits \in Nat
    /\ MaxFaults \in Nat

VARIABLES
    specTags,   \* spec.tags of the custom resource in the API server
    awsTags,    \* the tags AWS stores for the resource
    pc,         \* the reconciler: "idle" or about to "read", "untag" or "tag"
    desired,    \* desired.ko.Spec.Tags of the current or last pass
    latest,     \* latest.ko.Spec.Tags of the current or last pass
    outcome,    \* how the last pass ended: "none" yet, "ok" or "error"
    disturbed,  \* another client wrote a tag since the last pass began (ghost)
    edits,      \* edits made so far
    faults      \* failures so far

vars == <<specTags, awsTags, pc, desired, latest, outcome, disturbed, edits, faults>>

TypeOK ==
    /\ specTags \in SpecTags
    /\ awsTags \in ACKTags
    /\ pc \in {"idle", "read", "untag", "tag"}
    /\ desired \in ACKTags
    /\ latest \in ACKTags
    /\ outcome \in {"none", "ok", "error"}
    /\ disturbed \in BOOLEAN
    /\ edits \in 0..MaxEdits
    /\ faults \in 0..MaxFaults

Init ==
    /\ specTags = NoTags
    /\ awsTags = NoTags
    /\ pc = "idle"
    /\ desired = NoTags
    /\ latest = NoTags
    /\ outcome = "none"
    /\ disturbed = FALSE
    /\ edits = 0
    /\ faults = 0

-----------------------------------------------------------------------------
\* The reconciler.

Finish(result) == pc' = "idle" /\ outcome' = result

Fault == faults < MaxFaults /\ faults' = faults + 1

\* The two requests of the current pass.
Requests == TagRequests(desired, latest)

\* A reconciliation pass begins: the runtime reads the custom resource and
\* calls EnsureTags on it.
StartPass ==
    /\ pc = "idle"
    /\ pc' = "read"
    /\ desired' = EnsureTags(specTags, DefaultTags)
    /\ disturbed' = FALSE
    /\ UNCHANGED <<specTags, awsTags, latest, outcome, edits, faults>>

\* Mutant: additions go first.
Observe_tagFirst(observed) ==
    /\ latest' = observed
    /\ desired' = mirrorAWSTags(desired, observed)
    /\ IF desired' # observed
       THEN pc' = "tag" /\ UNCHANGED outcome
       ELSE Finish("ok")

\* ReadOne returns: the desired tags take over the "aws:" tags of the reading,
\* and Update is called when the tag delta is not empty.
Observe(observed) ==
    /\ latest' = observed
    /\ desired' = mirrorAWSTags(desired, observed)
    /\ IF desired' # observed
       THEN pc' = "untag" /\ UNCHANGED outcome
       ELSE Finish("ok")

ReadTags ==
    /\ pc = "read"
    /\ Observe(awsTags)
    /\ UNCHANGED <<specTags, awsTags, disturbed, edits, faults>>

\* GetTags fails.  Database returns the error; Job's sdkFind assigns it to err
\* and returns a nil error all the same, with nil tags in the resource.
ReadTagsFails ==
    /\ pc = "read"
    /\ Fault
    /\ IF ReportsReadErrors
       THEN Finish("error") /\ UNCHANGED <<desired, latest>>
       ELSE Observe(NoTags)
    /\ UNCHANGED <<specTags, awsTags, disturbed, edits>>

\* UntagResource, called only when there is a key to remove.  The service
\* refuses to remove an "aws:" tag.
UntagAccepted == Requests.removed \cap AWSKeys = {}

UntagResource ==
    /\ pc = "untag"
    /\ UntagAccepted
    /\ awsTags' = Untagged(awsTags, Requests.removed)
    /\ pc' = "tag"
    /\ UNCHANGED <<specTags, desired, latest, outcome, disturbed, edits, faults>>

\* The call fails, or its answer is lost after it took effect.
UntagFails ==
    /\ pc = "untag"
    /\ Requests.removed # {}
    /\ Fault
    /\ \/ UNCHANGED awsTags
       \/ UntagAccepted /\ awsTags' = Untagged(awsTags, Requests.removed)
    /\ Finish("error")
    /\ UNCHANGED <<specTags, desired, latest, disturbed, edits>>

\* TagResource, called only when there is an entry to put.  The service refuses
\* to write an "aws:" tag and to go beyond its limit.
TagAccepted ==
    /\ Present(Requests.added) \cap AWSKeys = {}
    /\ Cardinality(Present(Tagged(awsTags, Requests.added))) <= TagLimit

TagResource ==
    /\ pc = "tag"
    /\ Present(Requests.added) # {} => TagAccepted
    /\ awsTags' = Tagged(awsTags, Requests.added)
    /\ Finish("ok")
    /\ UNCHANGED <<specTags, desired, latest, disturbed, edits, faults>>

TagRefused ==
    /\ pc = "tag"
    /\ Present(Requests.added) # {}
    /\ ~TagAccepted
    /\ Finish("error")
    /\ UNCHANGED <<specTags, awsTags, desired, latest, disturbed, edits, faults>>

TagFails ==
    /\ pc = "tag"
    /\ Present(Requests.added) # {}
    /\ Fault
    /\ \/ UNCHANGED awsTags
       \/ TagAccepted /\ awsTags' = Tagged(awsTags, Requests.added)
    /\ Finish("error")
    /\ UNCHANGED <<specTags, desired, latest, disturbed, edits>>

\* The process dies in the middle of a pass.
Crash ==
    /\ pc # "idle"
    /\ Fault
    /\ Finish("error")
    /\ UNCHANGED <<specTags, awsTags, desired, latest, disturbed, edits>>

-----------------------------------------------------------------------------
\* The environment.

\* A user sets or deletes one tag of the custom resource.
UserEdit ==
    /\ edits < MaxEdits
    /\ edits' = edits + 1
    /\ \E k \in UserKeys, v \in Values \cup {Absent, Nil} :
          /\ specTags[k] # v
          /\ specTags' = [specTags EXCEPT ![k] = v]
    /\ UNCHANGED <<awsTags, pc, desired, latest, outcome, disturbed, faults>>

\* Another client of AWS, or AWS itself, sets or deletes one tag.
OtherWrite ==
    /\ edits < MaxEdits
    /\ edits' = edits + 1
    /\ \E k \in Keys, v \in Values \cup {Absent} :
          /\ awsTags[k] # v
          /\ awsTags' = [awsTags EXCEPT ![k] = v]
          /\ Cardinality(Present(awsTags')) <= TagLimit
    /\ disturbed' = TRUE
    /\ UNCHANGED <<specTags, pc, desired, latest, outcome, faults>>

-----------------------------------------------------------------------------
Answered == ReadTags \/ UntagResource \/ TagResource \/ TagRefused

Failed == ReadTagsFails \/ UntagFails \/ TagFails \/ Crash

Next == StartPass \/ Answered \/ Failed \/ UserEdit \/ OtherWrite

Spec == Init /\ [][Next]_vars

\* The runtime resyncs every resource periodically, and a call is eventually
\* answered.
FairSpec == Spec /\ WF_vars(StartPass) /\ WF_vars(Answered)

-----------------------------------------------------------------------------
\* Properties.

\* What the user and the controller want for a key AWS does not own.
Wanted == EnsureTags(specTags, DefaultTags)

\* No request touches a tag AWS owns: the "aws:" keys read are neither removed
\* nor overwritten, whatever the user wrote under the same keys (mirrorAWSTags
\* and syncAWSTags, "prevents the controller from attempting to modify
\* AWS-managed tags").
SystemTagsUntouched ==
    pc \in {"untag", "tag"} =>
        \A k \in AWSKeys :
            /\ k \notin Requests.removed
            /\ latest[k] # Absent => Requests.added[k] = Absent

\* A pass that ends without an error, while nobody else wrote a tag, leaves
\* the resource with the tags the pass wanted, except for those AWS owns
\* (SyncResourceTags, and "syncTags keeps the resource's tags in sync" of the
\* hooks).
SuccessMeansInSync ==
    (pc = "idle" /\ outcome = "ok" /\ ~disturbed) =>
        \A k \in Keys \ AWSKeys : awsTags[k] = desired[k]

\* A kind that does not report read errors may have worked from a reading that
\* failed, which shows no tags.
Blind == ~ReportsReadErrors /\ latest = NoTags

\* How far the current pass has come: undisturbed, the stored tags are the ones
\* read, then those less the removed keys, then the wanted ones; a pass that was
\* blind has at least put every tag that is wanted.  With mirrorAWSTags's effect on
\* the desired tags this is the inductive invariant behind the three properties
\* around it.
PassInv ==
    /\ pc \in {"untag", "tag"} =>
          \A k \in AWSKeys : latest[k] # Absent => desired[k] = latest[k]
    /\ ~disturbed =>
          /\ pc = "untag" => awsTags = latest \/ Blind
          /\ pc = "tag" => awsTags = Untagged(latest, Requests.removed) \/ Blind
          /\ pc = "idle" /\ outcome = "ok" =>
                \/ awsTags = desired
                \/ Blind /\ \A k \in Present(desired) : awsTags[k] = desired[k]

\* Removals come before additions, so that replacing tags at the service's
\* limit is never refused for exceeding it.
ReplacesWithinLimit ==
    (/\ pc = "tag"
     /\ ~disturbed
     /\ Cardinality(Present(desired)) <= TagLimit)
    => Cardinality(Present(Tagged(awsTags, Requests.added))) <= TagLimit

\* Changing the value of a tag never removes it on the way: no step of the
\* reconciler drops a key that the pass wants (the keys in `added` are taken out
\* of `toRemove`).
NeverDropsWantedKey ==
    [][pc' # pc =>
        \A k \in Keys :
            (awsTags[k] # Absent /\ desired[k] # Absent) => awsTags'[k] # Absent]_vars

\* The reconciler removes only tags it has read: one that another client adds
\* after GetTags survives the pass.
RemovesOnlyObserved ==
    [][pc' # pc =>
        \A k \in Keys :
            (awsTags[k] # Absent /\ awsTags'[k] = Absent) =>
                latest[k] # Absent /\ k \notin AWSKeys]_vars

\* The pass implements TagPromise: whatever requests it makes and wherever it is
\* interrupted, it sets nothing but keys that differ from what it wants, to what
\* it wants, and ends as a success only with all of them set.
Promise == INSTANCE TagPromise WITH
    MayMissRead <- ~ReportsReadErrors,
    stored  <- awsTags,
    phase   <- CASE pc = "idle" -> "idle" [] pc = "read" -> "look" [] OTHER -> "set",
    goal    <- desired,
    saw     <- latest,
    settled <- IF pc = "tag" THEN Requests.removed ELSE {},
    moves   <- edits

KeepsPromise == Promise!Spec

\* Once edits and failures stop, the resource's tags become the wanted ones and
\* stay so, whatever the passes before did halfway, unless the user asks for a
\* tag that only AWS may write.
Converges ==
    <>[]((\A k \in AWSKeys : specTags[k] # Absent => awsTags[k] # Absent)
            => \A k \in Keys \ AWSKeys : awsTags[k] = Wanted[k])
=================================================================================
