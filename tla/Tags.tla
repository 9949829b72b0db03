---------------------------------- MODULE Tags ----------------------------------
(*****************************************************************************)
(* The tag algebra of the controller: pkg/resource/{database,job}/tags.go    *)
(* (identical files), the tag methods of manager.go and the set arithmetic   *)
(* of pkg/tags/sync.go.                                                      *)
(*                                                                           *)
(* A tag collection is a total function on Keys whose value is Absent where  *)
(* the Go map has no entry.  In a custom resource an entry may also be a nil *)
(* pointer, Nil; acktags.Tags has no nil values.                             *)
(*****************************************************************************)
EXTENDS FiniteSets

CONSTANTS
    Keys,        \* tag keys
    Values,      \* tag values, the empty string among them
    EmptyValue,  \* the empty string
    Absent,      \* the key is not in the map
    Nil,         \* the key is in the map with a nil pointer
    AWSKeys      \* the keys that start with "aws:"

ASSUME TagsAssumption ==
    /\ EmptyValue \in Values
    /\ Absent \notin Values
    /\ Nil \notin Values
    /\ Nil # Absent
    /\ AWSKeys \subseteq Keys

\* acktags.Tags, and the map[string]*string of a custom resource.
ACKTags == [Keys -> Values \cup {Absent}]
SpecTags == [Keys -> Values \cup {Absent, Nil}]

NoTags == [k \in Keys |-> Absent]

Present(tags) == {k \in Keys : tags[k] # Absent}

\* Mutant: nil pointers are copied.
convertToOrderedACKTags_keepsNil(tags) == tags

\* A nil value becomes the empty string.
convertToOrderedACKTags(tags) ==
    [k \in Keys |-> IF tags[k] = Nil THEN EmptyValue ELSE tags[k]]

\* acktags.Merge of the runtime library: entries of a win over entries of b.
Merge(a, b) == [k \in Keys |-> IF a[k] # Absent THEN a[k] ELSE b[k]]

\* Add the controller's default tags without overriding the user's.
EnsureTags(specTags, defaultTags) ==
    Merge(convertToOrderedACKTags(specTags), defaultTags)

\* Copy the "aws:" entries of b into a.
syncAWSTags(a, b) ==
    [k \in Keys |-> IF k \in AWSKeys /\ b[k] # Absent THEN b[k] ELSE a[k]]

\* Mutant: nothing is mirrored.
mirrorAWSTags_off(specTags, observedTags) == convertToOrderedACKTags(specTags)

\* ReadOne makes the desired tags carry the "aws:" entries it has just read.
mirrorAWSTags(specTags, observedTags) ==
    syncAWSTags(convertToOrderedACKTags(specTags),
                convertToOrderedACKTags(observedTags))

\* ackcompare.GetTagsDifference of the runtime library compares entries by key
\* and value, so a key whose value changes is both added and removed.
GetTagsDifference(from, to) ==
    [added   |-> [k \in Keys |-> IF from[k] # to[k] THEN to[k] ELSE Absent],
     removed |-> {k \in Keys : from[k] # Absent /\ from[k] # to[k]}]

\* Mutants: changed keys are removed and put; only missing keys are put; every
\* key that is not wanted is removed, read or not.
TagRequests_removesChanged(desiredTags, latestTags) ==
    GetTagsDifference(convertToOrderedACKTags(latestTags),
                      convertToOrderedACKTags(desiredTags))
TagRequests_putsMissing(desiredTags, latestTags) ==
    [added   |-> [k \in Keys |-> IF latestTags[k] = Absent THEN desiredTags[k]
                                 ELSE Absent],
     removed |-> Present(latestTags) \ Present(desiredTags)]
TagRequests_removesUnwanted(desiredTags, latestTags) ==
    [added   |-> GetTagsDifference(latestTags, desiredTags).added,
     removed |-> (Keys \ AWSKeys) \ Present(desiredTags)]

\* The requests SyncResourceTags makes: the entries to put and the keys to
\* remove, from which every key that is also put has been deleted.
TagRequests(desiredTags, latestTags) ==
    LET diff == GetTagsDifference(convertToOrderedACKTags(latestTags),
                                  convertToOrderedACKTags(desiredTags))
    IN  [added   |-> diff.added,
         removed |-> diff.removed \ Present(diff.added)]

\* What the UntagResource and TagResource APIs do to the stored tags.
Untagged(tags, removed) ==
    [k \in Keys |-> IF k \in removed THEN Absent ELSE tags[k]]
Tagged(tags, added) == Merge(added, tags)
=================================================================================
