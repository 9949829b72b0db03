------------------------------- MODULE TagPromise --------------------------------
(*****************************************************************************)
(* What a pass promises about the tags of a resource, with nothing said of     *)
(* requests, their number or their order: it looks at the stored tags once,    *)
(* then sets keys that differ from its goal to the goal, in any order and any  *)
(* grouping, touches no other key and none of AWS's, and is a success only     *)
(* when it has set every key that differed.  It may give up at any moment,     *)
(* with one last group written or not, and other clients may write at any      *)
(* moment.  TagSync implements it (Promise in that module).                    *)
(*****************************************************************************)
EXTENDS Tags, Naturals

CONSTANT MayMissRead    \* a look that fails may count as one that saw no tags

VARIABLES
    stored,     \* the tags the resource has
    phase,      \* the pass: "idle", about to "look", or "set"ting keys
    goal,       \* the tags the pass wants
    saw,        \* the tags it has seen
    settled,    \* the keys it has set
    outcome,    \* how the last pass ended: "none" yet, "ok" or "error"
    moves       \* how often users or other clients have moved

vars == <<stored, phase, goal, saw, settled, outcome, moves>>

Init ==
    /\ stored = NoTags
    /\ phase = "idle"
    /\ goal = NoTags
    /\ saw = NoTags
    /\ settled = {}
    /\ outcome = "none"
    /\ moves = 0

Owed == {k \in Keys : saw[k] # goal[k]}

Set(tags, K) == [k \in Keys |-> IF k \in K THEN goal[k] ELSE tags[k]]

Over(result) == phase' = "idle" /\ settled' = {} /\ outcome' = result

Begin ==
    /\ phase = "idle"
    /\ phase' = "look"
    /\ goal' \in ACKTags
    /\ UNCHANGED <<stored, saw, settled, outcome, moves>>

\* AWS's own tags, where there are any, are part of every goal.
Look ==
    /\ phase = "look"
    /\ saw' = stored \/ (MayMissRead /\ saw' = NoTags)
    /\ goal' = [k \in Keys |-> IF k \in AWSKeys /\ saw'[k] # Absent THEN saw'[k]
                               ELSE goal[k]]
    /\ \/ saw' = goal' /\ Over("ok")
       \/ saw' # goal' /\ phase' = "set" /\ UNCHANGED <<settled, outcome>>
    /\ UNCHANGED <<stored, moves>>

\* Some of the keys that are owed are set; with the last of them the pass is over.
Settle(K) ==
    /\ phase = "set"
    /\ K \subseteq Owed \ AWSKeys
    /\ stored' = Set(stored, K)
    /\ \/ settled \cup K = Owed /\ Over("ok")
       \/ settled' = settled \cup K /\ UNCHANGED <<phase, outcome>>
    /\ UNCHANGED <<goal, saw, moves>>

GiveUp(K) ==
    /\ phase # "idle"
    /\ K # {} => phase = "set" /\ K \subseteq Owed \ AWSKeys
    /\ stored' = Set(stored, K)
    /\ Over("error")
    /\ UNCHANGED <<goal, saw, moves>>

Others ==
    /\ moves' = moves + 1
    /\ stored' \in ACKTags
    /\ UNCHANGED <<phase, goal, saw, settled, outcome>>

Next ==
    \/ Begin \/ Look \/ Others
    \/ \E K \in SUBSET Keys : Settle(K) \/ GiveUp(K)

Spec == Init /\ [][Next]_vars
=================================================================================
