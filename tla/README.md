# Verification of the AWS Glue controller

TLA+ models of the ACK service controller for AWS Glue, the TLC configurations
that check them on small instances, and TLAPS proofs of what matters most.
Paths such as `pkg/tags/sync.go` are relative to the repository.

Run from this directory: `tlc -config MCTagSync_database.cfg MCTagSync` checks a
model, `tlapm TagSyncProofs.tla` checks proofs.

## 1. The system

The controller keeps resources of AWS Glue (databases and jobs) in step with
Kubernetes custom resources. Most of the repository is generated, twice over:
`pkg/resource/database` and `pkg/resource/job` hold the same files with the same
text wherever the two kinds do not differ.

| Component | State it keeps | Operations | Modelled in |
|---|---|---|---|
| Resource managers (`manager.go`, `sdk.go`, `delta.go`, `descriptor.go`) | none of their own: a copy of the custom resource during a pass; the finalizer, conditions and specification in the API server; the resource in Glue | `ReadOne`, `Create`, `Update`, `Delete`, `LateInitialize`, `IsSynced`, `onError`, `onSuccess`, `newResourceDelta`, `MarkManaged`, `MarkUnmanaged` | `Conditions`, `Controller`, `Ownership` |
| Tag synchronisation (`pkg/tags/sync.go`, `tags.go`, `hooks.go`, tag methods of `manager.go`) | the tags of the custom resource and those in AWS | `EnsureTags`, `GetResourceTags`, `mirrorAWSTags`, `SyncResourceTags` | `Tags`, `TagSync`, `TagPromise` |
| One update of tags and fields (`sdkFind`, `sdkUpdate`) | none: the two halves of the copy | the tag half, then the field half | `UpdatePass` |
| Manager cache (`manager_factory.go`) | `rmCache` under a `sync.RWMutex`, shared by all workers | `ManagerFor` | `ManagerFactory` |
| Role references (`job/references.go`) | `spec.role` of the copy | `ResolveReferences`, `ClearResolvedReferences` | `JobReferences` |
| Field conversion (payload builders, `newJobUpdate`, `sdkFind`, `newResourceDelta`) | none: the field in the custom resource and in Glue | one statement per field and direction | `FieldKinds`, `FieldsSent`, `FieldsUpdated`, `FieldsRead`, `FieldConversion` |
| Database references, identifiers, adoption | none | accessors and setters | not modelled |
| Process start (`cmd/controller/main.go`), registry | the registered factories | straight line | not modelled |
| API types, Helm chart, e2e tests | | | not modelled |

**How they interact.** The ACK runtime (a library, not in the repository) takes
a custom resource from a work queue, asks the factory for a manager
(`ManagerFor`), resolves references, calls `EnsureTags`, then `ReadOne`, then
`Create` or `Update` or `Delete`, then `LateInitialize`, and patches the custom
resource between and after these calls. The managers call Glue. Nothing is
locked across calls: users edit the custom resource, the IAM controller changes
the Role a Job refers to, other clients write to Glue and to its tags, and the
process may die between any two calls. All state survives in the API server and
in Glue; a pass keeps nothing.

**What is hard.** A pass acts on readings that are old by the time it writes
(tags, the resource, the Role). Several calls make one logical update (untag and
tag, tags and fields, finalizer and create, create and read back). An answer may
be lost after its call took effect, and the AWS client then sends the request
again without telling anybody. Errors are of several sorts (terminal,
the service's, the network's, the builder's) and each decides which
condition is set and whether the finalizer goes. Two workers share the cache.

**What makes each component correct.**

* Life cycle: nothing the controller created is ever left without an owner;
  it writes only for a resource that holds its finalizer; `ResourceSynced` and
  `Terminal` tell the truth; deletion completes; acceptable specifications reach
  Glue.
* Tags: never touch what AWS owns or what was not read; never drop a wanted key
  on the way; never trip over the limit; say "in sync" only when it is so; get
  there in the end.
* Cache: calls return; the number of managers is bounded.
* References: a request carries only what the user wrote or what was ready
  during the pass; a complaint is only about what the user wrote.
* Conversion: what a specification says arrives, within its width, or the
  request is not sent; an update puts the resource at rest.

## 2. The modules and the code

Each component has a module of its state and actions, an `MC` module with the
sets of its TLC instances, and, where something is proved, a `Proofs` module;
`TagPassProofs` and `ControllerPassProofs` hold what is proved of whole passes.
Definitions keep the names of the functions they stand for; a definition whose
name has the original's name before an underscore is a mutated form, used to
see that the properties notice such a mistake.

### Tags, TagSync

`Tags` is the algebra: a tag map is a total function on keys with `Absent` for a
missing entry and, in a custom resource, `Nil` for an entry with a nil pointer.
`TagSync` is one resource:

| Model | Code |
|---|---|
| `specTags`, `awsTags` | `spec.tags`; the tags Glue stores |
| `desired`, `latest` | the same fields of the pass's two resources |
| `StartPass` | `EnsureTags` (manager.go) on the object just fetched |
| `ReadTags`, `ReadTagsFails`, `Observe` | `getTags` in `sdkFind`, `mirrorAWSTags` in `ReadOne`, then the tag delta |
| `UntagResource`, `TagResource` and their `...Fails`, `TagRefused` | the two halves of `SyncResourceTags` |
| `ReportsReadErrors` | Database returns the error of `getTags`; Job's `sdkFind` assigns it and returns nil |
| `Crash`, `UserEdit`, `OtherWrite` | the process, users and other AWS clients |

What the service does with a request (it refuses `aws:` keys and more tags than
its limit) and `GetTagsDifference`, `Merge` of the runtime library are external
and modelled from how `sync.go` uses them. Tags of `CreateDatabase`/`CreateJob`
are in `FieldConversion`'s request but not followed here: a resource in
`TagSync` exists already. `FilterSystemTags`, which the runtime calls on what it
patches into the custom resource, is left out.

`TagPromise` is what a pass promises about the tags, with nothing of requests in
it: it looks once, then sets keys that differ from its goal, in any grouping,
none of AWS's, and succeeds only with all of them set. `TagSync` implements it
(`KeepsPromise`) with `awsTags` as the stored tags, the steps between read and end
as one phase, and the removed keys as settled once `UntagResource` is over. The
mapping carries the edits made too, so that a step of the reconciler cannot pass
for one of somebody else's.

### UpdatePass

Read and update of one resource with both of its halves. `GetFields` is the call
in `sdkFind` that precedes `getTags`; `SyncTags` takes the steps of `TagSync`; an
error there ends the update (`AfterTags`, the early returns of `sdkUpdate`), and so
does a delta with nothing but tags; `UpdateFields`, `UpdateRefused` and
`UpdateFails` are the rest of `sdkUpdate`. The fields are one body that Glue takes
or does not. A body need not read back as it was written: `sdkFind` always sets the
plain numbers of an answer (`job/sdk.go:3290`), and Glue fills in what a request
leaves out. `Observed` is what a stored body reads back as, any function on bodies;
a body that it changes differs at every read and is written again by every pass, and
`InGlue` says that Glue holds a body as stored or as read. `UpdatePass` extends `TagSync` and takes its steps, so the tag half is
the one that the other runs check, and the lemmas about those steps carry over.

### Conditions, Controller

`Conditions` is `updateConditions`, `terminalAWSError`, `onError` and
`onSuccess`, which both kinds have with the same text. `Controller` is one
custom resource, the places in Glue it may designate, and the reconciler: `pc`
names the next step. Steps that call the managers are the repository's; their
order and the patches between them are the ACK runtime's and marked external.

| Model | Code |
|---|---|
| `ReadFinds`, `ReadFindsNothing`, `ReadFails` | `ReadOne` / `sdkFind`, then `newResourceDelta` (`Differs`) |
| `Manage`, `Unmanage`, `RemoveFinalizer` | `MarkManaged`, `MarkUnmanaged` and the patch that follows |
| `Create`, `CreateRefused`, `CreateUnencodable`, `CreateAnswerLost` | `sdkCreate` with each sort of answer |
| `ReadBack`, `ReadBackFails` | the runtime's read after a create (external) |
| `Update`, `UpdateRefused`, `UpdateFails` | `sdkUpdate` |
| `LateInitialize`, `LateInitializeFails`, `PatchSpec` | `lateInitializeFromReadOneOutput` and the patch of the specification |
| `DeleteReadFinds`, `DeleteReadFindsNothing`, `Delete`, `DeleteFails`, `Release` | `sdkFind`, `sdkDelete`, `MarkUnmanaged` of a deletion pass |
| `Publish` | `IsSynced` and the status patch |
| `Crash`, `UserEdit`, `UserDelete`, `OtherWrite` | the environment, at any step |

A specification is an identity (`catalogID` of a Database, `name` of a Job) and
a body; bodies are told apart by whether Glue takes them, answers
`InvalidInputException` or the request builder refuses them. `LateInit` and the
sets `SpecIds`, `Refused`, `Unencodable` make the instance a Database or a Job.
`made`, `fresh` and `clean` are ghosts: what this custom resource's Create made,
whether nobody interfered since the pass began, and whether no call failed since. With `Resends` the client
of the SDK repeats a request whose answer it lost: `CreateResent` is the create
that took effect and is answered that the resource exists, and a delete that took
effect may be answered that there is nothing. Nothing in the managers configures
the retryer, so the default one is at work; runs and theorems say which value they
are about.

`Ownership` is the abstract specification: the finalizer is a claim on one
resource; the controller makes, changes and removes it only under the claim,
removes it only on request, and gives the claim up only when nothing it made is
left. `Controller` implements it (`KeepsOwnership`) with the finalizer as claim, the
place that the specification designates as resource and `made` as what is ours.

### ManagerFactory

`ManagerFor` as its two critical sections, for any number of workers: `RLock`, the
read section `Lookup` (to `RUnlock`), `Lock`, which keeps other writers and new
readers out, `Drained`, when the readers that were in have left, and the write
section `Make` (to the deferred `Unlock`). How the two locks exclude each other is
`sync.RWMutex`'s. `madeBy` counts, as a ghost, what each worker has made.

### JobReferences

`ResolveReferences`, `validateReferenceFields`,
`getReferencedResourceState_Role` and `ClearResolvedReferences` are operators on
`role`/`roleRef` and the Role object. The pass resolves, adds the finalizer if
it is missing (clearing, patching and resolving again), and sends. Users and the
IAM controller change the Job and the Role between any two steps. A reference is
without `From`, without a name, or names a Role in the Job's namespace or another
one; `EnableCrossNamespace`, which the chart sets to false, says whether the
other is allowed. `ready` is a ghost: which ARNs the Role had, and where, while it
was ready since the pass began.

### FieldKinds, FieldsSent, FieldsUpdated, FieldsRead, FieldTables, FieldConversion

`FieldsSent`, `FieldsUpdated` and `FieldsRead` list, type by type, with which kind
of statement each field is put into a create request, put into an update request
and taken out of an answer; the source writes the nested types out anew in each
of the three functions, and so there are three tables (pointer passed on,
plain enum text, 64 to 32 bits, plain number, plain flag, list or map, nested
type). `FieldTables` looks every field up in each: 919 fields, nested ones
included. `FieldConversion` follows one field through
`Create`, `Update`, `Observe` and `AtRest` passes with user edits and foreign
writes in between. The fields and their kinds are constants, which the runs take
from `FieldTables` and the theorems leave open; what the delta compares
(`Compared`) is part of the module. `Agrees` says of a field what the two builders,
the read and the delta must have in common. `own` is what Glue puts into a field
that a request leaves out, anything its type allows. `blocked` says that some other
field keeps the request from being built.

## 3. The runs

| Run | Configuration | Question | Size |
|---|---|---|---|
| tags_database | `MCTagSync_database.cfg` | Are the tags safe on the way and right in the end when read errors are reported, and is that what `TagPromise` allows? | 120 402 states |
| update_job | `MCUpdatePass_job.cfg` | What do the halves of an update owe each other, when read errors are not reported? | 242 506 |
| tags_job_insync | `MCTagSync_job_insync.cfg` | Does success mean in sync then? **No** | violation |
| controller_database | `MCController_database.cfg` | Ownership (also the abstract one), truthful conditions, what a clean pass is enough for, deletion and convergence of a Database | 348 162 |
| controller_job | `MCController_job.cfg` | Do a Job's specification and its deletion get through when requests may fail to be built and may be sent twice? | 186 190 |
| controller_resent | `MCController_resent.cfg` | And is nothing orphaned when a create is sent twice? **A resource may be** | violation |
| controller_moved | `MCController_moved.cfg` | And if users edit the identity? **A resource is left behind** | violation |
| factory_calls | `MCManagerFactory_calls.cfg` | Can the calls block each other, does every one return, and what can the race cost? | 33 674 |
| factory_one | `MCManagerFactory_one.cfg` | One manager per combination? **No** | violation |
| references_role | `MCJobReferences_role.cfg` | What may a request carry, from which namespace, and does a ready Role resolve both times? | 332 390 |
| fields | `MCFieldConversion_fields.cfg` | Do the two builders, the read and the delta agree on every field? | 4.3 million |
| fields_unset | `MCFieldConversion_unset.cfg` | Is a field that neither side sets at rest? **No** | violation |

**Bounds.** `MaxEdits` and `MaxFaults` bound what the environment does, `MaxCalls`
the calls of `ManagerFor`, `MaxChanges` the edits and foreign writes of
`FieldConversion`. The worst cases need few of them: an edit or foreign write
during a pass, a second to undo or hide it, and one that starts a pass that
builds on the damage make three; a fault that leaves something half done and one
in the pass that repairs it make two. Passes are not bounded, so what a fault
leaves behind is met by any number of later passes. Four tag keys are a key of
the user's, another the user does not write but other clients do, one of the
controller's own and one of AWS's, and a limit of three makes replacing a tag at
the limit happen. Two identities and three bodies (two that Glue takes, one it
does not) are what an edit of each sort needs. Three workers are two that race
and one that comes late. Three ARNs are the user's and two that one Role may
have in turn. `UpdatePass` has a key of each owner, two edits (one of a half
while the other is under way, and a second) and four bodies: two that read back as
they are, one that leaves a field out and reads back as one of these, and one that is
refused. Narrow integers
from -4 to 3 (`Half` is 4 instead of 2^31) have the same two boundaries and the same
wrap as those of 32 bits; the values tried are the boundaries, those just beyond, 0
and 1. Two texts and two lists besides the empty ones are a value and another; they
are interchangeable, and the run uses that symmetry (it has no liveness property).

**Deadlock** is checked except in the controller and factory runs: a custom
resource that is gone, with the edits used up, and workers whose calls are used
up, have nothing left to do.

**Fairness.** The `Converges`, `DeletionCompletes`, `ReferenceReachesGlue`,
`TagsReachGlue`, `FieldsReachGlue`, `ComesToRest` and `CallsReturn` properties
assume only that the steps of a pass that need no failure are not put off for
ever (weak fairness of the reconciler's steps).
That is what the work queue gives: a pass that returns an error is put back with
a delay, a synced resource is looked at again at the resync period, and the AWS
client gives a call a bounded number of attempts, each answered or given up. No
fairness is assumed of faults, users or other clients; that they stop is the
bound on them. `TagsReachGlue` shows that a specification refused for ever does not starve the
tags under it. `ManagerFactory` uses strong fairness of the two lock
acquisitions (`RLock`, `Lock`), which is what `sync.RWMutex` documents: a blocked
writer keeps new readers out and is itself let in, and readers that waited for a
writer go before the next one; a worker inside a section goes on, and a writer does
when the readers have left (weak fairness). That one reconciler works on a custom resource
is what the chart deploys (`replicas: 1`) and the work queue guarantees within a
process.

## 4. What the runs show

Everything stated holds, except five promises that the code does not keep:

1. *A Job's tags may be wrong after a success.* `job/sdk.go:3373` drops the error
   of `getTags`. `TagSync` shows that nothing is removed because of it and that
   a later pass repairs it, but a pass meanwhile reports success.
2. *Moving a resource leaves one behind.* The place in Glue comes from the
   current specification only; after an edit of `catalogID`, or a Job's `name`,
   deletion removes the new resource and then the finalizer. Where users do not
   do so, nothing is ever left behind (proved).
3. *Two managers for one combination.* `ManagerFor` does not look again after it
   has taken the write lock. The cost is at most one manager per worker
   (proved), and none with one worker, the chart's default
   (`defaultMaxConcurrentSyncs: 1`).
4. *A create that the client sends twice may orphan what it made.* When the answer
   to a create is lost, the SDK's default retryer repeats it, and the answer to the
   second is that the resource exists. `sdkCreate` returns this before it defers
   `WrapPostCreateError`, so it counts as a create that made nothing and the
   finalizer is taken off. The next pass finds a resource without holding the
   finalizer, takes it for somebody else's and reports it as Terminal; what was made
   has no owner, and a deletion from then on leaves it behind. Where users do not move
   the resource nothing else takes the finalizer off something made
   (`OrphansComeFromResending`), and where no request is sent twice either nothing is
   left behind (both proved).
5. *A Job that leaves `maxRetries` out is updated by every pass.* The answer's
   plain 0 differs from nil, which `generator.yaml` prevents for two fields of a
   Database and for none of a Job. The same holds of fields that Glue fills in
   (`timeout`, `jobMode`: a Job has nothing to late initialize), and so `ComesToRest`
   promises rest only for a body that reads back as it is, and `WrittenFieldsRest` only
   for a field that the user wrote. What such a Job says reaches Glue all the same
   (`FieldsReachGlue` has such a body).

Two things that look wrong do no harm. `ResolveReferences` changes its argument
though its comment (`job/references.go:54`) promises a copy; the pass clears the
reference before it resolves again, and so nobody is blamed for what the first
resolution wrote (`VerdictIsUsers`, proved). And an update whose request is refused
has written its tags already: the pass is not reported as a success, the tags are
the ones the user asked for, and later passes complete the rest when it is
acceptable (`update_job`).

## 5. What is proved

| Module | Theorem | For every |
|---|---|---|
| `TagSyncProofs` | `TypeCorrect`, `PassInvariant`, `SystemTagsSafe`, `UntagsAreAccepted`, `WantedTagsThere`, `WantedKeysStay`, `RemovalsWereObserved` | set of keys and values, limit, number of edits and faults, and either kind |
| | `PromiseKept` (`TagSync` implements `TagPromise`) | the same |
| | `SuccessIsSync`, `LimitSafe`, `RefusalsHaveCauses` | the same, for a kind that reports read errors |
| `TagPassProofs` | `CleanPassIsEnough`, `TagPassesEnd`, `InSyncStaysUntouched` | the same, either kind |
| `UpdatePassProofs` | `UpdateTypeCorrect`, `SuccessIsBoth`, `TagsComeFirst`, `RequestsKeptInUpdates`, `RefusedFieldsKeepTags`, `CleanUpdateIsEnough`, `UpdatesEnd`, `InStepIsLeftAlone` | the same, either kind, set of bodies and what they read back as |
| | `PromiseKeptInUpdates` (`UpdatePass` implements `TagPromise` as well) | the same |
| `ControllerProofs` | `TypeCorrect`, `FinalizerHeld`, `PassKnowsGlue`, `WritesAreManaged`, `SyncedIsApplied`, `TerminalIsRefused`, `SuccessIsClear` | set of identities and bodies, number of edits and faults |
| | `OneResourceOwned`, `NothingOrphaned`, `OwnershipKept` (`Controller` implements `Ownership`) | the same, where users do not move the resource (`StableIdentity`) and no create is sent twice (`~Resends`) |
| `ControllerPassProofs` | `PassSettles`, `StaysSettled`, `PassesEnd`, `ErrorsAreCaused` | set of identities and bodies, number of edits and faults |
| | `MadeStaysWithinReach`, `OrphansComeFromResending` | the same, where users do not move the resource |
| `ManagerFactoryProofs` | `TypeCorrect`, `FactoryInvariant`, `BoundedDuplication`, `NoCallsWaitInACircle` | number of workers, combinations and calls |
| | `SingleWorkerShares` | the same, with one worker |
| `JobReferencesProofs` | `TypeCorrect`, `ReferenceInvariant`, `VerdictsAreUsers`, `RequestsNameReadyRole`, `ReadyRolesResolve`, `QuietPassIsEnough`, `ResolvingEnds` | set of ARNs and number of edits |
| `FieldConversionProofs` | `TypeCorrect`, `SuccessIsApplied`, `WrittenFieldRests` | width of the narrow integers, set of numbers, texts and lists, number of changes, and table of fields that agree (`Agrees`) |

With these every safety property of a passing run is a theorem, but for
`FieldAgrees`, which is the hypothesis of the last line.

**The liveness properties, as far as safety goes.** Each of them is an argument of
three parts, and only the first needs fairness: passes begin and their steps are
taken; a pass ends; and a pass that nobody disturbs and that meets no failure (as all
do once edits and faults are used up) leaves behind what is promised, and later
ones keep it. The second and third are theorems:

| Property (TLC) | A pass ends | What one clean pass leaves | And keeps |
|---|---|---|---|
| `Converges`, `DeletionCompletes` of `Controller` | `PassesEnd` | `PassSettles` | `StaysSettled` |
| `Converges` of `TagSync` | `TagPassesEnd` | `CleanPassIsEnough` | `InSyncStaysUntouched` |
| `TagsReachGlue`, `FieldsReachGlue`, `ComesToRest` | `UpdatesEnd` | `CleanUpdateIsEnough`, `RefusedFieldsKeepTags` | `InStepIsLeftAlone` |
| `ReferenceReachesGlue` | `ResolvingEnds` | `QuietPassIsEnough`, `ReadyRolesResolve` | each pass sends it again |
| `CallsReturn` | | `NoCallsWaitInACircle` | |

A pass ends because a measure of the steps it has ahead (`Ahead`, `UpdateAhead`)
falls with each of its steps, whatever the calls answer, and no step of anybody
else raises it. What one clean pass leaves is an invariant once it is remembered
whether the pass was clean. `Controller` has a ghost for that, which a run checks
(`CleanPassSettles`); in `TagPassProofs`, `UpdatePassProofs` and
`JobReferencesProofs` it is a history variable of the proofs (`CleanSpec`,
`CleanUpdateSpec`, `QuietSpec`), added without touching what the model does: each of
these specifications implies the original one (`CleanIsHistory`, and the first step
of the two other proofs), and the variable restricts no step. A service that refuses
what is asked is excepted where the code cannot help it: a tag of AWS's that AWS has
not set, more tags than the limit (`AskedIsAllowed`), a body that Glue or the builder
refuses. `RefusalsHaveCauses` and `ErrorsAreCaused` say that there is no other reason.

The constants have only the assumptions named in their modules
(`TagsAssumption`, `TagSyncAssumption`, `UpdatePassAssumption`,
`ControllerAssumption`, `FactoryAssumption`, `ReferencesAssumption`,
`FieldAssumption`). `ReportsReadErrors`, `StableIdentity`
and `~Resends` are hypotheses of single theorems, because the runs
`tags_job_insync`, `controller_moved` and `controller_resent` show that the
conclusion fails without them. That every field of the code's tables `Agrees` is
what the run `fields` finds (`FieldAgrees`, in every initial state, one for each field
and more); it is a hypothesis and no assumption on the constants, so that the
run still says what becomes of a field on which they do not agree.

**The inductive invariants.** None of the properties is inductive by itself.

* `PassInv`: that success means in sync follows only from where the stored tags
  stand at each step of an undisturbed pass: as read, as read less the removed
  keys, as wanted. It is about both kinds: a Job's pass whose `getTags` failed
  (`Blind`) removes nothing, and when it succeeds every key it wants has the value
  wanted, which is all that is left of in sync. Lemma `RequestsReachDesired` says that the two requests
  computed from a reading lead from it exactly to the wanted tags; `RequestsOf`
  gives the requests key by key, from which the two action properties follow
  without an invariant.
* `FinalizerInv`: the finalizer is on the custom resource at every step that
  writes. `MarkManaged` is patched before `Create` is called, a read that found
  the resource unmanaged does not go on, and only `Unmanage` and `Release` take
  it away, after which a pass writes nothing more to Glue.
* `OwnershipInv` relates what was made to the identity of all three copies of the
  specification (custom resource, `desired`, `latest`) and says that nothing is
  made when a pass is about to create or to give the finalizer up. It rests on
  `FinalizerInv`, on the error code by which a read tells a resource that is not there
  from a call that failed, and on the order of the steps: a pass that fails once
  Create has succeeded ends without `Unmanage`, which the runtime does only for an
  error of Create itself, and a Create whose answer is lost does too, since its error
  is not the service's.
* `AppliedInv`: as long as nobody interferes, a pass works from the current
  specification, goes past its write only if Glue holds that body, and has an
  error only on its way out. Lemma `ErrorsEnd` has the other half: `onError`
  never turns a failure into no error, so a failed call is not reported as synced.
* `FactoryInv`: each lock is held by the workers in its section and nobody reads
  the map while it is written, what was made is cached, and a worker that missed has
  made none for that combination. `NoCircle` follows: the worker that waits for the
  readers is no reader itself, and no reader waits for anything.
* `ReferenceInv`: before each resolution a reference has no role beside it but
  the user's, and `desired` at `send` is what a request may carry.
* `CleanInv` of `ControllerPassProofs`, over `FinalizerInv` and `AppliedInv`: in an
  undisturbed pass what was read is still so, so that nothing is there where it is
  about to create and something is where it is about to update or delete; every
  error has a cause outside the pass. `Settled`, and that a deletion is over, follow
  at its end.
* `ReachInv` of the same module takes the place of `OwnershipInv` when requests may be
  sent twice: what was made is at the one place, but the finalizer may be gone.
* `CleanInv` of `TagPassProofs`: a clean pass wants what is wanted now, and stands
  where the reading and its requests put it, with no exception for a reading that
  failed. A refusal (`TagRefused`) is carried to the end of the pass together with
  its cause. `CleanUpdateInv` adds that the body the pass works from is the current
  one and is in Glue once it has ended well; its tag half is inherited
  (`CleanTagsInUpdate`).
* `QuietInv`, over `ReferenceInv`: in a quiet pass the Role has had one ARN, so that
  `MayCarry` leaves no other to be sent.
* `ConditionInv`, over `AppliedInv`, says that a pass on its way to success carries no error
  condition, and that Terminal at the end of an undisturbed pass is about the body
  it worked from. Lemmas `TerminalErrors` and `SuccessClears` say which errors set
  Terminal, and that success sets neither condition.

* `HalvesInv`, over `PassInv`, says which half of an update a pass is in and what is
  done of each: what was read is what Glue's body reads back as until it is written,
  and the write is reached only from a tag half that ended without an error. Every
  step of `UpdatePass` is one of `TagSync` or touches nothing of it but its bounds and
  ghost (`StepOfTags`, `OutsideTags`), so that `PassInv` and the refinement of
  `TagPromise` are inherited step by step and not proved again.
* `FieldInv`: two undisturbed passes in a row rest on what the first leaves
  behind. Either the specification cannot be sent (`Unsendable`), or the resource
  is there and the delta is empty (`Quiet`) unless the field is one that never
  rests (`Restless`); and the second works from exactly that. `SendRests` shows it
  after a request, `RestStays` after a pass that sends none, kind by kind
  (`UnsetOf`, `DiffersOf`, `PlainOf`). `EncodeKeeps` is the numeric core: with
  `WrappedKeeps`, what passes the range check arrives unchanged, at any width.

**The refinements.** `PromiseKept` maps every step of `TagSync` to one of
`TagPromise` or a stutter. Lemma `RequestsSet` is the core: what the two requests do
to the stored tags is to set the removed keys and then all other keys that differ.
`ObserveLooks` maps the reading. `OwnershipKept` needs that under
`StableIdentity` every copy of the specification designates one place
(`OnePlace`), then takes the guard of each abstract step from `FinalizerInv` (the
claim is held) and `OwnershipInv` (nothing of ours is left when it is given up).

`PromiseKeptInUpdates` adds that a step outside the tag half is invisible to
`TagPromise` or an edit of somebody else's.

`PassInv`, `FinalizerInv`, `OwnershipInv`, `AppliedInv`, `FactoryInv` and
`ReferenceInv` are invariants of a passing run too, with `SyncedMeansApplied`,
`OncePerWorker` and `VerdictIsUsers` as parts of them; only the proofs need the
others. `PassKnowsGlue` holds for both values of
`Resends`, and so `controller_job`, which has it true, leaves `AppliedInv` to the
theorem.

## 6. What is only model-checked

* The liveness properties: fairness and `ENABLED` are beyond the prover. What of them
  is safety is proved (section 5); that passes are begun and taken to their end is
  what the runs add.
* `FieldAgrees`: the tables of fields are searched with recursive operators, for
  which the prover has no back end. TLC goes through them completely.
* The five violations, of course, which are counterexamples.

## 7. What is not modelled

* The ACK runtime, Glue and controller-runtime are not in the repository. What
  the code relies on of them is modelled and marked external.
* Adoption (`SetIdentifiers`, `PopulateResourceFromAnnotation`), the deletion policy
  *retain* and read-only resources: the methods in the repository set one field;
  when they are called, what is read and what is kept is decided in the library.
* Two reconcilers at once: the chart deploys one replica and the work queue gives a
  key to one worker. A create that takes effect after the client has given it up
  and a later pass has read: a request sent twice is the case of it that the code's
  own client brings about.
* Process start is a straight line; the API types are declarations.
* In `FieldConversion`: interplay of two fields or of two elements of one list, and
  nil elements of a list.
* In `Controller`: fields one by one (see `FieldConversion`), bodies that read back as
  others (see `UpdatePass`; no property of `Controller` says that passes leave off
  writing), tags (see
  `TagSync`, and `UpdatePass` for the two together) and references (see
  `JobReferences`). A pass calls these parts one after the other, and they share no
  state but the custom resource.

## 8. Plan

Built so far, in this order: `TagSync`, `Controller`, `ManagerFactory`,
`JobReferences`, `FieldConversion` with its three tables, `TagPromise` and
`Ownership` with both refinements proved, requests sent twice, namespaces of
references, `UpdatePass`; then the proofs of every safety property, and the safety
halves of the liveness properties. Next:

1. **Composition.** The Job's role as part of `UpdatePass`: a Role that changes
   between resolution and update, with tags written in between.
