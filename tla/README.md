# A TLA+ model of pulumi-provider-framework

The framework is the gRPC server of Pulumi providers that are generated from an
OpenAPI document. This directory models the part of it that decides what
happens to a user's cloud resources: the resource handlers of
`rest/provider.go`, the way `rest/request.go` finds the path parameters of a
request, the state that travels through the engine's checkpoint, and the HTTP
client that retries throttled requests. TLC checks small instances, TLAPS
proves the main safety properties for every value of the constants.

## Inventory

| Part | State it keeps | Operations | What makes it correct |
|---|---|---|---|
| Resource lifecycle (`rest/provider.go`) | none of its own: the engine's checkpoint (id, inputs, outputs) and the cloud's objects | Check, Diff, Create, Read, import, Update, Delete | every request names the resource's own object; no live object is forgotten; the checkpoint follows the cloud; a refresh or an unchanged program changes nothing |
| Path parameters (`rest/request.go`) | none | getPathParamsMap, removePathParamsFromRequestBody, mapImportIDToPathParams, additionsArePathParams | the path that is rebuilt is the path of creation |
| The shared OpenAPI document | parameter slices read, and appended to, by all handlers | the head of getPathParamsMap | a handler sees the parameters of its own operation |
| Property maps (`rest/transform.go`, `openapi/properties.go`, `state/state.go`) | none | TransformBody, FilterReadOnlyProperties, ApplyDiffFromCloudProvider, GetResourceState, GetOldInputs | names are translated both ways, nothing is lost, in whatever order Go ranges over a map |
| Embedded ids (`rest/response.go`) | none | tryPluckingProp, convertNumericIDToString | the id that is reported is the id that is found again |
| HTTP client (`rest/rate_limit_transport.go`) | per call: body, timer | RoundTrip | retries carry the same body, wait as long as asked, never repeat what was done; calls return |
| Configure | engineSendsOldInputs, engineSendsOldInputsOnDelete, base URL, router, global path parameters | Configure, OnConfigure | requests name the resource's own object whichever engine stored it |
| Callbacks (`callback/callback.go`) | the provider author's | OnPre..., OnPost..., OnDiff, OnConfigure | a callback that refuses leaves a state the next call can work from |
| Invoke, GetSchema, GetMapping, Attach, Call, Construct, CheckConfig, DiffConfig, Cancel | none | | Cancel should abort what is going on |
| Request validation (`validateRequest`) | none | rewrites the body before it is sent: every property that is absent or null gets the schema's default | a handler's request still says what the handler meant |
| OpenAPI loading, authentication | none | | string work and libraries |

The parts meet in three places. The **engine** calls a handler over gRPC, one
call at a time for one resource and many at once for many resources, and stores
what the handler returns; the handler knows nothing but what the engine sends.
The handler builds an HTTP request and gives it to `httpClient.Do`, that is to
the **rate limit transport**, which gives it to the **cloud**. Callbacks run
just before and just after that call, and OnDiff in the middle of Diff.

What is hard here: the path of a request is reconstructed, years after the
object was created, from outputs and inputs that Read, Update and the engine
have rewritten since; two kinds of engine write different checkpoints; a
failure can fall on either side of the cloud's execution; the retry loop sends
a consumed request again; handlers share a slice without a lock; maps are
changed while they are ranged over, and Go chooses the order.

## Modules

| Module | Models |
|---|---|
| `PropertyMaps` | property maps as functions with `Absent`, and the pure operations on them |
| `PathParams` | where a path parameter's value comes from: properties, a nested object (the stash), global parameters, old inputs, in that order |
| `Provider` | the lifecycle of one resource: checkpoint (`cur`, and `old` for what a replacement left to delete), the call in flight (`rpc`), the cloud's objects (`cloud`), configuration, and history variables |
| `Ownership` | the abstract specification: which objects of the cloud are made, held, changed, destroyed and let go of, without requests, answers, paths or property maps |
| `ProviderInv` | the inductive invariants `OwnInv` and `SyncInv` and the circumstances they need |
| `ProviderOwnership` | the refinement mapping from `Provider` to `Ownership`, and the invariant `OwnershipInv` it rests on |
| `ProviderProofs`, `ProviderOwnProofs`, `ProviderOwnershipProofs`, `ProviderDiffProofs`, `ProviderSyncProofs` | theorems about the lifecycle |
| `Codec` | one answer with objects in objects: TransformBody as a walk that changes the maps it ranges over, where the id is found, what an import makes of the answer, and what the next request carries |
| `CodecInv`, `CodecProofs` | the inductive invariant of `Codec`, the circumstances its properties of ids need, and its theorems |
| `RateLimitTransport`, `TransportProofs` | the retry loop, by concurrent call, with time, and its theorems |
| `ParamSlices`, `ParamSlicesProofs` | append on the shared slice, and its theorems |
| `MCProvider`, `MCCodec`, `MCTransport`, `MCParamSlices` | small instances for TLC |
| `MCProviderProved` | those of `MCProvider` that are in the theorems' circumstances, which it states for TLC to check |

### How Provider corresponds to the code

A handler is cut in two at `httpClient.Do`. `DeployCreate`, `DeployUpdate`,
`DeployReplace`, `StartRead`, `StartImport` and `StartDelete` are the engine's decision
together with the handler's first half (Check and Diff are pure, so they are
evaluated inside the step); `CloudCreate`, `CloudUpdate`, `CloudRead` and
`CloudDelete` execute the request; `FinishCreate`, `FinishRead`, `FinishImport`,
`FinishUpdate` and `FinishDelete` are the second half and what the engine stores.
`DropUndeletable` is Delete's early return, `DeploySame` the engine's reaction to
DIFF_NONE. `RequestFails` is every failure before the cloud has acted (an OnPre callback,
the network, any error status), `AnswerLost` every failure after it (a lost or
undecodable answer, an OnPost callback, a dead plugin). `ForeignCreate`, `ForeignEdit`
and `ForeignDelete` are other users of the cloud. `Configure` starts the provider
under another engine.

Every body goes through `SentBody`: createHTTPRequestWithBody removes the path
parameters and renames the rest, and validateRequest fills in the defaults of the
operation's schema (`WithSchemaDefaults`), in a PATCH as in a POST. What the
schemas declare (`createDefaults`, `updateDefaults`) need not be what the cloud fills in
by itself (`defaults`).

`Diff` is a set of answers: after its own early returns the OnDiff callback may
answer instead (`AnswersAbout`), with an update or a replacement. `PatchProps` adds the
discriminator of the update schema.

External behaviour, modelled from how the code uses it: an empty
`UpdateResponse.Properties` becomes empty outputs; DIFF_NONE stores the new
inputs; DIFF_UNKNOWN makes the engine compare the inputs itself and update; a
replacement creates before it deletes, with inputs checked without the old
ones; what is pending deletion is deleted before the next deployment. The cloud
fills in defaults, merges patches, and repeats in its answers what the API
shape (`APIType`) says.

History variables: `dirty` (per object, properties that an edit or a lost
answer changed without the checkpoint learning of it), `untracked` (objects no
checkpoint is expected to hold), `mishaps` (how many such events there were).

### How Provider maps to Ownership

`life` and `content` are the cloud's objects, `tracked` the ids in `cur` and `old`,
`orphans` is `untracked`, and `hand` is an object whose creation was answered to a
handler that has not returned yet. CloudCreate is then Make, FinishCreate is
Keep, AnswerLost of a creation is Lose, CloudUpdate is Change, CloudDelete is
Destroy, FinishDelete is Release, DropUndeletable is Abandon, FinishImport is Adopt, and
everything the engine and the handlers do in between is a stutter. The
abstract specification's guards are the promise: an object is made only when no other
creation is pending and at most the one to be replaced is held, changed or
destroyed only when it is held, released only when it is gone, adopted only
when nobody holds it.

### How Codec corresponds to the code

A JSON object is a node of a heap, since Go's maps are references and
TransformBody works in place; the conversions to and from `PropertyMap` copy,
which is a heap of its own (`outputs`, `inputs`, `body`). The stack holds the open
ranges of the recursion. `Visit` is one turn of `for k, v := range` (any
key that is left), `Descend` the look at the value, or at the next item of a list, with the recursive
call if it is an object, `Write` the delete and the
insertion, after which Go may or may not still visit the inserted key, `Leave` the
end of the loop. The code does not look into a list in a list; such a list counts as a scalar.
`Reachable`, which the properties use, is what is in every set that holds the root and what its members
hold, so that no definition is recursive. Between the walks: `DecodeOutputs` (end of Create and of Invoke), `DecodeInputs`
and `OverlayAnswer` (end of an import), `ReportId`, and `FillPath` with `Sent` for the next request.

## Runs

| Run | Checks | Shows |
|---|---|---|
| `provider` | OwnInv, TypeOK, TargetsOwn, Addressable, InSync, OutputsInSync, PatchNamesKind, OwnershipInv, SyncInv, NoForgottenObject, DiffAnswers, OnlyForCause, UpdatesOnlyChanged, RefreshStable, RefreshKeepsOutputs, ImplementsOwnership | the lifecycle under an engine that sends old inputs, for five API shapes |
| `upgrade` | OwnInv, TargetsOwn, Addressable, NoForgottenObject, InSyncWhereShaped, ImplementsOwnership | engines of both kinds alternate, with OnDiff callbacks that always update in place or always keep among the APIs; requests still name the resource's own object and none is lost, an engine that sends old inputs can delete what either kind stored, one that does not, what has a stash; the checkpoint still agrees with the cloud where updates are PUTs or replacements |
| `codec` | CodecInvariant, TypeOK, WalkIsTransform, RoundTrip, SameId, ImportKeepsId, CallEnds | nested answers, in every order of their keys; CodecInvariant is the inductive invariant behind the theorems |
| `transport` | TypeOK, AttemptsAlike, RespectsRetryAfter, ExecutedOnce, EveryCallReturns | the retry loop with two concurrent calls |
| `param_slices` | TypeOK, OwnParamsWhenFull, SeesDeclared | what racing handlers can and cannot see |
| `override` | TargetsOwn is violated | a global path parameter wins over the resource's own after creation |
| `all_of` | TargetsOwn is violated | with an allOf schema a moved resource is updated in place, then addressed wrongly |
| `no_content` | Addressable is violated | a 204 update wipes the id |
| `schema_defaults` | UpdatesOnlyChanged is violated | a default in the PATCH schema resets what the program did not change |
| `read_only` | ReadOnlyIsRemoved is violated | an import keeps read-only objects among the inputs |
| `cancel` | CancelAborts is violated | Cancel does not reach the retry loop |
| `shared_params` | OwnParams is violated | two handlers append into one array |

The seven violations are disagreements between the code and one of its own
comments or tests; PROJECT.json quotes each. Those circumstances are not in
the passing runs, or not in what their properties say there, and the theorems name them as assumptions.

### Bounds

* `Ids` (2 objects): enough for a resource and its replacement, or a tracked
  and a foreign object. Ids are interchangeable, hence the symmetry.
* `MaxMishaps` (2, and 1 in `upgrade`): foreign edits, foreign deletions and lost answers in
  one behaviour. Two of them allow a lost update followed by a lost or edited
  recovery. Failures before execution are not bounded.
* Five API shapes, each for a way in which requests or answers differ: PATCH
  with an OnDiff callback that may update in place or ask for a replacement, PATCH with a
  discriminator, PATCH with answers that do not repeat the path, a generated
  name and no DELETE, PUT with such answers, and no update at all. Four POST schemas
  and the PUT schema declare a default, which is the cloud's own. `upgrade` adds
  OnDiff callbacks that update in place, or keep, even what moves the resource, the former with a default
  in its PATCH schema.
* `Values` (2), four programs: a base, one that changes a body property and
  adds another (so that the reverse removes it), one that only adds, one that moves the resource
  to another parent. Body properties are one renamed by the metadata and one
  spelled alike; the cloud adds a read-only one and one that only the POST returns.
* `Codec`: a root, two objects below it and one below the second of them, so that a
  renamed object may meet another under its new name, an object may be
  nested in a list, and two objects may carry an id; 256 calls with their
  answers, of which some vary the ids and others the names that meet. Properties with and without another SDK name, three scalars, one of
  them a number. Every object is in one place: an answer is a tree.
* The retry loop: delays of 0, 1 and 2 seconds of 2 ticks, `MaxDuration` 7, two calls.
  Time is discrete; a delay never wraps around in this run.
* `ParamSlices`: two handlers, three operations with one, two and no parameters, capacities
  from full to two free places.

### Fairness

`Codec` assumes that a handler that can go on does (weak fairness of Next), which a
goroutine that never blocks is due; `CallEnds` then says that no order of keys
makes a range go on for ever. Its calls end, so deadlock is not checked.

`RateLimitTransport` has the other liveness properties. `Progress` is what Go's scheduler and timers
guarantee: a RoundTrip that can go on does, time passes, and a request with a
consumed body is refused. `Responsive` says that the cloud answers every request, and
is an assumption, since the client has no timeout. `EveryCallReturns` needs `Lenient` as well, that
the cloud does not throttle one call for ever: the loop has no limit of its
own. `CancelAborts` is checked without `Lenient`, because Cancel's comment promises an end in any
case. Deadlock is not checked for the transport: its calls end. The lifecycle
and the slices have safety properties only.

## Proofs

**Lifecycle.** `TypeCorrect` proves TypeOK (with a strengthening, `TypeInv`, on the values
that may be in flight: inputs hold no ids in scope parameters and no nulls).
`TargetsOwnObject` and `AlwaysAddressable` follow from `OwnInvariant`. TargetsOwn is not inductive: a request is right only
because the checkpoint it was built from agrees with the cloud, and the
checkpoint is right only because the answer it was built from was. `OwnInv` therefore says
of every tracked resource (`Tracks`) that its outputs hold the id and either its
outputs (when answers repeat the scope) or its inputs (when they do not) hold
the path, and so does the stash an older engine left there; of every answer that it tells the truth about its object; and of
every update in flight that it does not move a resource whose path is only in
its inputs. Engines may take turns: the stash is left behind by
whoever wrote it, and stays true because nothing that keeps a resource whose path is only in its inputs
moves it. The key lemmas are `DiffKeepsScope` (a program that changes the path is never an
update), `OldEnginesReplace` (without old inputs, nothing that has a path is), `ItemTargetIsOwn` (a tracked resource's path is found whichever source it comes from)
and `ReplyTellsThePath`. The step is proved action by action (`OwnEngine`, `OwnCloud`, `OwnHandlers`).

The assumptions (`Circumstances`): programs give the whole scope (`CompletePrograms`), path parameters are spelled
alike on both sides (`PlainPathNames`), and API shapes are `WellShaped`: top-level update properties without
path parameters, no 204 updates, no global path parameters, and answers that
repeat the scope of an importable type and of one whose OnDiff callback may do less than replace.
The `override`, `all_of` and `no_content` runs show what happens without
three of them. `NotOnlyPaths` is needed where some engine sends no old inputs: every
program is then nothing but additions to Diff, and one that gives only
path parameters would be stored as no change, for another path than the object's.

`AlwaysAddressable` needs no more than that engines which send old inputs send them to Delete too
(`OldInputsToDelete`), because Delete decides by the other flag. What an older engine finds without a stash is no
promise of the code, and Addressable leaves it out; when there are only such engines there is
always a stash that says enough (`StashIsEnough`).

**Ownership.** `LifecycleImplementsOwnership` maps the initial states and every step as
described above. The guards of `Ownership` need `OwnershipInv`: the slot a
creation or an import will fill is free, `cur` and `old` are two objects, the object in hand
is neither of them, an answered delete is done, and an object that is being imported is
nobody's. It is inductive together with `NoForgottenObject` and `OwnInv`: that a DELETE
that was answered destroyed the object of the slot it was sent for is `OwnInv`'s
(TargetsOwn), and that an imported object is not held needs both. Hence the
same `Circumstances`.

**Diff and refreshes.** `DiffAlwaysAnswers` needs one assumption (`DiffHasPaths`: path parameters in the collection's path, or an update operation). Without it Diff does fail: for a
collection such as `/things` and a type that can only be replaced, an added property makes getPathParamsMap
return "did not find any path parameters" (request.go 386). `RefreshKeeps` needs none: `OutputsInv` says that outputs are in SDK names
and that a read's state is the checkpoint's, so that the overlay keeps every output and the
renaming drops none. `UpdatesHaveCause` assumes engines that send old inputs and
creation schemas that hold nothing but properties a program may give (`DiffCircumstances`);
`InputsInv` says that the checkpoint's inputs have no other names, so that
whatever makes Diff report a change is a body property or a part of the path.

**Agreement with the cloud.** `AlwaysInSync`, `OutputsAlwaysInSync`, `PatchAlwaysNamesKind`,
`RefreshIsStable` and `PatchLeavesTheRest` (a PATCH changes nothing in the cloud but what the program
changed) follow from `SyncInvariant`. InSync is not inductive: what a
resource says after a call is what the request wrote and the answer showed. `SyncInv`
therefore says, of every body property, that
- the checkpoint's inputs and outputs agree with the object, except where it is dirty or an
  update has just written what the engine does not know yet (`CheckpointSays`);
- the body of a creation gives what the program gives, and of what it does not give nothing or the cloud's own
  default; the body of an update gives a property, removes it, or leaves alone what the checkpoint says
  already (`CreateSays`, `UpdateSays`), a discriminator included;
- an answer shows the object, except for what has changed since it was given (`AnswerShows`);
- the cloud has filled in its defaults (`FilledIn`), and a resource without inputs shows nothing.

The key lemmas are `ToAPIBody` (renaming and the removal of path parameters leave every body property
under its API name), `SentBodySays` and `SentBodyGives` (what is left of it after validation has filled in defaults), `UpdateBodySays` (PatchProps's removals and carried-over properties say the same as the
new inputs), and `ReadAgrees` (the overlay and the reverse diff of a Read agree with the
object that answered, for what the read learns). Besides the circumstances above, `SyncNames` wants that
SDK and API names pair (`PairedNames`), that no program is empty (`SomePrograms`: a Read of a
resource without inputs takes the answer for its inputs, and keeps an output
that the cloud has removed), and that an import takes for inputs only what programs may give
(`GivesInputs`). Of an API, `SyncShaped` wants that what programs give can be written and the
discriminator is not updated in place (`BodiesWritable`), that its schemas' defaults for what programs may give are the cloud's
own and a PATCH schema has none (`DefaultsShaped`: the run `schema_defaults` shows what happens otherwise), and that there is no PATCH if some engine
sends no old inputs (`OldInputsToPatch`: the body of such a PATCH is computed without them and removes
nothing, so that a property the program gave up stays in the cloud). `SyncCircumstances` is both, for every API;
`InSyncWhereverShaped` leaves the other APIs as they are. With engines that send no old inputs, the argument
is `OldEnginesChange`: Diff never calls a deployment unchanged, so that DeploySame stores no inputs that
were not sent. `MCProviderProved` states
that the instances of `provider` and `upgrade` satisfy what the theorems assume of them.

**Walking an answer.** `RangeIsTransform` is about one range of TransformBody over one map, with
the step of `Codec`'s `Write` (`RenameKey`): `RangeInv` says that a key that is not
waiting has moved to its new name, with the value it had, that one that waits has
not, and that a key that was inserted moves to itself if it is visited. The theorem says that `RangeInv` holds
when the range starts, that a turn for any waiting key preserves it, whether or not the inserted key comes to wait,
and that the map is `TransformBody`'s when nothing waits. `TransformTwice` is why a second visit is harmless. Both rest on
`RenamingAssumption`: lookup maps have no chains and no two names for one.

`WalksTransform` is about the whole walk, for answers of any size and depth. The renaming of nested objects needs
no induction over the depth, because the stack of open ranges carries the argument: `WalkInv` says that every open
range is in `RangeInv`, that each one is in an object that the one before holds
under the key it is at, and that there is a set of objects that are `done`, closed under what they hold, in which
there is already all that an open range has handed out, except what it is in and
what is due (`Entered`). `Leave` adds an object to the set, `Write` leaves its members alone because
renaming a renamed map changes nothing (`RenameRenamed`: an object that is met twice is walked twice), and when the stack is
empty the root is done, so that everything that can be reached is. That the walk is never in
one object twice (`Apart`, `Fresh`) follows from `AnswersAssumption`: an answer is a JSON document, and no object is inside of
itself (`Acyclic`); the renaming brings no object into a map that was not there (`BelowLess`).

`MadeInv` carries that through the handler, to the next request. `ImportsRoundTrip` composes the two
renamings of an import and of its PUT (`ThereAndBack`): what the cloud answered goes back less what FilterReadOnlyProperties
removed and the path parameters, before validation adds defaults; read-only properties inside of objects are not removed and go
back too (the run `read_only`). It is for metadata whose renamed names pair (`MutualNames`) and that does not
rename path parameters (`PlainParams`). `SameIdEverywhere` and `ImportsKeepTheId` assume that an answer which repeats the
item parameter gives it the value of the id (`NamedByItsId`): the next request looks there first (`AddressedById`).
`CodecTypesHold` also assumes that ids are strings or numbers (`ScalarIds`). `MCCodec` states
that its answers satisfy all four.

**Transport.** `EveryAttemptAlike` (if callbacks replace body and GetBody together), `RetriesInTime` (if delays fit a
Duration; the wrap-around is in the model), `NeverTwice` (always).

**Slices.** `AlwaysSeesDeclared`: for any number of handlers, operations and parameters and any
capacity, the shared array holds at each place only what some operation
declares there, and a handler reads no place before it is written.
`CopiesAreOwn`: when the path's slice has no room to spare, append copies, and
each handler reads the parameters of its own operation. Its invariant follows the
handler's loop: what it has seen so far is a prefix of its own operation's parameters.

Every property of the `provider`, `codec`, `transport` and `param_slices` runs is a
theorem, and so are those of `upgrade`, but for liveness. Checked by TLC only: EveryCallReturns
and CallEnds (liveness is beyond the prover).

## Not modelled, and why

* oneOf and discriminators inside of FilterReadOnlyProperties, and request bodies
  whose schema is one of several: which branch is taken is a question of the
  document, not of the state.
* The rounding of large numbers by `json.Unmarshal`: a number is a value with one text.
* Creation by PUT at the item endpoint: such objects are named by the program
  and the request may find one there, so that they are keyed by path; objects
  here are keyed by the id the cloud gives. An item parameter that is renamed.
* Callbacks that rewrite outputs: they may do anything.
* An import id with fewer segments than the path has parameters: mapImportIDToPathParams panics (request.go 496-502).
* Defaults that a schema declares inside of an object or in a branch of a oneOf: `SentBody` fills in top-level
  properties, and `Codec`'s PUT is the body before validation.
* Configure's API host, router and OnConfigure: they are set once, before the
  first resource call. Request validation beyond nulls and defaults, authentication, OpenAPI loading: string work and libraries.
* The metadata calls and the fake provider: constants, and test support.
* Connections: that Update and Delete leave a response body open on an unexpected status.
* Several resources in one lifecycle: handlers share only the configuration and
  the parameter slices, and the latter have a module of their own.

## Plan

Done, in the order in which it was planned: `PropertyMaps`, `PathParams`, `Provider`, `RateLimitTransport`,
`ParamSlices`; then the nested answers (`Codec`), OnDiff and the discriminator in `Provider`,
the abstract specification (`Ownership`) and its refinement, and the theorems above.

The renaming of nested answers is a theorem since `CodecInv`, and the lifecycle's
theorems hold for engines of both kinds, in turns; those about the agreement with the cloud do unless such
engines patch.

Left: creation by PUT, with objects keyed by path.
