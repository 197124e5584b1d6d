------------------------------- MODULE Provider -------------------------------
(***************************************************************************)
(* The life of one Pulumi resource: the engine that keeps its checkpoint,  *)
(* the provider's resource handlers (rest/provider.go), and the REST cloud *)
(* that keeps the objects.                                                 *)
(*                                                                         *)
(* The provider itself remembers nothing between calls except what         *)
(* MakeProvider and Configure gave it: every handler works from what the   *)
(* engine sends and what the cloud answers.  A handler is cut in two at    *)
(* httpClient.Do: its first half computes and sends the HTTP request, the  *)
(* cloud then executes it, and its second half turns the answer into the   *)
(* RPC's response.  In between the request or the answer may be lost, a    *)
(* callback may refuse, the plugin may die, and anybody may touch the      *)
(* cloud.                                                                  *)
(***************************************************************************)
EXTENDS PathParams, Naturals

CONSTANTS
    Values,      \* values of properties and of scope path parameters
    Ids,         \* ids the cloud can assign: bounds the objects ever created
    BodyNames,   \* SDK names of the inputs that travel in request bodies
    APIs,        \* shapes of the resource's API, of its metadata and schema
    Programs,    \* property maps a program may ask for (before Check)
    Null,        \* JSON null in a PATCH body
    MaxMishaps,  \* bound on edits, deletions and lost answers in a behaviour
    Engines,     \* the engines that may drive the provider (ConfigureRequest)
    NoResource   \* an empty slot of the checkpoint

PropMaps == [Names -> Values \cup Ids \cup {Absent}]
Bodies   == [Names -> Values \cup Ids \cup {Absent, Null}]
Scopes   == [ScopeParams -> Values \cup Ids \cup {Absent}]
Targets  == [ItemParams -> Values \cup Ids \cup {Absent}]

APIType == [
    update       : {"PATCH", "PUT", "none"},  \* crudMap.U, crudMap.P or neither
    deletable    : BOOLEAN,                   \* crudMap.D # nil
    flat         : BOOLEAN,                   \* the update schema has top-level properties
    updateSchema : SUBSET Names,              \* API names it declares
    createSchema : SUBSET Names,              \* writable API names of the create schema
    createDefaults : [Names -> Values \cup {Absent}],  \* the defaults that the POST
    updateDefaults : [Names -> Values \cup {Absent}],  \* and the update schema declare
    nullable     : SUBSET Names,              \* API names the update schema lets be null
    discriminator: Names \cup {Absent},       \* SDK name of the PATCH discriminator
    onDiff       : SUBSET {"default", "none", "update", "replace"},  \* OnDiff's answers
    autoName     : Names \cup {Absent},       \* metadata AutoNameMap entry
    global       : [Names -> Values \cup {Absent}],   \* globalPathParams
    defaults     : [Names -> Values \cup {Absent}],   \* what the cloud fills in
    echo         : SUBSET Names,              \* body properties an answer repeats
    echoScope    : BOOLEAN,                   \* an answer repeats the scope parameters
    readOnly     : SUBSET Names,              \* properties only the cloud sets
    createOnly   : SUBSET Names,              \* properties only the POST answer has
    noContent    : BOOLEAN,                   \* updates answer 204 without a body
    importable   : BOOLEAN]                   \* users import objects of this type

ASSUME ProviderAssumption ==
    /\ MaxMishaps \in Nat
    /\ Absent \notin Values \cup Ids
    /\ Null \notin Values \cup Ids \cup {Absent}
    /\ Values \cap Ids = {}
    /\ BodyNames \subseteq Names \ (ScopeNames \cup {Id, PathParamNameMap[ItemParam]})
    /\ APIs \subseteq APIType
    /\ \A a \in APIs : /\ Keys(a.createDefaults) \subseteq a.createSchema
                       /\ a.flat => Keys(a.updateDefaults) \subseteq a.updateSchema
    /\ Engines \subseteq [sendsOldInputs : BOOLEAN, sendsOldInputsToDelete : BOOLEAN]
    /\ NoResource \notin [id : Ids, inputs : PropMaps, outputs : PropMaps, stash : PropMaps]
    /\ Programs \subseteq [Names -> Values \cup {Absent}]
    /\ \A p \in Programs : Keys(p) \subseteq BodyNames \cup ScopeNames

VARIABLES
    api,                           \* chosen when the provider is made
    engineSendsOldInputs,          \* Provider.engineSendsOldInputs
    engineSendsOldInputsOnDelete,  \* Provider.engineSendsOldInputsOnDelete
    cur,    \* checkpoint of the resource, or NoResource
    old,    \* checkpoint of the object it replaced, pending deletion
    rpc,    \* the call in flight
    cloud,  \* every object by id
    dirty,     \* history: by object, properties the checkpoint cannot know of
    untracked, \* history: objects no checkpoint is expected to hold
    mishaps    \* how many edits, deletions and lost answers there were

vars == <<api, engineSendsOldInputs, engineSendsOldInputsOnDelete,
          cur, old, rpc, cloud, dirty, untracked, mishaps>>
config  == <<api, engineSendsOldInputs, engineSendsOldInputsOnDelete>>
history == <<dirty, untracked, mishaps>>

Resources == [id : Ids, inputs : PropMaps, outputs : PropMaps,
              stash : PropMaps]   \* outputs["__inputs"], Empty when there is none

Objects == [state : {"none", "live", "gone"}, scope : Scopes, body : PropMaps]

NoScope  == [p \in ScopeParams |-> Absent]
NoTarget == [p \in ItemParams |-> Absent]
NoObject == [state |-> "none", scope |-> NoScope, body |-> Empty]

Idle == [op |-> "none", phase |-> "idle", on |-> "cur", target |-> NoTarget,
         body |-> Empty, state |-> Empty, news |-> Empty, reply |-> Empty, since |-> {}]

RPCs == [op : {"none", "create", "replace", "read", "import", "update", "delete"},
         phase : {"idle", "sent", "answered"},
         on : {"cur", "old"},        \* the slot a delete works on
         target : Targets,           \* the path parameters of the request
         body : Bodies,              \* its body, by API name
         state : PropMaps,           \* Read's currentState
         news : PropMaps,            \* the program's inputs after Check
         reply : PropMaps,           \* the answer's body, by API name
         since : SUBSET BodyNames]   \* history: what changed in the cloud after it

TypeOK ==
    /\ api \in APIs
    /\ engineSendsOldInputs \in BOOLEAN
    /\ engineSendsOldInputsOnDelete \in BOOLEAN
    /\ cur \in Resources \cup {NoResource}
    /\ old \in Resources \cup {NoResource}
    /\ rpc \in RPCs
    /\ cloud \in [Ids -> Objects]
    /\ dirty \in [Ids -> SUBSET BodyNames]
    /\ untracked \in SUBSET Ids
    /\ mishaps \in 0 .. MaxMishaps

-----------------------------------------------------------------------------
(* Check and Diff: pure, they change nothing. *)

\* Check gives a program without the auto-named property the old name, or a
\* random one when there is no old name.
CheckedInputs(program, olds) ==
    IF api.autoName = Absent \/ program[api.autoName] # Absent THEN {program}
    ELSE {[program EXCEPT ![api.autoName] = name] :
             name \in IF olds[api.autoName] # Absent THEN {olds[api.autoName]} ELSE Values}

\* DiffRequest.OldInputs and UpdateRequest.OldInputs.
SentOldInputs(r) == IF engineSendsOldInputs THEN r.inputs ELSE Empty

\* Mutant: the id, which no program gives, is not filled in.
DiffTargetWithoutId(r, news) == PathParamsMap(ItemParams, news, Empty, api.global, Empty)

\* additionsArePathParams finds the path parameters in the new inputs alone.
DiffTarget(r, news) ==
    IF api.update = "none"
    THEN PathParamsMap(ScopeParams, news, Empty, api.global, Empty)
    ELSE PathParamsMap(ItemParams,
                       IF news[Id] = Absent THEN [news EXCEPT ![Id] = r.id] ELSE news,
                       Empty, api.global, Empty)

\* getPathParamsMap refuses a path without parameters.
PathParamsError(target) == DOMAIN target = {} \/ ~AllFound(target)

OnlyAdditions(olds, news) ==
    Deletes(olds, news) \cup Updates(olds, news) = {}

\* Mutant: added path parameters count as a change.
AdditionsAreChanges(r, olds, news) == FALSE

\* Mutant: an engine that sends no old inputs is told that nothing changed.
AdditionsAreNoChange(r, olds, news) == OnlyAdditions(olds, news)

AdditionsArePathParams(r, olds, news) ==
    /\ OnlyAdditions(olds, news)
    /\ Adds(olds, news) \subseteq {PathParamNameMap[p] : p \in DOMAIN DiffTarget(r, news)}

\* Mutant: a property that is not sent in a body does not replace.
ReplacesByBodyOnly(olds, news) ==
    {n \in ChangedKeys(olds, news) \cap BodyNames : SDKToAPINameMap[n] \notin api.updateSchema}

\* Changed properties the update operation's schema does not declare.
Replaces(olds, news) ==
    IF api.update = "none" THEN ChangedKeys(olds, news)
    ELSE IF api.flat
         THEN {n \in ChangedKeys(olds, news) : SDKToAPINameMap[n] \notin api.updateSchema}
    ELSE {}   \* DIFF_UNKNOWN: the schema has no top-level properties

\* The OnDiff callback may answer instead of the provider, once there is an
\* update operation whose schema it can be shown.
AnswersAbout(olds, news) ==
    {IF answer # "default" THEN answer
     ELSE IF Replaces(olds, news) # {} THEN "replace" ELSE "update" :
        answer \in IF api.update = "none" THEN {"default"} ELSE api.onDiff}

\* What the engine may be told to do: keep ("none"), update, replace, or fail.
\* After DIFF_UNKNOWN it compares the inputs itself and updates.
Diff(r, news) ==
    LET olds == SentOldInputs(r)
    IN  IF ChangedKeys(olds, news) = {} THEN {"none"}
        ELSE IF OnlyAdditions(olds, news) /\ PathParamsError(DiffTarget(r, news)) THEN {"error"}
        ELSE IF AdditionsArePathParams(r, olds, news) THEN {"none"}
        ELSE AnswersAbout(olds, news)

-----------------------------------------------------------------------------
(* The requests the handlers build. *)

ToAPI(body, params) == TransformBody(RemovePathParams(body, params), SDKToAPINameMap)

\* validateRequest lets kin-openapi rewrite the body: what it does not name, or
\* names as null, gets the default that the operation's schema has for it.
WithSchemaDefaults(body, defaults) ==
    [k \in Names |-> IF body[k] \in {Absent, Null} THEN Else(defaults[k], body[k]) ELSE body[k]]

\* The body that createHTTPRequestWithBody sends.
SentBody(body, params, defaults) == WithSchemaDefaults(ToAPI(body, params), defaults)

CreateTarget(news) == PathParamsMap(ScopeParams, news, Empty, api.global, Empty)

\* Mutant: a removed property is left out of the patch.
PatchWithoutRemovals(olds, news) ==
    [n \in Names |-> IF n \in ChangedKeys(olds, news) THEN news[n] ELSE Absent]

\* Mutant: the patch names the discriminator only when it changes.
PatchWithoutKind(olds, news) ==
    [n \in Names |->
        IF n \notin ChangedKeys(olds, news) THEN Absent
        ELSE IF news[n] = Absent THEN Null ELSE news[n]]

\* Mutant: the patch names every input.
PatchWithEverything(olds, news) ==
    [n \in Names |-> IF olds[n] # Absent /\ news[n] = Absent THEN Null ELSE news[n]]

PatchProps(olds, news) ==
    [n \in Names |->
        IF n = api.discriminator THEN olds[n]
        ELSE IF n \notin ChangedKeys(olds, news) THEN Absent
        ELSE IF news[n] = Absent THEN Null ELSE news[n]]

UpdateBody(r, news) ==
    SentBody(IF api.update = "PATCH" THEN PatchProps(SentOldInputs(r), news) ELSE news,
             ItemParams, api.updateDefaults)

\* In Update and Delete the stash is an ordinary object nested in the old
\* outputs; it also stands in for the old inputs an old engine does not send.
UpdateTarget(r) ==
    PathParamsMap(ItemParams, r.outputs, r.stash, api.global,
                  IF engineSendsOldInputs THEN r.inputs ELSE r.stash)

\* Mutant: Delete looks only at the outputs.
DeleteTargetFromOutputs(r) == PathParamsMap(ItemParams, r.outputs, Empty, api.global, Empty)

DeleteTarget(r) ==
    PathParamsMap(ItemParams, r.outputs, r.stash, api.global,
                  IF ~engineSendsOldInputs THEN r.stash
                  ELSE IF engineSendsOldInputsOnDelete THEN r.inputs
                  ELSE Empty)

\* Read's currentState: the outputs, or the inputs when there are none, with
\* the resource's id if they have no "id".
CurrentState(r) ==
    LET state == IF Keys(r.outputs) = {} THEN r.inputs ELSE r.outputs
    IN  IF state[Id] = Absent THEN [state EXCEPT ![Id] = r.id] ELSE state

\* In Read the stash is a secret: no nested object, but still the old inputs.
ReadTarget(r) ==
    PathParamsMap(ItemParams, Overwrite(r.inputs, CurrentState(r)), Empty, api.global, r.stash)

UpdateBuildable(r, body) ==
    /\ AllFound(UpdateTarget(r))
    /\ {n \in Names : body[n] = Null} \subseteq api.nullable     \* validateRequest
    /\ api.update = "PATCH" /\ api.discriminator # Absent
          => SentOldInputs(r)[api.discriminator] # Absent

-----------------------------------------------------------------------------
(* The engine's steps, each with the first half of the handler it calls. *)

Slot(on) == IF on = "cur" THEN cur ELSE old

Send(op, on, target, body, state, news) ==
    rpc' = [Idle EXCEPT !.op = op, !.phase = "sent", !.on = on, !.target = target,
                        !.body = body, !.state = state, !.news = news]

\* Create: the POST request to the collection endpoint.
SendCreate(op, news) ==
    /\ AllFound(CreateTarget(news))
    /\ Send(op, "cur",
            [p \in ItemParams |-> IF p \in ScopeParams THEN CreateTarget(news)[p] ELSE Absent],
            SentBody(news, ScopeParams, api.createDefaults), Empty, news)

\* The engine deletes what is pending deletion before it deploys again.
ReadyToDeploy == rpc.op = "none" /\ old = NoResource

DeployCreate(program) ==
    /\ ReadyToDeploy /\ cur = NoResource
    /\ \E news \in CheckedInputs(program, Empty) : SendCreate("create", news)
    /\ UNCHANGED <<config, cur, old, cloud, history>>

\* No diff: the engine stores the new inputs and keeps the outputs.
DeploySame(program) ==
    /\ ReadyToDeploy /\ cur # NoResource
    /\ \E news \in CheckedInputs(program, cur.inputs) :
          /\ "none" \in Diff(cur, news)
          /\ cur' = [cur EXCEPT !.inputs = news]
    /\ UNCHANGED <<config, old, rpc, cloud, history>>

\* A replacement creates first, from inputs checked without the old ones.
DeployReplace(program) ==
    /\ ReadyToDeploy /\ cur # NoResource
    /\ \E news \in CheckedInputs(program, cur.inputs) : "replace" \in Diff(cur, news)
    /\ \E news \in CheckedInputs(program, Empty) : SendCreate("replace", news)
    /\ UNCHANGED <<config, cur, old, cloud, history>>

DeployUpdate(program) ==
    /\ ReadyToDeploy /\ cur # NoResource
    /\ \E news \in CheckedInputs(program, cur.inputs) :
          /\ "update" \in Diff(cur, news)
          /\ UpdateBuildable(cur, UpdateBody(cur, news))
          /\ Send("update", "cur", UpdateTarget(cur), UpdateBody(cur, news), Empty, news)
    /\ UNCHANGED <<config, cur, old, cloud, history>>

StartRead ==
    /\ rpc.op = "none" /\ cur # NoResource
    /\ AllFound(ReadTarget(cur))
    /\ Send("read", "cur", ReadTarget(cur), Empty, CurrentState(cur), Empty)
    /\ UNCHANGED <<config, cur, old, cloud, history>>

\* pulumi import: a Read that has nothing but the import id.
StartImport(i) ==
    /\ ReadyToDeploy /\ cur = NoResource /\ api.importable
    /\ cloud[i].state = "live"
    /\ LET state == ImportedPathParams(cloud[i].scope, i)
       IN  Send("import", "cur",
                PathParamsMap(ItemParams, state, Empty, api.global, Empty), Empty, state, Empty)
    /\ UNCHANGED <<config, cur, old, cloud, history>>

StartDelete(on) ==
    /\ rpc.op = "none" /\ Slot(on) # NoResource /\ api.deletable
    /\ AllFound(DeleteTarget(Slot(on)))
    /\ Send("delete", on, DeleteTarget(Slot(on)), Empty, Empty, Empty)
    /\ UNCHANGED <<config, cur, old, cloud, history>>

Forget(on) ==
    IF on = "cur" THEN cur' = NoResource /\ UNCHANGED old
                  ELSE old' = NoResource /\ UNCHANGED cur

\* Without a DELETE endpoint the resource is only dropped from the state.
DropUndeletable(on) ==
    /\ rpc.op = "none" /\ Slot(on) # NoResource /\ ~api.deletable
    /\ Forget(on)
    /\ untracked' = untracked \cup {Slot(on).id}
    /\ UNCHANGED <<config, rpc, cloud, dirty, mishaps>>

-----------------------------------------------------------------------------
(* The cloud. *)

Found(i) ==
    /\ cloud[i].state = "live"
    /\ rpc.target[ItemParam] = i
    /\ \A p \in ScopeParams : rpc.target[p] = cloud[i].scope[p]

\* What an answer says about an object, by API name.
Reply(i, o, fresh) ==
    [n \in Names |->
        IF n = Id \/ n \in api.readOnly \/ (fresh /\ n \in api.createOnly) THEN i
        ELSE IF n \in api.echo THEN o.body[n]
        ELSE IF api.echoScope /\ \E p \in ScopeParams : SDKToAPINameMap[PathParamNameMap[p]] = n
             THEN o.scope[CHOOSE p \in ScopeParams : SDKToAPINameMap[PathParamNameMap[p]] = n]
        ELSE Absent]

WithDefaults(body) ==
    [n \in Names |-> IF body[n] \in {Absent, Null} THEN api.defaults[n] ELSE body[n]]

MergePatch(o, patch) ==
    WithDefaults([n \in Names |-> IF patch[n] = Absent THEN o[n] ELSE patch[n]])

Answer(i, o, fresh) ==
    rpc' = [rpc EXCEPT !.phase = "answered", !.reply = Reply(i, o, fresh)]

CloudCreate(i) ==
    /\ rpc.phase = "sent" /\ rpc.op \in {"create", "replace"}
    /\ cloud[i].state = "none"
    /\ LET o == [state |-> "live", scope |-> [p \in ScopeParams |-> rpc.target[p]],
                 body |-> WithDefaults(rpc.body)]
       IN  cloud' = [cloud EXCEPT ![i] = o] /\ Answer(i, o, TRUE)
    /\ UNCHANGED <<config, cur, old, history>>

CloudUpdate(i) ==
    /\ rpc.phase = "sent" /\ rpc.op = "update" /\ Found(i)
    /\ LET o == [cloud[i] EXCEPT !.body = IF api.update = "PATCH" THEN MergePatch(@, rpc.body)
                                          ELSE WithDefaults(rpc.body)]
       IN  cloud' = [cloud EXCEPT ![i] = o] /\ Answer(i, o, FALSE)
    /\ UNCHANGED <<config, cur, old, history>>

CloudRead(i) ==
    /\ rpc.phase = "sent" /\ rpc.op \in {"read", "import"} /\ Found(i)
    /\ Answer(i, cloud[i], FALSE)
    /\ UNCHANGED <<config, cur, old, cloud, history>>

\* A deleted object: its id is never used again.
Remains(i) == [state |-> "gone", scope |-> cloud[i].scope, body |-> Empty]

CloudDelete(i) ==
    /\ rpc.phase = "sent" /\ rpc.op = "delete" /\ Found(i)
    /\ cloud' = [cloud EXCEPT ![i] = Remains(i)]
    /\ Answer(i, cloud[i], FALSE)
    /\ UNCHANGED <<config, cur, old, history>>

\* Someone else creates, deletes or edits an object.
ForeignCreate(i, program) ==
    /\ api.importable /\ AllFound(CreateTarget(program))
    /\ cloud[i].state = "none"
    /\ cloud' = [cloud EXCEPT ![i] =
                    [state |-> "live", scope |-> CreateTarget(program),
                     body |-> WithDefaults(ToAPI(program, ScopeParams))]]
    /\ untracked' = untracked \cup {i}
    /\ UNCHANGED <<config, cur, old, rpc, dirty, mishaps>>

\* A mishap; MaxMishaps bounds them.
Mishap == mishaps < MaxMishaps /\ mishaps' = mishaps + 1

ForeignDelete(i) ==
    /\ cloud[i].state = "live" /\ Mishap
    /\ cloud' = [cloud EXCEPT ![i] = Remains(i)]
    /\ UNCHANGED <<config, cur, old, rpc, dirty, untracked>>

ForeignEdit(i, n, v) ==
    /\ cloud[i].state = "live" /\ Mishap
    /\ cloud' = [cloud EXCEPT ![i].body[SDKToAPINameMap[n]] = v]
    /\ dirty' = [dirty EXCEPT ![i] = @ \cup {n}]
    /\ rpc' = IF rpc.phase = "answered" /\ rpc.reply[Id] = i
              THEN [rpc EXCEPT !.since = @ \cup {n}] ELSE rpc
    /\ UNCHANGED <<config, cur, old, untracked>>

-----------------------------------------------------------------------------
(* The second halves of the handlers, and what the engine stores. *)

ToSDK(props) == TransformBody(props, APIToSDKNameMap)

\* GetResourceState: for an engine that does not send the old inputs, they are
\* stashed in the outputs.
StashOf(inputs, otherwise) == IF engineSendsOldInputs THEN otherwise ELSE inputs

\* Mutant: the id is taken from the inputs.
CreatedWithInputId ==
    [id |-> rpc.news[Id], inputs |-> rpc.news, outputs |-> ToSDK(rpc.reply),
     stash |-> StashOf(rpc.news, Empty)]

\* Mutant: a replacement keeps the id of what it replaces.
CreatedWithOldId ==
    [id |-> IF cur = NoResource THEN ToSDK(rpc.reply)[Id] ELSE cur.id, inputs |-> rpc.news,
     outputs |-> ToSDK(rpc.reply), stash |-> StashOf(rpc.news, Empty)]

CreatedResource ==
    [id |-> ToSDK(rpc.reply)[Id], inputs |-> rpc.news, outputs |-> ToSDK(rpc.reply),
     stash |-> StashOf(rpc.news, Empty)]

FinishCreate ==
    /\ rpc.phase = "answered" /\ rpc.op \in {"create", "replace"}
    /\ cur' = CreatedResource
    /\ old' = IF rpc.op = "replace" THEN cur ELSE old
    /\ rpc' = Idle
    /\ UNCHANGED <<config, cloud, history>>

\* Mutant: Read also adds properties the inputs do not have.
ReadInputsWithNew(inputs) ==
    Overwrite(inputs, ToSDK(FilterReadOnlyProperties(rpc.reply, api.createSchema)))

\* A Read without inputs takes the writable part of the answer for inputs; a
\* Read with inputs only brings those it has up to date.
ReadInputs(inputs) ==
    LET newState == ToSDK(FilterReadOnlyProperties(rpc.reply, api.createSchema))
    IN  IF Keys(inputs) = {} THEN newState
        ELSE [n \in Names |-> IF inputs[n] # Absent /\ newState[n] # Absent
                              THEN newState[n] ELSE inputs[n]]

\* Mutant: the state is laid over the answer.
ReadResourceKeepingState(inputs, stash) ==
    LET outputs == ToSDK(ApplyDiffFromCloudProvider(rpc.state, rpc.reply))
    IN  [id |-> outputs[Id], inputs |-> ReadInputs(inputs), outputs |-> outputs,
         stash |-> StashOf(ReadInputs(inputs), stash)]

ReadResource(inputs, stash) ==
    LET outputs == ToSDK(ApplyDiffFromCloudProvider(rpc.reply, rpc.state))
    IN  [id |-> outputs[Id], inputs |-> ReadInputs(inputs), outputs |-> outputs,
         stash |-> StashOf(ReadInputs(inputs), stash)]

\* History: what a Read must bring in line, every property it was answered
\* that is an input already, or any when there are no inputs yet.
Learnt(inputs) ==
    {n \in BodyNames :
        /\ SDKToAPINameMap[n] \in api.echo
        /\ Keys(inputs) = {} \/ (inputs[n] # Absent /\ rpc.reply[SDKToAPINameMap[n]] # Absent)}

FinishRead ==
    /\ rpc.phase = "answered" /\ rpc.op = "read"
    /\ cur' = ReadResource(cur.inputs, cur.stash)
    /\ dirty' = [dirty EXCEPT ![cur.id] = (@ \ Learnt(cur.inputs)) \cup rpc.since]
    /\ rpc' = Idle
    /\ UNCHANGED <<config, old, cloud, untracked, mishaps>>

FinishImport ==
    /\ rpc.phase = "answered" /\ rpc.op = "import"
    /\ cur' = ReadResource(Empty, Empty)
    /\ dirty' = [dirty EXCEPT ![rpc.reply[Id]] = (BodyNames \ Learnt(Empty)) \cup rpc.since]
    /\ rpc' = Idle
    /\ UNCHANGED <<config, old, cloud, untracked, mishaps>>

\* The properties the request wrote.
Written ==
    IF api.update = "PATCH" THEN {n \in BodyNames : rpc.body[SDKToAPINameMap[n]] # Absent}
    ELSE BodyNames

\* The outputs become those of the answer, or none when it is a 204.
FinishUpdate ==
    /\ rpc.phase = "answered" /\ rpc.op = "update"
    /\ cur' = [cur EXCEPT !.inputs = rpc.news,
                          !.outputs = IF api.noContent THEN Empty ELSE ToSDK(rpc.reply),
                          !.stash = IF api.noContent THEN Empty ELSE StashOf(rpc.news, Empty)]
    /\ dirty' = [dirty EXCEPT ![cur.id] = (@ \ Written) \cup rpc.since]
    /\ rpc' = Idle
    /\ UNCHANGED <<config, old, cloud, untracked, mishaps>>

FinishDelete ==
    /\ rpc.phase = "answered" /\ rpc.op = "delete"
    /\ Forget(rpc.on)
    /\ rpc' = Idle
    /\ UNCHANGED <<config, cloud, history>>

\* Mutant: a delete that fails, for whatever reason, is taken for done.
FailedDeleteIsDone ==
    /\ rpc.phase = "sent"
    /\ IF rpc.op = "delete" THEN Forget(rpc.on) ELSE UNCHANGED <<cur, old>>
    /\ rpc' = Idle
    /\ UNCHANGED <<config, cloud, history>>

\* The handler fails before the cloud has done anything: OnPre callback, no
\* connection, an error status (an object that is not there among them).
RequestFails ==
    /\ rpc.phase = "sent"
    /\ rpc' = Idle
    /\ UNCHANGED <<config, cur, old, cloud, history>>

\* The handler fails after the cloud has done its part: the answer is lost or
\* cannot be decoded, the OnPost callback refuses it, the plugin dies.  The
\* engine keeps the checkpoint as it was.
AnswerLost ==
    /\ rpc.phase = "answered" /\ Mishap
    /\ rpc' = Idle
    /\ untracked' = IF rpc.op \in {"create", "replace"} THEN untracked \cup {rpc.reply[Id]}
                    ELSE untracked
    /\ dirty' = IF rpc.op = "update" THEN [dirty EXCEPT ![cur.id] = @ \cup Written] ELSE dirty
    /\ UNCHANGED <<config, cur, old, cloud>>

\* Another engine starts the provider.
Configure(engine) ==
    /\ rpc.op = "none"
    /\ engineSendsOldInputs' = engine.sendsOldInputs
    /\ engineSendsOldInputsOnDelete' = engine.sendsOldInputsToDelete
    /\ UNCHANGED <<api, cur, old, rpc, cloud, history>>

-----------------------------------------------------------------------------

Init ==
    /\ api \in APIs
    /\ \E engine \in Engines :
          /\ engineSendsOldInputs = engine.sendsOldInputs
          /\ engineSendsOldInputsOnDelete = engine.sendsOldInputsToDelete
    /\ cur = NoResource /\ old = NoResource
    /\ rpc = Idle
    /\ cloud = [i \in Ids |-> NoObject]
    /\ dirty = [i \in Ids |-> {}]
    /\ untracked = {}
    /\ mishaps = 0

Engine ==
    \/ \E program \in Programs : \/ DeployCreate(program)
                                 \/ DeploySame(program)
                                 \/ DeployUpdate(program)
                                 \/ DeployReplace(program)
    \/ StartRead
    \/ \E i \in Ids : StartImport(i)
    \/ \E on \in {"cur", "old"} : StartDelete(on) \/ DropUndeletable(on)
    \/ \E engine \in Engines : Configure(engine)

Cloud ==
    \/ \E i \in Ids : CloudCreate(i) \/ CloudUpdate(i) \/ CloudRead(i) \/ CloudDelete(i)
    \/ \E i \in Ids, program \in Programs : ForeignCreate(i, program)
    \/ \E i \in Ids : ForeignDelete(i)
    \/ \E i \in Ids, n \in BodyNames :
          \E v \in Values \cup {api.defaults[SDKToAPINameMap[n]]} : ForeignEdit(i, n, v)

Handlers ==
    FinishCreate \/ FinishRead \/ FinishImport \/ FinishUpdate \/ FinishDelete
    \/ RequestFails \/ AnswerLost

Next == Engine \/ Cloud \/ Handlers

Spec == Init /\ [][Next]_vars

-----------------------------------------------------------------------------
(* Properties. *)

\* The path parameters under which the cloud holds the resource's object.
OwnTarget(r) ==
    [p \in ItemParams |-> IF p = ItemParam THEN r.id ELSE cloud[r.id].scope[p]]

\* A GET, PATCH, PUT or DELETE that a handler sends for a resource names the
\* very object the checkpoint tracks, at the path it was created or imported
\* at, however often the resource was updated, refreshed or replaced since
\* (getPathParamsMap, provider.go Read, Update, Delete).
TargetsOwn ==
    rpc.op \in {"read", "update", "delete"} => rpc.target = OwnTarget(Slot(rpc.on))

\* Between calls a handler could still build the request that deletes any
\* resource of the checkpoint, and it would name the resource's own object:
\* Delete "tears down an existing resource with the given ID".  An engine that
\* does not send the old inputs needs the stash in the outputs, which is not
\* there when a newer engine was the last to write them.
Addressable ==
    rpc.op = "none" =>
        \A r \in {cur, old} \ {NoResource} :
            engineSendsOldInputs \/ Keys(r.stash) # {} => DeleteTarget(r) = OwnTarget(r)

\* Between calls the checkpoint's inputs say what the cloud holds, for every
\* property but those that were changed behind the engine's back (an edit, an
\* update whose answer was lost) and not learnt by a refresh since; a property
\* the inputs do not have is at the cloud's default.
InSync ==
    rpc.op = "none" =>
        \A r \in {cur, old} \ {NoResource} :
            cloud[r.id].state = "live" =>
                \A n \in BodyNames \ dirty[r.id] :
                    cloud[r.id].body[SDKToAPINameMap[n]] =
                        IF r.inputs[n] # Absent THEN r.inputs[n]
                        ELSE api.defaults[SDKToAPINameMap[n]]

\* So do its outputs, for every property the answers repeat: also for one the
\* program never gave, or that an update or a refresh made go away.
OutputsInSync ==
    rpc.op = "none" =>
        \A r \in {cur, old} \ {NoResource} :
            cloud[r.id].state = "live" =>
                \A n \in BodyNames \ dirty[r.id] :
                    SDKToAPINameMap[n] \in api.echo =>
                        r.outputs[n] = cloud[r.id].body[SDKToAPINameMap[n]]

\* A PATCH names the kind of object it is for, as the cloud knows it: the
\* discriminator, which is not among the properties a program may change in
\* place, comes from inputs that may have been imported or refreshed since.
PatchNamesKind ==
    rpc.op = "update" /\ rpc.phase = "sent" /\ api.update = "PATCH" /\ api.discriminator # Absent =>
        LET kind == api.discriminator
        IN  Found(cur.id) /\ kind \notin dirty[cur.id] =>
                rpc.body[SDKToAPINameMap[kind]] = cloud[cur.id].body[SDKToAPINameMap[kind]]

\* No live object is forgotten: the checkpoint holds it, the answer in flight
\* brings it, or a failed Create, a missing DELETE endpoint or somebody else
\* left it outside Pulumi.
NoForgottenObject ==
    \A i \in Ids :
        cloud[i].state = "live" /\ i \notin untracked =>
            \/ \E r \in {cur, old} \ {NoResource} : r.id = i
            \/ rpc.phase = "answered" /\ rpc.op \in {"create", "replace"} /\ rpc.reply[Id] = i

\* Diff has an answer for every program ("if there is no PATCH or PUT endpoint
\* ... we'll need to trigger a replacement", provider.go 440).
DiffAnswers ==
    rpc.op = "none" /\ cur # NoResource =>
        \A program \in Programs : \A news \in CheckedInputs(program, cur.inputs) :
            AllFound(CreateTarget(news)) => "error" \notin Diff(cur, news)

\* An update or a replacement starts only for a cause: the program's body
\* properties differ from the checkpoint's inputs, or it asks for another
\* path than the object's or than the one it asked for before.  This covers
\* the first deployment after an import, whose inputs lack the path parameters
\* (additionsArePathParams).
OnlyForCause ==
    [][rpc.op = "none" /\ rpc'.op \in {"update", "replace"} =>
          \/ \E n \in BodyNames : rpc'.news[n] # cur.inputs[n]
          \/ CreateTarget(rpc'.news) # [p \in ScopeParams |-> cloud[cur.id].scope[p]]
          \/ \E n \in ScopeNames : cur.inputs[n] \notin {Absent, rpc'.news[n]}]_vars

\* A PATCH leaves in the cloud what the program has not changed, also what
\* others have edited there meanwhile, but for the discriminator: Update puts
\* into the body the changed properties only ("should not be in the request
\* body since it was not updated", provider_test.go 286).
UpdatesOnlyChanged ==
    [][rpc.op = "update" /\ rpc.phase = "sent" /\ rpc'.phase = "answered" /\ api.update = "PATCH"
       => \A n \in BodyNames \ {api.discriminator} :
             rpc.news[n] = cur.inputs[n] =>
                cloud'[cur.id].body[SDKToAPINameMap[n]] = cloud[cur.id].body[SDKToAPINameMap[n]]]_vars

\* A refresh of an object nobody else changed leaves the inputs alone, so that
\* the next deployment shows no diff (Read's "don't add new properties").
RefreshStable ==
    [][rpc.op = "read" /\ Keys(cur.inputs) # {} /\ dirty[cur.id] = {}
       => cur'.inputs = cur.inputs]_vars

\* A refresh never loses an output: what only the POST answer had stays in the
\* state (Read: "original output properties still remain in the state").
RefreshKeepsOutputs ==
    [][rpc.op = "read" => Keys(cur.outputs) \subseteq Keys(cur'.outputs)]_vars

=============================================================================
