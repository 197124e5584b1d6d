-------------------------- MODULE ProviderSyncProofs -------------------------
(***************************************************************************)
(* The checkpoint agrees with the cloud: its inputs and its outputs say    *)
(* what the object holds, for every property nobody changed behind the     *)
(* engine's back, and so a PATCH names the kind the object has, and a      *)
(* refresh of an untouched object changes no input.                        *)
(***************************************************************************)
EXTENDS ProviderOwnershipProofs, ProviderDiffProofs

\* The circumstances, as far as they concern the API at hand.
SyncHere == SyncNames /\ SyncShaped(api)

-----------------------------------------------------------------------------
(* The names of the properties that travel in bodies. *)

LEMMA BodyName ==
    ASSUME SyncHere, NEW n \in BodyNames
    PROVE  /\ n \in Names /\ APIName(n) \in Names
           /\ n \notin ScopeNames \cup {Id, ItemName}
           /\ APIName(n) \notin ScopeNames \cup {Id, ItemName}
           /\ APIName(n) \in InputNames => APIName(n) = n
           /\ APIToSDKNameMap[APIName(n)] = n
           /\ \A m \in BodyNames : APIName(m) = APIName(n) => m = n
<1>1. \A m \in BodyNames : /\ m \in Names /\ APIName(m) \in Names
                           /\ m \notin ScopeNames \cup {Id, ItemName}
  BY ProviderAssumption, NamesAssumption DEF APIName, ItemName
<1>2. \A m \in BodyNames : APIToSDKNameMap[APIName(m)] = m /\ APIToSDKNameMap[m] = m
  BY <1>1 DEF SyncHere, SyncNames, PairedNames
<1>3. \A p \in ScopeNames \cup {Id, ItemName} : APIToSDKNameMap[p] = p
  BY ScopeNamesAre, NamesAssumption DEF SyncHere, SyncNames, Circumstances, PlainPathNames
<1>4. APIName(n) \notin ScopeNames \cup {Id, ItemName}
  BY <1>1, <1>2, <1>3
<1>5. APIName(n) \in BodyNames => APIName(n) = n
  BY <1>2
<1> QED BY <1>1, <1>2, <1>4, <1>5 DEF InputNames

\* A request body holds each property under its API name.
LEMMA ToAPIBody ==
    ASSUME SyncHere, NEW m, Keys(m) \subseteq InputNames,
           NEW params, ScopeParams \subseteq params, params \subseteq ItemParams,
           NEW n \in BodyNames
    PROVE  ToAPI(m, params)[APIName(n)] = m[n]
<1> DEFINE b == RemovePathParams(m, params)
<1>1. \A k \in Names : b[k] = IF k \in {PathParamNameMap[p] : p \in params} THEN Absent ELSE m[k]
  BY DEF RemovePathParams, Without
<1>2. ScopeNames \subseteq {PathParamNameMap[p] : p \in params}
  BY DEF ScopeNames
<1>3. {PathParamNameMap[p] : p \in params} \subseteq ScopeNames \cup {ItemName}
  BY DEF ScopeNames, ItemName, ItemParams
<1>4. n \in Names /\ APIName(n) \in Names /\ n \notin ScopeNames \cup {ItemName}
  BY BodyName
<1>5. b[n] = m[n]
  BY <1>1, <1>3, <1>4
<1>6. ASSUME NEW k \in Names, b[k] # Absent PROVE k \in BodyNames
  <2>1. m[k] # Absent /\ k \notin ScopeNames
    BY <1>1, <1>2, <1>6
  <2> QED BY <2>1 DEF Keys, InputNames
<1> HIDE DEF b
<1>7. ToAPI(m, params) = TransformBody(b, SDKToAPINameMap)
  BY DEF ToAPI, b
<1>8. MovedTo(b, SDKToAPINameMap, APIName(n)) \subseteq {n}
  <2>1. ASSUME NEW k \in MovedTo(b, SDKToAPINameMap, APIName(n)) PROVE k = n
    <3>1. k \in Names /\ b[k] # Absent /\ APIName(k) = APIName(n)
      BY DEF MovedTo, Keys, APIName
    <3> QED BY <1>6, <3>1, BodyName
  <2> QED BY <2>1
<1>9. CASE MovedTo(b, SDKToAPINameMap, APIName(n)) # {}
  <2>1. (CHOOSE k \in MovedTo(b, SDKToAPINameMap, APIName(n)) : TRUE) = n
    BY <1>8, <1>9
  <2> QED BY <1>4, <1>5, <1>7, <1>9, <2>1 DEF TransformBody
<1>10. CASE MovedTo(b, SDKToAPINameMap, APIName(n)) = {}
  <2>1. n = APIName(n) \/ b[n] = Absent
    BY <1>4, <1>10 DEF MovedTo, Keys, APIName
  <2>2. n # APIName(n) => b[APIName(n)] = Absent
    BY <1>4, <1>6, BodyName DEF InputNames
  <2>3. TransformBody(b, SDKToAPINameMap)[APIName(n)]
            = IF SDKToAPINameMap[APIName(n)] = APIName(n) THEN b[APIName(n)] ELSE Absent
    BY <1>4, <1>10 DEF TransformBody
  <2>4. n = APIName(n) => SDKToAPINameMap[APIName(n)] = APIName(n)
    BY DEF APIName
  <2> QED BY <1>5, <1>7, <2>1, <2>2, <2>3, <2>4
<1> QED BY <1>9, <1>10

\* Sent, it has the schema's default in addition, where it would have nothing.
LEMMA SentBodySays ==
    ASSUME SyncHere, NEW m, Keys(m) \subseteq InputNames,
           NEW params, ScopeParams \subseteq params, params \subseteq ItemParams,
           NEW defaults, NEW n \in BodyNames
    PROVE  SentBody(m, params, defaults)[APIName(n)] =
               IF m[n] \in {Absent, Null} THEN Else(defaults[APIName(n)], m[n]) ELSE m[n]
<1>1. ToAPI(m, params)[APIName(n)] = m[n] /\ APIName(n) \in Names
  BY ToAPIBody, BodyName
<1> QED BY <1>1 DEF SentBody, WithSchemaDefaults

\* Where that default is the cloud's, a body gives what the inputs say.
LEMMA SentBodyGives ==
    ASSUME SyncHere, NEW news \in PropMaps, Keys(news) \subseteq InputNames,
           NEW params, ScopeParams \subseteq params, params \subseteq ItemParams,
           NEW defaults, NEW n \in BodyNames,
           defaults[APIName(n)] \in {Absent, api.defaults[APIName(n)]}
    PROVE  SentBody(news, params, defaults)[APIName(n)] \in
               {news[n], Else(news[n], api.defaults[APIName(n)])}
<1>1. news[n] # Null
  BY BodyName, ProviderAssumption DEF PropMaps
<1> QED BY <1>1, SentBodySays DEF Else

\* A property of an answer gets its SDK name, unless the answer does not have
\* it.
LEMMA ToSDKBody ==
    ASSUME SyncHere, NEW m, NEW n \in BodyNames
    PROVE  ToSDK(m)[n] = IF m[APIName(n)] # Absent THEN m[APIName(n)] ELSE m[n]
<1>1. n \in Names /\ APIName(n) \in Names
  BY BodyName
<1>2. \A k \in Names : APIToSDKNameMap[k] = n <=> k \in {n, APIName(n)}
  BY DEF SyncHere, SyncNames, PairedNames
<1>3. MovedTo(m, APIToSDKNameMap, n)
          = IF APIName(n) # n /\ m[APIName(n)] # Absent THEN {APIName(n)} ELSE {}
  BY <1>1, <1>2 DEF MovedTo, Keys
<1>4. CASE APIName(n) # n /\ m[APIName(n)] # Absent
  <2>1. MovedTo(m, APIToSDKNameMap, n) = {APIName(n)}
    BY <1>3, <1>4
  <2> QED BY <1>1, <1>4, <2>1 DEF ToSDK, TransformBody
<1>5. CASE ~(APIName(n) # n /\ m[APIName(n)] # Absent)
  <2>1. ToSDK(m)[n] = m[n]
    BY <1>1, <1>2, <1>3, <1>5 DEF ToSDK, TransformBody
  <2> QED BY <1>5, <2>1
<1> QED BY <1>4, <1>5

LEMMA ShapeOfAPI ==
    ASSUME SyncHere, TypeInv
    PROVE  /\ api \in APIs /\ api \in APIType
           /\ WellShaped(api) /\ GivesInputs(api) /\ BodiesWritable(api) /\ DefaultsShaped(api)
BY ProviderAssumption DEF TypeInv, TypeOK, SyncHere, SyncNames, SyncShaped, Circumstances

\* An engine that does not send the old inputs never patches.
LEMMA PatchesAreModern ==
    ASSUME SyncHere, TypeInv, Started, api.update = "PATCH"
    PROVE  engineSendsOldInputs
<1>1. ModernEngines
  BY DEF SyncHere, SyncNames, SyncShaped, OldInputsToPatch, TypeInv, TypeOK
<1> QED BY <1>1 DEF ModernEngines, Started

\* What an answer says of the properties that travel in bodies.
LEMMA ReplyShows ==
    ASSUME SyncHere, WellShaped(api), BodiesWritable(api),
           NEW i, NEW o, NEW fresh \in BOOLEAN, NEW since
    PROVE  /\ RepliesIn(api, Reply(i, o, fresh), o, since)
           /\ \A n \in BodyNames : APIName(n) \in api.echo =>
                  Reply(i, o, fresh)[APIName(n)] = o.body[APIName(n)]
<1>1. \A p \in ScopeParams : SDKToAPINameMap[PathParamNameMap[p]] \in ScopeNames
  BY ScopeNamesAre DEF SyncHere, SyncNames, Circumstances, PlainPathNames, N
<1>2. ASSUME NEW n \in BodyNames, NEW k \in {n, APIName(n)}
      PROVE  Reply(i, o, fresh)[k] = IF k \in api.echo THEN o.body[k] ELSE Absent
  <2>1. k \in Names /\ k \notin ScopeNames \cup {Id} /\ k \notin api.readOnly \cup api.createOnly
    BY BodyName DEF BodiesWritable
  <2> QED BY <1>1, <2>1 DEF Reply
<1>3. \A n \in BodyNames : n \in api.echo => APIName(n) = n
  BY DEF BodiesWritable
<1> QED BY <1>2, <1>3 DEF RepliesIn

-----------------------------------------------------------------------------
(* What Check, Diff and Update make of the inputs. *)

LEMMA CheckedSays ==
    ASSUME SyncHere, TypeInv, NEW program \in Programs, NEW olds \in PropMaps,
           NEW news \in CheckedInputs(program, olds)
    PROVE  /\ Keys(news) \subseteq InputNames /\ Keys(news) # {}
           /\ news \in PropMaps
<1>1. api \in APIs /\ api \in APIType /\ GivesInputs(api)
  BY ShapeOfAPI
<1>2. /\ Keys(news) \subseteq InputNames
      /\ \A n \in Names : CheckedValue(program, olds, n, news[n])
  BY <1>1, CheckedNames
<1>3. PICK n \in Names : program[n] # Absent
  BY DEF SyncHere, SyncNames, SomePrograms, Keys
<1>4. news[n] = program[n]
  BY <1>2, <1>3 DEF CheckedValue
<1>5. news \in PropMaps
  BY <1>1, CheckedInputsType
<1> QED BY <1>2, <1>3, <1>4, <1>5 DEF Keys

\* When Diff keeps a resource, no property that travels in a body differs.
LEMMA KeptSaysTheSame ==
    ASSUME SyncHere, TypeInv, Started, cur \in Resources,
           NEW program \in Programs, NEW news \in CheckedInputs(program, cur.inputs),
           news \in PropMaps, "none" \in Diff(cur, news), NEW n \in BodyNames
    PROVE  news[n] = cur.inputs[n]
<1>0. engineSendsOldInputs
  <2>1. "none" \notin AnswersAbout(Empty, news)
    BY ShapeOfAPI DEF AnswersAbout, BodiesWritable
  <2> QED BY <2>1, OldEnginesChange DEF SyncHere, SyncNames, Circumstances
<1>1. BodiesWritable(api) /\ SentOldInputs(cur) = cur.inputs /\ cur.inputs \in PropMaps
  BY <1>0, ShapeOfAPI DEF SentOldInputs, Resources
<1>2. n \in Names /\ n \notin ScopeNames \cup {ItemName}
  BY BodyName
<1>3. news[n] # cur.inputs[n] => n \in ChangedKeys(cur.inputs, news)
  BY <1>2 DEF ChangedKeys, Adds, Deletes, Updates, Keys
<1>4. "none" \notin AnswersAbout(cur.inputs, news)
  BY <1>1 DEF AnswersAbout, BodiesWritable
<1>5. CASE ChangedKeys(cur.inputs, news) = {}
  BY <1>3, <1>5
<1>6. CASE AdditionsArePathParams(cur, cur.inputs, news)
  <2>1. DOMAIN DiffTarget(cur, news) \subseteq ItemParams
    BY DEF DiffTarget, PathParamsMap, ItemParams
  <2>2. {PathParamNameMap[p] : p \in ItemParams} = ScopeNames \cup {ItemName}
    BY DEF ScopeNames, ItemName, ItemParams
  <2>3. n \notin Adds(cur.inputs, news)
    BY <1>2, <1>6, <2>1, <2>2 DEF AdditionsArePathParams
  <2>4. n \notin ChangedKeys(cur.inputs, news)
    BY <1>6, <2>3 DEF AdditionsArePathParams, OnlyAdditions, ChangedKeys
  <2> QED BY <1>3, <2>4
<1> QED BY <1>1, <1>4, <1>5, <1>6 DEF Diff

\* When Diff updates, the discriminator is not what differs.
LEMMA UpdateKeepsKind ==
    ASSUME SyncHere, TypeInv, engineSendsOldInputs, cur \in Resources,
           NEW news \in PropMaps, "update" \in Diff(cur, news), api.discriminator # Absent
    PROVE  /\ api.discriminator \in BodyNames
           /\ news[api.discriminator] = cur.inputs[api.discriminator]
<1> DEFINE kind == api.discriminator
<1>1. WellShaped(api) /\ BodiesWritable(api) /\ SentOldInputs(cur) = cur.inputs
  BY ShapeOfAPI DEF SentOldInputs
<1>2. kind \in BodyNames /\ APIName(kind) \notin api.updateSchema
  BY <1>1 DEF BodiesWritable
<1>3. kind \in Names
  BY <1>2, BodyName
<1>4. "update" \in AnswersAbout(cur.inputs, news)
  BY <1>1 DEF Diff
<1>5. \A answer \in (IF api.update = "none" THEN {"default"} ELSE api.onDiff) : answer # "update"
  BY <1>1 DEF BodiesWritable, ReplacesAtLeast
<1>6. Replaces(cur.inputs, news) = {}
  BY <1>4, <1>5 DEF AnswersAbout
<1>7. kind \notin ChangedKeys(cur.inputs, news)
  BY <1>1, <1>2, <1>6 DEF Replaces, WellShaped, APIName
<1> QED BY <1>2, <1>3, <1>7 DEF ChangedKeys, Adds, Deletes, Updates, Keys

\* The body of an update.
LEMMA UpdateBodySays ==
    ASSUME SyncHere, TypeInv, Started, cur \in Resources,
           Keys(cur.inputs) \subseteq InputNames,
           NEW news \in PropMaps, Keys(news) \subseteq InputNames, "update" \in Diff(cur, news),
           UpdateBuildable(cur, UpdateBody(cur, news)), NEW n \in BodyNames
    PROVE  LET new == UpdateBody(cur, news)[APIName(n)]
           IN  /\ IF api.update # "PATCH"
                  THEN new \in {news[n], Else(news[n], api.defaults[APIName(n)])}
                  ELSE IF n # api.discriminator /\ news[n] = cur.inputs[n] THEN new = Absent
                  ELSE new = Else(news[n], Null)
               /\ api.update = "PATCH" /\ n = api.discriminator =>
                      new = cur.inputs[n] /\ cur.inputs[n] # Absent
<1> DEFINE patch == PatchProps(cur.inputs, news)
<1>1. /\ n \in Names /\ api.discriminator \in BodyNames \cup {Absent}
      /\ DefaultsShaped(api) /\ cur.inputs \in PropMaps
      /\ api.update = "PATCH" => engineSendsOldInputs /\ SentOldInputs(cur) = cur.inputs
  BY BodyName, ShapeOfAPI, PatchesAreModern DEF SentOldInputs, BodiesWritable, Resources
<1>2. ScopeParams \subseteq ItemParams /\ Absent \notin BodyNames
  BY ParamNames, ProviderAssumption, NamesAssumption
<1>3. CASE api.update # "PATCH"
  <2>1. UpdateBody(cur, news) = SentBody(news, ItemParams, api.updateDefaults)
    BY <1>3 DEF UpdateBody
  <2>2. api.updateDefaults[APIName(n)] \in {Absent, api.defaults[APIName(n)]}
    BY <1>1, <1>3 DEF DefaultsShaped
  <2>3. UpdateBody(cur, news)[APIName(n)] \in {news[n], Else(news[n], api.defaults[APIName(n)])}
    BY <1>2, <2>1, <2>2, SentBodyGives
  <2> QED BY <1>3, <2>3
<1>4. CASE api.update = "PATCH"
  <2>1. \A k \in Names : patch[k] =
            IF k = api.discriminator THEN cur.inputs[k]
            ELSE IF k \notin ChangedKeys(cur.inputs, news) THEN Absent
            ELSE IF news[k] = Absent THEN Null ELSE news[k]
    BY DEF PatchProps
  <2>2. ChangedKeys(cur.inputs, news) \subseteq InputNames
    BY DEF ChangedKeys, Adds, Deletes, Updates
  <2>3. Keys(patch) \subseteq InputNames
    BY <1>1, <1>2, <2>1, <2>2 DEF Keys, InputNames
  <2>4. UpdateBody(cur, news) = SentBody(patch, ItemParams, api.updateDefaults)
    BY <1>1, <1>4 DEF UpdateBody
  <2> HIDE DEF patch
  <2>5. UpdateBody(cur, news)[APIName(n)] = patch[n]
    <3>1. api.updateDefaults[APIName(n)] = Absent
      BY <1>1, <1>4 DEF DefaultsShaped
    <3> QED BY <1>2, <2>3, <2>4, <3>1, SentBodySays DEF Else
  <2>6. CASE n = api.discriminator
    <3>1. cur.inputs[n] # Absent
      BY <1>1, <1>2, <1>4, <2>6 DEF UpdateBuildable
    <3>2. news[n] = cur.inputs[n]
      BY <1>1, <1>2, <1>4, <2>6, UpdateKeepsKind
    <3> QED BY <1>1, <1>4, <2>1, <2>5, <2>6, <3>1, <3>2 DEF Else
  <2>7. CASE n # api.discriminator
    <3>1. n \notin ChangedKeys(cur.inputs, news) <=> news[n] = cur.inputs[n]
      BY <1>1 DEF ChangedKeys, Adds, Deletes, Updates, Keys
    <3> QED BY <1>1, <1>4, <2>1, <2>5, <2>7, <3>1 DEF Else
  <2> QED BY <2>6, <2>7
<1> QED BY <1>3, <1>4

-----------------------------------------------------------------------------
(* The invariant, where the engine starts something. *)

\* What is known besides, at every step.
Background == TypeInv /\ OwnInv /\ OwnershipInv /\ InputsInv /\ OutputsInv

LEMMA InBackground ==
    ASSUME Background
    PROVE  /\ Started /\ cloud \in [Ids -> Objects] /\ rpc \in RPCs
           /\ cur # NoResource => /\ cur \in Resources /\ Keys(cur.inputs) \subseteq InputNames
                                  /\ cur.inputs \in PropMaps /\ cur.outputs \in PropMaps
                                  /\ cur.id \in Ids /\ cloud[cur.id].state # "none"
           /\ old # NoResource => /\ old \in Resources /\ old.id \in Ids
                                  /\ cloud[old.id].state # "none"
BY DEF Background, TypeInv, TypeOK, OwnInv, Tracks, TracksIn, InputsInv, Resources

LEMMA SyncInit ==
    ASSUME Init
    PROVE  SyncInv
<1>1. /\ cur = NoResource /\ old = NoResource /\ rpc.op = "none" /\ rpc.phase = "idle"
      /\ \A i \in Ids : cloud[i].state = "none"
  BY DEF Init, Idle, NoObject
<1> QED BY <1>1 DEF SyncInv, CheckpointSays, FilledIn, CreateSays, UpdateSays, AnswerShows, ImportSays

\* A request is sent, or the checkpoint changes between calls.
LEMMA SyncStarts ==
    ASSUME SyncInv, rpc.op = "none", UNCHANGED <<api, cloud, dirty>>,
           cur' # NoResource => cur # NoResource /\ AgreesIn(api, cur', cloud[cur'.id], dirty[cur'.id])
                                /\ NothingToShow(api, cur'),
           old' # NoResource => old # NoResource /\ old' = old,
           (rpc'.phase = "sent" /\ rpc'.since = {}) \/ rpc' = rpc,
           CreateSays', UpdateSays', ImportSays'
    PROVE  SyncInv'
<1>1. Rewritten' = {}
  BY DEF Rewritten
<1>2. CheckpointSays'
  BY <1>1 DEF SyncInv, CheckpointSays
<1>3. AnswerShows'
  BY DEF SyncInv, AnswerShows
<1> QED BY <1>2, <1>3 DEF SyncInv

\* What Send puts in flight.
LEMMA SentCall ==
    ASSUME NEW op, NEW on, NEW target, NEW body, NEW state, NEW news,
           Send(op, on, target, body, state, news)
    PROVE  /\ rpc'.op = op /\ rpc'.phase = "sent" /\ rpc'.since = {}
           /\ rpc'.body = body /\ rpc'.state = state /\ rpc'.news = news
BY DEF Send, Idle

LEMMA SyncEngine ==
    ASSUME SyncHere, Background, SyncInv, Engine
    PROVE  SyncInv'
<1>0. /\ Started /\ TypeInv /\ api \in APIType
      /\ cur # NoResource => cur \in Resources /\ Keys(cur.inputs) \subseteq InputNames
                             /\ cur.inputs \in PropMaps
  BY InBackground, ShapeOfAPI DEF Background
<1>i. rpc.op = "none" /\ api' = api /\ cloud' = cloud /\ dirty' = dirty
  BY DEF Engine, DeployCreate, DeploySame, DeployUpdate, DeployReplace, StartRead,
     StartImport, StartDelete, DropUndeletable, Configure, ReadyToDeploy, config, history
<1>c. /\ cur # NoResource => AgreesIn(api, cur, cloud[cur.id], dirty[cur.id])
                             /\ NothingToShow(api, cur)
      /\ old # NoResource => AgreesIn(api, old, cloud[old.id], dirty[old.id])
  BY <1>i DEF SyncInv, CheckpointSays, Rewritten
\* Only an update has more to show than its inputs.
<1>s. ASSUME cur' \in {cur, NoResource}, old' \in {old, NoResource},
             (rpc'.phase = "sent" /\ rpc'.since = {}) \/ rpc' = rpc,
             CreateSays', UpdateSays', ImportSays'
      PROVE  SyncInv'
  BY <1>c, <1>i, <1>s, SyncStarts
<1>1. ASSUME NEW op \in {"create", "replace"}, NEW program \in Programs,
             NEW news \in CheckedInputs(program, Empty), SendCreate(op, news), UNCHANGED <<cur, old>>
      PROVE  SyncInv'
  <2> DEFINE body == SentBody(news, ScopeParams, api.createDefaults)
  <2>1. Keys(news) \subseteq InputNames /\ Keys(news) # {} /\ news \in PropMaps
    BY <1>0, CheckedSays, EmptyType
  <2>2. /\ rpc'.op = op /\ rpc'.phase = "sent" /\ rpc'.since = {}
        /\ rpc'.body = body /\ rpc'.news = news
    BY <1>1, SentCall DEF SendCreate
  <2>3. ASSUME NEW n \in BodyNames
        PROVE  body[APIName(n)] \in {news[n], Else(news[n], api.defaults[APIName(n)])}
    <3>1. api.createDefaults[APIName(n)] \in {Absent, api.defaults[APIName(n)]}
      BY <1>0, ShapeOfAPI DEF DefaultsShaped
    <3> QED BY <2>1, <3>1, SentBodyGives, ParamNames
  <2> HIDE DEF body
  <2>4. CreateSays'
    BY <1>i, <2>1, <2>2, <2>3 DEF CreateSays, Gives
  <2> QED BY <1>1, <1>s, <2>2, <2>4 DEF UpdateSays, ImportSays
<1>2. ASSUME NEW program \in Programs, DeployCreate(program) PROVE SyncInv'
  BY <1>1, <1>2 DEF DeployCreate
<1>3. ASSUME NEW program \in Programs, DeployReplace(program) PROVE SyncInv'
  BY <1>1, <1>3 DEF DeployReplace
<1>4. ASSUME NEW program \in Programs, DeploySame(program) PROVE SyncInv'
  <2>1. cur \in Resources /\ cur # NoResource /\ old' = old /\ rpc' = rpc
    BY <1>0, <1>4 DEF DeploySame
  <2>2. PICK news \in CheckedInputs(program, cur.inputs) :
            "none" \in Diff(cur, news) /\ cur' = [cur EXCEPT !.inputs = news]
    BY <1>4 DEF DeploySame
  <2>3. news \in PropMaps /\ Keys(news) # {}
    BY <1>0, <2>1, <2>2, CheckedSays
  <2>4. \A n \in BodyNames : news[n] = cur.inputs[n]
    BY <1>0, <2>1, <2>2, <2>3, KeptSaysTheSame
  <2>5. cur'.id = cur.id /\ cur'.inputs = news /\ cur'.outputs = cur.outputs
    BY <2>1, <2>2 DEF Resources
  <2>6. AgreesIn(api, cur', cloud[cur'.id], dirty[cur'.id])
    BY <1>c, <2>1, <2>4, <2>5 DEF AgreesIn, SaysIn
  <2>7. NothingToShow(api, cur')
    BY <2>3, <2>5 DEF NothingToShow
  <2>8. CreateSays' /\ UpdateSays' /\ ImportSays'
    BY <1>i, <2>1 DEF CreateSays, UpdateSays, ImportSays
  <2> QED BY <1>i, <2>1, <2>6, <2>7, <2>8, SyncStarts
<1>5. ASSUME NEW program \in Programs, DeployUpdate(program) PROVE SyncInv'
  <2>1. cur \in Resources /\ cur # NoResource /\ cur' = cur /\ old' = old
    BY <1>0, <1>5 DEF DeployUpdate
  <2>2. PICK news \in CheckedInputs(program, cur.inputs) :
            /\ "update" \in Diff(cur, news)
            /\ UpdateBuildable(cur, UpdateBody(cur, news))
            /\ Send("update", "cur", UpdateTarget(cur), UpdateBody(cur, news), Empty, news)
    BY <1>5 DEF DeployUpdate
  <2>3. news \in PropMaps /\ Keys(news) # {} /\ Keys(news) \subseteq InputNames
    BY <1>0, <2>1, <2>2, CheckedSays
  <2> DEFINE body == UpdateBody(cur, news)
  <2>4. \A n \in BodyNames :
            /\ IF api.update # "PATCH"
               THEN body[APIName(n)] \in {news[n], Else(news[n], api.defaults[APIName(n)])}
               ELSE IF n # api.discriminator /\ news[n] = cur.inputs[n] THEN body[APIName(n)] = Absent
               ELSE body[APIName(n)] = Else(news[n], Null)
            /\ api.update = "PATCH" /\ n = api.discriminator =>
                   body[APIName(n)] = cur.inputs[n] /\ cur.inputs[n] # Absent
    BY <1>0, <2>1, <2>2, <2>3, UpdateBodySays
  <2>5. /\ rpc'.op = "update" /\ rpc'.phase = "sent" /\ rpc'.since = {}
        /\ rpc'.body = body /\ rpc'.news = news
    BY <2>2, SentCall
  <2> HIDE DEF body
  <2>6. api.discriminator \in BodyNames \cup {Absent}
    BY <1>0, ShapeOfAPI DEF BodiesWritable
  <2>7. UpdateSays'
    BY <1>i, <2>1, <2>3, <2>4, <2>5, <2>6 DEF UpdateSays, UpdateWrites, Gives
  <2> QED BY <1>s, <2>1, <2>5, <2>7 DEF CreateSays, ImportSays
<1>6. ASSUME StartRead \/ (\E on \in {"cur", "old"} : StartDelete(on)) PROVE SyncInv'
  <2>1. rpc'.op \in {"read", "delete"} /\ rpc'.phase = "sent" /\ rpc'.since = {}
        /\ cur' = cur /\ old' = old
    BY <1>6, SentCall DEF StartRead, StartDelete
  <2> QED BY <1>s, <2>1 DEF CreateSays, UpdateSays, ImportSays
<1>7. ASSUME NEW i \in Ids, StartImport(i) PROVE SyncInv'
  <2> DEFINE state == ImportedPathParams(cloud[i].scope, i)
  <2>1. rpc'.op = "import" /\ rpc'.phase = "sent" /\ rpc'.since = {} /\ rpc'.state = state
        /\ cur' = cur /\ old' = old
    BY <1>7, SentCall DEF StartImport
  <2>2. ASSUME NEW k \in Names \ (ScopeNames \cup {Id, ItemName}) PROVE state[k] = Absent
    BY DEF ImportedPathParams, ItemName
  <2> HIDE DEF state
  <2>3. ImportSays'
    BY <2>1, <2>2, BodyName DEF ImportSays
  <2> QED BY <1>s, <2>1, <2>3 DEF CreateSays, UpdateSays
<1>8. ASSUME (\E on \in {"cur", "old"} : DropUndeletable(on)) \/ (\E engine \in Engines : Configure(engine))
      PROVE  SyncInv'
  <2>1. rpc' = rpc /\ cur' \in {cur, NoResource} /\ old' \in {old, NoResource}
    BY <1>8 DEF DropUndeletable, Forget, Configure
  <2>2. CreateSays' /\ UpdateSays' /\ ImportSays'
    BY <1>i, <2>1 DEF CreateSays, UpdateSays, ImportSays
  <2> QED BY <1>s, <2>1, <2>2
<1> QED BY <1>2, <1>3, <1>4, <1>5, <1>6, <1>7, <1>8 DEF Engine

-----------------------------------------------------------------------------
(* The invariant, where the cloud does something. *)

\* Of a live object, nothing changes but the properties ns.
QuietIn(o, o2, ns) ==
    o2.state = "live" =>
        /\ o.state = "live"
        /\ \A n \in BodyNames \ ns : o2.body[APIName(n)] = o.body[APIName(n)]

LEMMA AgreesStays ==
    ASSUME NEW a, NEW r, NEW o, NEW o2, NEW ns, NEW ns2,
           AgreesIn(a, r, o, ns), QuietIn(o, o2, ns2), ns \subseteq ns2
    PROVE  AgreesIn(a, r, o2, ns2)
BY DEF AgreesIn, QuietIn, SaysIn, ShowsIn

LEMMA RepliesStays ==
    ASSUME NEW a, NEW reply, NEW o, NEW o2, NEW ns, NEW ns2,
           RepliesIn(a, reply, o, ns), QuietIn(o, o2, ns2), ns \subseteq ns2
    PROVE  RepliesIn(a, reply, o2, ns2)
BY DEF RepliesIn, QuietIn

\* What the cloud stores for a body it is sent.
LEMMA Filled ==
    ASSUME SyncHere, NEW body, NEW n \in BodyNames
    PROVE  WithDefaults(body)[APIName(n)]
               = IF body[APIName(n)] \in {Absent, Null} THEN api.defaults[APIName(n)]
                 ELSE body[APIName(n)]
BY BodyName DEF WithDefaults

\* The object an answer in flight is about.
LEMMA AnsweredObject ==
    ASSUME Background, rpc.phase = "answered",
           rpc.op \in {"create", "replace", "read", "import", "update"}
    PROVE  /\ rpc.reply[Id] \in Ids /\ cloud[rpc.reply[Id]].state # "none"
           /\ rpc.op \in {"read", "update"} => cur # NoResource /\ rpc.reply[Id] = cur.id
           /\ rpc.op = "import" => rpc.reply[Id] = rpc.target[ItemParam]
<1>1. rpc.reply[Id] \in Ids
  BY DEF Background, TypeInv, InFlightOK
<1>2. CASE rpc.op \in {"create", "replace"}
  BY <1>1, <1>2 DEF Background, OwnInv, CreateInFlight, ReplyAbout, AboutIn
<1>3. CASE rpc.op = "read"
  BY <1>1, <1>3 DEF Background, OwnInv, ReadInFlight, ItemInFlight, Slot, ReplyAbout, AboutIn
<1>4. CASE rpc.op = "import"
  BY <1>1, <1>4 DEF Background, OwnInv, ImportInFlight, ReplyAbout, AboutIn
<1>5. CASE rpc.op = "update"
  BY <1>1, <1>5 DEF Background, OwnInv, UpdateInFlight, ItemInFlight, Slot, ReplyAbout, AboutIn
<1> QED BY <1>2, <1>3, <1>4, <1>5

\* The object a request finds is the one of the resource it is for.
LEMMA FoundObject ==
    ASSUME Background, NEW i \in Ids, Found(i), rpc.op \in {"read", "update", "delete"}
    PROVE  /\ Slot(rpc.on) # NoResource /\ Slot(rpc.on).id = i
           /\ rpc.op \in {"read", "update"} => cur # NoResource /\ cur.id = i
<1>1. Slot(rpc.on) # NoResource /\ rpc.target = OwnTarget(Slot(rpc.on))
  BY DEF Background, OwnInv, ItemInFlight
<1>2. Slot(rpc.on).id = i
  BY <1>1, ParamNames DEF OwnTarget, Found
<1>3. rpc.op \in {"read", "update"} => rpc.on = "cur"
  BY DEF Background, OwnInv, ReadInFlight, UpdateInFlight
<1> QED BY <1>1, <1>2, <1>3 DEF Slot

\* Somebody changes objects, and what changes is noted.
LEMMA SyncForeign ==
    ASSUME Background, SyncInv, UNCHANGED <<api, cur, old>>,
           \A i \in Ids : FilledIn(api, cloud'[i]),
           \A i \in Ids : cloud[i].state # "none" =>
               dirty[i] \subseteq dirty'[i] /\ QuietIn(cloud[i], cloud'[i], dirty'[i]),
           NEW since, rpc.since \subseteq since, rpc.phase # "answered" => since = rpc.since,
           rpc' = [rpc EXCEPT !.since = since],
           rpc.phase = "answered" /\ cloud[rpc.reply[Id]].state # "none" =>
               /\ since \subseteq rpc.since \cup dirty'[rpc.reply[Id]]
               /\ QuietIn(cloud[rpc.reply[Id]], cloud'[rpc.reply[Id]], since)
    PROVE  SyncInv'
<1>1. /\ rpc'.op = rpc.op /\ rpc'.phase = rpc.phase /\ rpc'.body = rpc.body
      /\ rpc'.state = rpc.state /\ rpc'.news = rpc.news /\ rpc'.reply = rpc.reply
      /\ rpc'.since = since
  BY InBackground DEF RPCs
<1>2. Rewritten' = Rewritten /\ Written' = Written
  BY <1>1 DEF Rewritten, Written
<1>3. CheckpointSays'
  <2>1. ASSUME cur # NoResource
        PROVE  AgreesIn(api, cur, cloud'[cur.id], dirty'[cur.id] \cup Rewritten)
    <3>1. /\ AgreesIn(api, cur, cloud[cur.id], dirty[cur.id] \cup Rewritten)
          /\ dirty[cur.id] \subseteq dirty'[cur.id]
          /\ QuietIn(cloud[cur.id], cloud'[cur.id], dirty'[cur.id])
      BY <2>1, InBackground DEF SyncInv, CheckpointSays
    <3>2. QuietIn(cloud[cur.id], cloud'[cur.id], dirty'[cur.id] \cup Rewritten)
      BY <3>1 DEF QuietIn
    <3>3. dirty[cur.id] \cup Rewritten \subseteq dirty'[cur.id] \cup Rewritten
      BY <3>1
    <3> QED BY <3>1, <3>2, <3>3, AgreesStays
  <2>2. ASSUME old # NoResource PROVE AgreesIn(api, old, cloud'[old.id], dirty'[old.id])
    <3>1. /\ AgreesIn(api, old, cloud[old.id], dirty[old.id])
          /\ dirty[old.id] \subseteq dirty'[old.id]
          /\ QuietIn(cloud[old.id], cloud'[old.id], dirty'[old.id])
      BY <2>2, InBackground DEF SyncInv, CheckpointSays
    <3> QED BY <3>1, AgreesStays
  <2> QED BY <1>2, <2>1, <2>2 DEF SyncInv, CheckpointSays
<1>4. CreateSays'
  <2>1. ASSUME rpc.op \in {"create", "replace"}, rpc.phase = "answered",
               cloud'[rpc.reply[Id]].state = "live", NEW n \in BodyNames \ dirty'[rpc.reply[Id]]
        PROVE  SaysIn(api, rpc.news, n, cloud'[rpc.reply[Id]].body)
    <3> DEFINE i == rpc.reply[Id]
    <3>1. i \in Ids /\ cloud[i].state # "none"
      BY <2>1, AnsweredObject
    <3>2. cloud[i].state = "live" /\ n \notin dirty[i]
          /\ cloud'[i].body[APIName(n)] = cloud[i].body[APIName(n)]
      BY <2>1, <3>1 DEF QuietIn
    <3> QED BY <2>1, <3>2 DEF SyncInv, CreateSays, SaysIn
  <2> QED BY <1>1, <2>1 DEF SyncInv, CreateSays, Gives
<1>5. UpdateSays'
  <2>1. ASSUME rpc.op = "update", rpc.phase = "answered", cloud'[cur.id].state = "live",
               NEW n \in Written \ since
        PROVE  SaysIn(api, rpc.news, n, cloud'[cur.id].body)
    <3>1. rpc.reply[Id] = cur.id /\ cloud[cur.id].state # "none" /\ n \in BodyNames
      BY <2>1, AnsweredObject DEF Written
    <3>2. cloud[cur.id].state = "live" /\ n \notin rpc.since
          /\ cloud'[cur.id].body[APIName(n)] = cloud[cur.id].body[APIName(n)]
      BY <2>1, <3>1 DEF QuietIn
    <3> QED BY <2>1, <3>2 DEF SyncInv, UpdateSays, SaysIn
  <2>2. \A n : UpdateWrites(n)' <=> UpdateWrites(n)
    BY <1>1 DEF UpdateWrites, Gives
  <2> QED BY <1>1, <1>2, <2>1, <2>2 DEF SyncInv, UpdateSays
<1>6. AnswerShows'
  <2>1. ASSUME rpc.phase = "answered", rpc.op \in {"create", "replace", "read", "import", "update"}
        PROVE  /\ since \subseteq dirty'[rpc.reply[Id]]
               /\ RepliesIn(api, rpc.reply, cloud'[rpc.reply[Id]], since)
    <3>1. rpc.since \subseteq dirty[rpc.reply[Id]] /\ dirty[rpc.reply[Id]] \subseteq dirty'[rpc.reply[Id]]
      BY <2>1, AnsweredObject DEF SyncInv, AnswerShows
    <3>2. RepliesIn(api, rpc.reply, cloud[rpc.reply[Id]], rpc.since)
      BY <2>1 DEF SyncInv, AnswerShows
    <3>3. since \subseteq rpc.since \cup dirty'[rpc.reply[Id]]
          /\ QuietIn(cloud[rpc.reply[Id]], cloud'[rpc.reply[Id]], since)
      BY <2>1, AnsweredObject
    <3> QED BY <2>1, <3>1, <3>2, <3>3, RepliesStays
  <2>2. ASSUME rpc.phase = "answered", rpc.op = "read"
        PROVE  dirty[cur.id] \subseteq dirty'[cur.id]
    BY <2>2, AnsweredObject
  <2> QED BY <1>1, <2>1, <2>2 DEF SyncInv, AnswerShows
<1>7. ImportSays'
  BY <1>1 DEF SyncInv, ImportSays
<1> QED BY <1>3, <1>4, <1>5, <1>6, <1>7 DEF SyncInv

\* The cloud answers a request about object i.
LEMMA SyncAnswered ==
    ASSUME SyncHere, Background, SyncInv, UNCHANGED <<api, cur, old, dirty>>,
           rpc.phase = "sent", NEW i \in Ids, NEW o, NEW fresh \in BOOLEAN, Answer(i, o, fresh),
           rpc.op # "delete" => cloud'[i] = o,
           \A j \in Ids : FilledIn(api, cloud'[j]),
           cur # NoResource => AgreesIn(api, cur, cloud'[cur.id], dirty[cur.id] \cup Rewritten'),
           old # NoResource => AgreesIn(api, old, cloud'[old.id], dirty[old.id]),
           rpc.op \in {"create", "replace"} /\ o.state = "live" =>
               \A n \in BodyNames \ dirty[i] : SaysIn(api, rpc.news, n, o.body),
           rpc.op = "update" => /\ cur.id = i
                                /\ o.state = "live" =>
                                       \A n \in Written : SaysIn(api, rpc.news, n, o.body),
           rpc.op = "read" => /\ cur # NoResource /\ cur.id = i
                              /\ o.state = "live" /\ cloud[i] = o
    PROVE  SyncInv'
<1>1. /\ rpc'.op = rpc.op /\ rpc'.phase = "answered" /\ rpc'.body = rpc.body
      /\ rpc'.state = rpc.state /\ rpc'.news = rpc.news /\ rpc'.reply = Reply(i, o, fresh)
      /\ rpc'.since = rpc.since
  BY InBackground DEF Answer, RPCs
<1>2. rpc.since = {} /\ rpc'.reply[Id] = i
  BY <1>1, NamesAssumption DEF SyncInv, AnswerShows, Reply
<1>3. Written' = Written
  BY <1>1 DEF Written
<1>4. WellShaped(api) /\ BodiesWritable(api)
  BY ShapeOfAPI DEF Background
<1>5. /\ \A since : RepliesIn(api, rpc'.reply, o, since)
      /\ \A n \in BodyNames : APIName(n) \in api.echo => rpc'.reply[APIName(n)] = o.body[APIName(n)]
  BY <1>1, <1>4, ReplyShows
<1>6. CheckpointSays'
  BY DEF SyncInv, CheckpointSays
<1>7. CreateSays'
  BY <1>1, <1>2 DEF SyncInv, CreateSays, Gives
<1>8. UpdateSays'
  <2>1. \A n : UpdateWrites(n)' <=> UpdateWrites(n)
    BY <1>1 DEF UpdateWrites, Gives
  <2> QED BY <1>1, <1>2, <1>3, <2>1 DEF SyncInv, UpdateSays
<1>9. AnswerShows'
  <2>1. ASSUME rpc.op = "read", NEW n \in BodyNames \ dirty[cur.id], APIName(n) \in api.echo
        PROVE  SaysIn(api, cur.inputs, n, rpc'.reply)
    <3>1. Rewritten = {}
      BY <2>1 DEF Rewritten
    <3>2. SaysIn(api, cur.inputs, n, o.body)
      BY <2>1, <3>1 DEF SyncInv, CheckpointSays, AgreesIn
    <3> QED BY <1>5, <2>1, <3>2 DEF SaysIn
  <2> QED BY <1>1, <1>2, <1>5, <2>1 DEF AnswerShows
<1>10. ImportSays'
  BY <1>1 DEF SyncInv, ImportSays
<1> QED BY <1>6, <1>7, <1>8, <1>9, <1>10 DEF SyncInv

\* What an update leaves of each property.
LEMMA UpdatedBody ==
    ASSUME SyncHere, NEW o, NEW n \in BodyNames
    PROVE  (IF api.update = "PATCH" THEN MergePatch(o, rpc.body)
            ELSE WithDefaults(rpc.body))[APIName(n)] =
               LET new == IF api.update = "PATCH" /\ rpc.body[APIName(n)] = Absent
                          THEN o[APIName(n)] ELSE rpc.body[APIName(n)]
               IN  IF new \in {Absent, Null} THEN api.defaults[APIName(n)] ELSE new
<1> DEFINE patched == [m \in Names |-> IF rpc.body[m] = Absent THEN o[m] ELSE rpc.body[m]]
<1>1. patched[APIName(n)] = IF rpc.body[APIName(n)] = Absent THEN o[APIName(n)]
                            ELSE rpc.body[APIName(n)]
  BY BodyName
<1>2. MergePatch(o, rpc.body) = WithDefaults(patched)
  BY DEF MergePatch
<1> HIDE DEF patched
<1>3. CASE api.update = "PATCH"
  BY <1>1, <1>2, <1>3, Filled
<1>4. CASE api.update # "PATCH"
  BY <1>4, Filled
<1> QED BY <1>3, <1>4

LEMMA SyncRequests ==
    ASSUME SyncHere, Background, SyncInv, NEW i \in Ids,
           CloudCreate(i) \/ CloudUpdate(i) \/ CloudRead(i) \/ CloudDelete(i)
    PROVE  SyncInv'
<1>0. /\ rpc.phase = "sent" /\ cloud \in [Ids -> Objects] /\ rpc \in RPCs /\ cloud[i] \in Objects
      /\ api' = api /\ cur' = cur /\ old' = old /\ dirty' = dirty
  BY InBackground DEF CloudCreate, CloudUpdate, CloudRead, CloudDelete, config, history
<1>c. /\ cur # NoResource => AgreesIn(api, cur, cloud[cur.id], dirty[cur.id])
      /\ old # NoResource => AgreesIn(api, old, cloud[old.id], dirty[old.id])
  BY <1>0 DEF SyncInv, CheckpointSays, Rewritten
<1>h. /\ cur # NoResource => cur.id \in Ids /\ cloud[cur.id].state # "none"
      /\ old # NoResource => old.id \in Ids /\ cloud[old.id].state # "none"
      /\ cur # NoResource /\ old # NoResource => cur.id # old.id
  BY InBackground DEF Background, OwnershipInv, HeldApart
<1>f. \A j \in Ids : FilledIn(api, cloud[j])
  BY DEF SyncInv
<1>n. ASSUME rpc'.op # "update" PROVE Rewritten' = {}
  BY <1>n DEF Rewritten
<1>o. ASSUME NEW o, NEW fresh, Answer(i, o, fresh)
      PROVE  rpc'.op = rpc.op /\ rpc'.phase = "answered" /\ rpc'.body = rpc.body
  BY <1>0, <1>o DEF Answer, RPCs
<1>1. CASE CloudCreate(i)
  <2> DEFINE o == [state |-> "live", scope |-> [p \in ScopeParams |-> rpc.target[p]],
                   body |-> WithDefaults(rpc.body)]
  <2>1. /\ rpc.op \in {"create", "replace"} /\ cloud[i].state = "none"
        /\ cloud' = [cloud EXCEPT ![i] = o] /\ Answer(i, o, TRUE)
    BY <1>1 DEF CloudCreate
  <2>2. o.state = "live" /\ o.body = WithDefaults(rpc.body)
    OBVIOUS
  <2> HIDE DEF o
  <2>3. cloud'[i] = o /\ \A j \in Ids \ {i} : cloud'[j] = cloud[j]
    BY <1>0, <2>1
  <2>4. FilledIn(api, o)
    BY <2>2, Filled DEF FilledIn
  <2>5. ASSUME NEW n \in BodyNames PROVE SaysIn(api, rpc.news, n, o.body)
    <3>1. Gives(n, rpc.body[APIName(n)])
      BY <1>0, <2>1 DEF SyncInv, CreateSays
    <3>2. n \in Names /\ rpc.news \in PropMaps
      BY <1>0, BodyName DEF RPCs
    <3>3. rpc.news[n] # Null
      BY <3>2, ProviderAssumption DEF PropMaps
    <3>4. api.defaults[APIName(n)] # Null
      BY BodyName, ShapeOfAPI, ProviderAssumption DEF Background, APIType
    <3> QED BY <2>2, <3>1, <3>3, <3>4, Filled DEF Gives, SaysIn, Else
  <2>6. Rewritten' = {}
    BY <1>n, <1>o, <2>1
  <2>7. /\ cur # NoResource => cloud'[cur.id] = cloud[cur.id]
        /\ old # NoResource => cloud'[old.id] = cloud[old.id]
    BY <1>h, <2>1, <2>3
  <2>8. \A j \in Ids : FilledIn(api, cloud'[j])
    BY <1>f, <2>3, <2>4
  <2> QED BY <1>0, <1>c, <2>1, <2>3, <2>5, <2>6, <2>7, <2>8, SyncAnswered
<1>2. CASE CloudUpdate(i)
  <2> DEFINE body == IF api.update = "PATCH" THEN MergePatch(cloud[i].body, rpc.body)
                     ELSE WithDefaults(rpc.body)
             o == [cloud[i] EXCEPT !.body = body]
  <2>1. /\ rpc.op = "update" /\ Found(i)
        /\ cloud' = [cloud EXCEPT ![i] = o] /\ Answer(i, o, FALSE)
    BY <1>2 DEF CloudUpdate
  <2>2. cur # NoResource /\ cur.id = i
    BY <2>1, FoundObject
  <2>3. ASSUME NEW n \in BodyNames
        PROVE  body[APIName(n)] =
                   LET new == IF api.update = "PATCH" /\ rpc.body[APIName(n)] = Absent
                              THEN cloud[i].body[APIName(n)] ELSE rpc.body[APIName(n)]
                   IN  IF new \in {Absent, Null} THEN api.defaults[APIName(n)] ELSE new
    BY UpdatedBody
  <2> HIDE DEF body
  <2>4. o.state = cloud[i].state /\ o.body = body /\ cloud[i].state = "live"
    BY <1>0, <2>1 DEF Objects, Found
  <2> HIDE DEF o
  <2>5. cloud'[i] = o /\ \A j \in Ids \ {i} : cloud'[j] = cloud[j]
    BY <1>0, <2>1
  <2>6. FilledIn(api, o)
    BY <2>3, <2>4 DEF FilledIn
  <2>7. ASSUME NEW n \in Written PROVE SaysIn(api, rpc.news, n, o.body)
    <3>1. n \in BodyNames /\ (api.update = "PATCH" => rpc.body[APIName(n)] # Absent)
      BY DEF Written, APIName
    <3>2. UpdateWrites(n)
      BY <2>1, <3>1 DEF SyncInv, UpdateSays
    <3>3. n \in Names /\ rpc.news \in PropMaps
      BY <1>0, <3>1, BodyName DEF RPCs
    <3>4. rpc.news[n] # Null
      BY <3>3, ProviderAssumption DEF PropMaps
    <3>5. api.defaults[APIName(n)] # Null
      BY <3>1, BodyName, ShapeOfAPI, ProviderAssumption DEF Background, APIType
    <3> QED BY <2>3, <2>4, <3>1, <3>2, <3>4, <3>5 DEF UpdateWrites, Gives, SaysIn, Else
  <2>8. Rewritten' = Written
    BY <1>0, <1>o, <2>1 DEF Rewritten, Written
  <2>9. QuietIn(cloud[i], o, dirty[i] \cup Written)
    <3> SUFFICES ASSUME NEW n \in BodyNames \ (dirty[i] \cup Written)
                 PROVE  o.body[APIName(n)] = cloud[i].body[APIName(n)]
      BY <2>4 DEF QuietIn
    <3>1. api.update = "PATCH" /\ rpc.body[APIName(n)] = Absent
      BY DEF Written, APIName
    <3>2. SaysIn(api, cur.inputs, n, cloud[i].body)
      BY <1>c, <2>2, <2>4 DEF AgreesIn
    <3>3. cloud[i].body[APIName(n)] = Absent => api.defaults[APIName(n)] = Absent
      BY <3>2 DEF SaysIn, Else
    <3>4. cloud[i].body[APIName(n)] # Null
      BY <1>0, BodyName, ProviderAssumption DEF Objects, PropMaps
    <3> QED BY <2>3, <2>4, <3>1, <3>3, <3>4
  <2>10. AgreesIn(api, cur, cloud'[cur.id], dirty[cur.id] \cup Rewritten')
    <3>1. dirty[i] \subseteq dirty[i] \cup Written
      OBVIOUS
    <3> QED BY <1>c, <2>2, <2>5, <2>8, <2>9, <3>1, AgreesStays
  <2>11. old # NoResource => cloud'[old.id] = cloud[old.id]
    BY <1>h, <2>2, <2>5
  <2>12. \A j \in Ids : FilledIn(api, cloud'[j])
    BY <1>f, <2>5, <2>6
  <2> QED BY <1>0, <1>c, <2>1, <2>2, <2>5, <2>7, <2>10, <2>11, <2>12, SyncAnswered
<1>3. CASE CloudRead(i)
  <2>1. rpc.op \in {"read", "import"} /\ Found(i) /\ Answer(i, cloud[i], FALSE) /\ cloud' = cloud
    BY <1>3 DEF CloudRead
  <2>2. cloud[i].state = "live" /\ (rpc.op = "read" => cur # NoResource /\ cur.id = i)
    BY <2>1, FoundObject DEF Found
  <2>3. Rewritten' = {}
    BY <1>n, <1>o, <2>1
  <2> QED BY <1>0, <1>c, <1>f, <2>1, <2>2, <2>3, SyncAnswered
<1>4. CASE CloudDelete(i)
  <2>1. /\ rpc.op = "delete" /\ Answer(i, cloud[i], FALSE)
        /\ cloud' = [cloud EXCEPT ![i] = Remains(i)]
    BY <1>4 DEF CloudDelete
  <2>2. cloud'[i].state = "gone" /\ \A j \in Ids \ {i} : cloud'[j] = cloud[j]
    BY <1>0, <2>1 DEF Remains
  <2>3. \A j \in Ids : FilledIn(api, cloud'[j])
    BY <1>f, <2>2 DEF FilledIn
  <2>4. Rewritten' = {}
    BY <1>n, <1>o, <2>1
  <2>5. /\ cur # NoResource => AgreesIn(api, cur, cloud'[cur.id], dirty[cur.id])
        /\ old # NoResource => AgreesIn(api, old, cloud'[old.id], dirty[old.id])
    BY <1>c, <1>h, <2>2 DEF AgreesIn
  <2> QED BY <1>0, <2>1, <2>3, <2>4, <2>5, SyncAnswered
<1> QED BY <1>1, <1>2, <1>3, <1>4

LEMMA SyncCloud ==
    ASSUME SyncHere, Background, SyncInv, Cloud
    PROVE  SyncInv'
<1>0. /\ cloud \in [Ids -> Objects] /\ rpc \in RPCs /\ dirty \in [Ids -> SUBSET BodyNames]
      /\ \A j \in Ids : cloud[j] \in Objects
  BY InBackground DEF Background, TypeInv, TypeOK
<1>f. \A j \in Ids : FilledIn(api, cloud[j])
  BY DEF SyncInv
<1>r. rpc = [rpc EXCEPT !.since = rpc.since]
  BY <1>0 DEF RPCs
<1>a. rpc.phase = "answered" => rpc.reply[Id] \in Ids
  BY DEF Background, TypeInv, InFlightOK
<1>1. ASSUME NEW i \in Ids, NEW program \in Programs, ForeignCreate(i, program)
      PROVE  SyncInv'
  <2> DEFINE o == [state |-> "live", scope |-> CreateTarget(program),
                   body |-> WithDefaults(ToAPI(program, ScopeParams))]
  <2>1. /\ cloud[i].state = "none" /\ cloud' = [cloud EXCEPT ![i] = o]
        /\ api' = api /\ cur' = cur /\ old' = old /\ dirty' = dirty /\ rpc' = rpc
    BY <1>1 DEF ForeignCreate, config
  <2>2. o.body = WithDefaults(ToAPI(program, ScopeParams))
    OBVIOUS
  <2> HIDE DEF o
  <2>3. cloud'[i] = o /\ \A j \in Ids \ {i} : cloud'[j] = cloud[j]
    BY <1>0, <2>1
  <2>4. \A j \in Ids : FilledIn(api, cloud'[j])
    BY <1>f, <2>2, <2>3, Filled DEF FilledIn
  <2>5. \A j \in Ids : cloud[j].state # "none" => \A ns : QuietIn(cloud[j], cloud'[j], ns)
    BY <2>1, <2>3 DEF QuietIn
  <2>6. rpc' = [rpc EXCEPT !.since = rpc.since]
    BY <1>r, <2>1
  <2> QED BY <1>a, <2>1, <2>4, <2>5, <2>6, SyncForeign
<1>2. ASSUME NEW i \in Ids, ForeignDelete(i) PROVE SyncInv'
  <2>1. /\ cloud' = [cloud EXCEPT ![i] = Remains(i)]
        /\ api' = api /\ cur' = cur /\ old' = old /\ dirty' = dirty /\ rpc' = rpc
    BY <1>2 DEF ForeignDelete, config
  <2>2. cloud'[i].state = "gone" /\ \A j \in Ids \ {i} : cloud'[j] = cloud[j]
    BY <1>0, <2>1 DEF Remains
  <2>3. \A j \in Ids : FilledIn(api, cloud'[j])
    BY <1>f, <2>2 DEF FilledIn
  <2>4. \A j \in Ids : \A ns : QuietIn(cloud[j], cloud'[j], ns)
    BY <2>2 DEF QuietIn
  <2>5. rpc' = [rpc EXCEPT !.since = rpc.since]
    BY <1>r, <2>1
  <2> QED BY <1>a, <2>1, <2>3, <2>4, <2>5, SyncForeign
<1>3. ASSUME NEW i \in Ids, NEW n \in BodyNames,
             NEW v \in Values \cup {api.defaults[SDKToAPINameMap[n]]}, ForeignEdit(i, n, v)
      PROVE  SyncInv'
  <2> DEFINE body  == [cloud[i].body EXCEPT ![APIName(n)] = v]
             o     == [cloud[i] EXCEPT !.body = body]
             since == IF rpc.phase = "answered" /\ rpc.reply[Id] = i
                      THEN rpc.since \cup {n} ELSE rpc.since
  <2>1. /\ cloud[i].state = "live" /\ cloud' = [cloud EXCEPT ![i] = o]
        /\ api' = api /\ cur' = cur /\ old' = old
        /\ dirty' = [dirty EXCEPT ![i] = dirty[i] \cup {n}]
        /\ rpc' = IF rpc.phase = "answered" /\ rpc.reply[Id] = i
                  THEN [rpc EXCEPT !.since = rpc.since \cup {n}] ELSE rpc
    BY <1>3 DEF ForeignEdit, config, APIName
  <2>2. /\ APIName(n) \in Names /\ cloud[i].body \in PropMaps
        /\ \A m \in BodyNames : APIName(m) \in Names /\ (m # n => APIName(m) # APIName(n))
    BY <1>0, BodyName DEF Objects
  <2>3. body[APIName(n)] = v /\ \A m \in BodyNames \ {n} : body[APIName(m)] = cloud[i].body[APIName(m)]
    BY <2>2 DEF PropMaps
  <2> HIDE DEF body
  <2>4. o.state = "live" /\ o.body = body
    BY <1>0, <2>1 DEF Objects
  <2> HIDE DEF o
  <2>5. cloud'[i] = o /\ \A j \in Ids \ {i} : cloud'[j] = cloud[j]
    BY <1>0, <2>1
  <2>6. dirty'[i] = dirty[i] \cup {n} /\ \A j \in Ids \ {i} : dirty'[j] = dirty[j]
    BY <1>0, <2>1
  <2>7. FilledIn(api, o)
    <3>1. v = Absent => api.defaults[APIName(n)] = Absent
      BY ProviderAssumption DEF APIName
    <3>2. \A m \in BodyNames \ {n} :
              cloud[i].body[APIName(m)] = Absent => api.defaults[APIName(m)] = Absent
      BY <1>f, <2>1 DEF FilledIn
    <3> QED BY <2>3, <2>4, <3>1, <3>2 DEF FilledIn
  <2>8. \A j \in Ids : FilledIn(api, cloud'[j])
    BY <1>f, <2>5, <2>7
  <2>9. \A ns : n \in ns => QuietIn(cloud[i], o, ns)
    BY <2>1, <2>3, <2>4 DEF QuietIn
  <2>10. \A j \in Ids \ {i} : \A ns : QuietIn(cloud[j], cloud'[j], ns)
    BY <2>5 DEF QuietIn
  <2>11. \A j \in Ids : dirty[j] \subseteq dirty'[j] /\ QuietIn(cloud[j], cloud'[j], dirty'[j])
    BY <2>5, <2>6, <2>9, <2>10
  <2>12. rpc' = [rpc EXCEPT !.since = since]
    BY <1>r, <2>1
  <2>13. rpc.since \subseteq since /\ (rpc.phase # "answered" => since = rpc.since)
    OBVIOUS
  <2>14. ASSUME rpc.phase = "answered"
         PROVE  /\ since \subseteq rpc.since \cup dirty'[rpc.reply[Id]]
                /\ QuietIn(cloud[rpc.reply[Id]], cloud'[rpc.reply[Id]], since)
    <3>1. CASE rpc.reply[Id] = i
      BY <2>5, <2>6, <2>9, <2>14, <3>1
    <3>2. CASE rpc.reply[Id] # i
      BY <1>a, <2>10, <2>14, <3>2
    <3> QED BY <3>1, <3>2
  <2> HIDE DEF since
  <2> QED BY <2>1, <2>8, <2>11, <2>12, <2>13, <2>14, SyncForeign
<1> QED BY <1>1, <1>2, <1>3, SyncRequests DEF Cloud

-----------------------------------------------------------------------------
(* The invariant, where a call ends. *)

LEMMA SyncEnds ==
    ASSUME SyncInv, rpc' = Idle, UNCHANGED <<api, cloud>>,
           cur' # NoResource => /\ AgreesIn(api, cur', cloud[cur'.id], dirty'[cur'.id])
                                /\ NothingToShow(api, cur'),
           old' # NoResource => AgreesIn(api, old', cloud[old'.id], dirty'[old'.id])
    PROVE  SyncInv'
<1>1. rpc'.op = "none" /\ rpc'.phase = "idle"
  BY DEF Idle
<1>2. CheckpointSays'
  BY <1>1 DEF CheckpointSays, Rewritten
<1> QED BY <1>1, <1>2 DEF SyncInv, CreateSays, UpdateSays, AnswerShows, ImportSays

\* What Read makes of a reply.
LEMMA ReadSays ==
    ASSUME SyncHere, BodiesWritable(api), NEW inputs, NEW stash, NEW n \in BodyNames,
           APIName(n) # n => rpc.reply[n] = Absent /\ rpc.state[APIName(n)] = Absent
    PROVE  /\ ReadInputs(inputs)[n] =
                  IF Keys(inputs) = {} \/ (inputs[n] # Absent /\ rpc.reply[APIName(n)] # Absent)
                  THEN rpc.reply[APIName(n)] ELSE inputs[n]
           /\ ReadResource(inputs, stash).outputs[n] =
                  IF rpc.reply[APIName(n)] # Absent THEN rpc.reply[APIName(n)] ELSE rpc.state[n]
<1> DEFINE writable == FilterReadOnlyProperties(rpc.reply, api.createSchema)
           merged   == ApplyDiffFromCloudProvider(rpc.reply, rpc.state)
<1>1. n \in Names /\ APIName(n) \in Names /\ n # Id /\ APIName(n) # Id
      /\ APIName(n) \in api.createSchema
  BY BodyName DEF BodiesWritable
<1>2. writable[APIName(n)] = rpc.reply[APIName(n)] /\ writable[n] \in {rpc.reply[n], Absent}
  BY <1>1 DEF FilterReadOnlyProperties
<1> HIDE DEF writable
<1>3. ToSDK(writable)[n] = rpc.reply[APIName(n)]
  <2>1. ToSDK(writable)[n] = IF writable[APIName(n)] # Absent THEN writable[APIName(n)] ELSE writable[n]
    BY ToSDKBody
  <2> QED BY <1>2, <2>1
<1>4. ReadInputs(inputs)[n] =
          IF Keys(inputs) = {} THEN ToSDK(writable)[n]
          ELSE IF inputs[n] # Absent /\ ToSDK(writable)[n] # Absent
               THEN ToSDK(writable)[n] ELSE inputs[n]
  BY <1>1 DEF ReadInputs, writable
<1>5. \A k \in Names : merged[k] = IF rpc.reply[k] # Absent THEN rpc.reply[k] ELSE rpc.state[k]
  BY ApplyDiffIsOverwrite
<1> HIDE DEF merged
<1>6. ToSDK(merged)[n] = IF rpc.reply[APIName(n)] # Absent THEN rpc.reply[APIName(n)] ELSE rpc.state[n]
  <2>1. ToSDK(merged)[n] = IF merged[APIName(n)] # Absent THEN merged[APIName(n)] ELSE merged[n]
    BY ToSDKBody
  <2> QED BY <1>1, <1>5, <2>1
<1>7. ReadResource(inputs, stash).outputs = ToSDK(merged)
  BY ReadOutputs DEF merged
<1> QED BY <1>3, <1>4, <1>6, <1>7

\* After a Read, the resource agrees with the object o on what it has learnt,
\* and on what it agreed on before.
LEMMA ReadAgrees ==
    ASSUME SyncHere, BodiesWritable(api), NEW o, FilledIn(api, o),
           RepliesIn(api, rpc.reply, o, rpc.since), NEW inputs, NEW stash, NEW known,
           \A n \in BodyNames : APIName(n) # n => rpc.state[APIName(n)] = Absent,
           Keys(inputs) = {} => \A n \in BodyNames : APIName(n) \in api.echo => rpc.state[n] = Absent,
           o.state = "live" => \A n \in BodyNames \ known :
               /\ SaysIn(api, inputs, n, o.body)
               /\ APIName(n) \in api.echo /\ o.body[APIName(n)] = Absent => rpc.state[n] = Absent
    PROVE  LET r == ReadResource(inputs, stash)
           IN  /\ AgreesIn(api, r, o, (known \ Learnt(inputs)) \cup rpc.since)
               /\ NothingToShow(api, r)
<1> DEFINE r == ReadResource(inputs, stash)
<1>1. r.inputs = ReadInputs(inputs)
  BY DEF ReadResource
<1>2. ASSUME NEW n \in BodyNames
      PROVE  /\ ReadInputs(inputs)[n] =
                    IF Keys(inputs) = {} \/ (inputs[n] # Absent /\ rpc.reply[APIName(n)] # Absent)
                    THEN rpc.reply[APIName(n)] ELSE inputs[n]
             /\ ReadResource(inputs, stash).outputs[n] =
                    IF rpc.reply[APIName(n)] # Absent THEN rpc.reply[APIName(n)] ELSE rpc.state[n]
  <2>1. APIName(n) # n => rpc.reply[n] = Absent /\ rpc.state[APIName(n)] = Absent
    BY DEF RepliesIn
  <2>2. ReadInputs(inputs)[n] =
            IF Keys(inputs) = {} \/ (inputs[n] # Absent /\ rpc.reply[APIName(n)] # Absent)
            THEN rpc.reply[APIName(n)] ELSE inputs[n]
    BY <2>1, ReadSays
  <2>3. ReadResource(inputs, stash).outputs[n] =
            IF rpc.reply[APIName(n)] # Absent THEN rpc.reply[APIName(n)] ELSE rpc.state[n]
    BY <2>1, ReadSays
  <2> QED BY <2>2, <2>3
<1>3. ASSUME NEW n \in BodyNames
      PROVE  r.outputs[n] =
                 IF rpc.reply[APIName(n)] # Absent THEN rpc.reply[APIName(n)] ELSE rpc.state[n]
  BY <1>2
<1> HIDE DEF r
<1>4. ASSUME NEW n \in BodyNames, Keys(inputs) = {} PROVE inputs[n] = Absent
  BY <1>4, BodyName DEF Keys
<1>5. ASSUME o.state = "live", NEW n \in BodyNames \ ((known \ Learnt(inputs)) \cup rpc.since)
      PROVE  SaysIn(api, r.inputs, n, o.body) /\ ShowsIn(api, r.outputs, n, o.body)
  <2>1. /\ APIName(n) \notin api.echo => rpc.reply[APIName(n)] = Absent
        /\ APIName(n) \in api.echo => rpc.reply[APIName(n)] = o.body[APIName(n)]
        /\ o.body[APIName(n)] = Absent => api.defaults[APIName(n)] = Absent
    BY <1>5 DEF RepliesIn, FilledIn
  <2>2. n \in Learnt(inputs) <=>
            /\ APIName(n) \in api.echo
            /\ Keys(inputs) = {} \/ (inputs[n] # Absent /\ rpc.reply[APIName(n)] # Absent)
    BY <1>5 DEF Learnt, APIName
  <2>3. n \notin known \/ n \in Learnt(inputs)
    BY <1>5
  <2>4. SaysIn(api, r.inputs, n, o.body)
    <3>1. CASE n \in Learnt(inputs)
      <4>1. r.inputs[n] = o.body[APIName(n)]
        BY <1>1, <1>2, <2>1, <2>2, <3>1
      <4> QED BY <2>1, <4>1 DEF SaysIn, Else
    <3>2. CASE n \notin Learnt(inputs)
      <4>1. SaysIn(api, inputs, n, o.body)
        BY <1>5, <2>3, <3>2
      <4>2. r.inputs[n] = inputs[n]
        BY <1>1, <1>2, <1>4, <2>1, <2>2, <3>2
      <4> QED BY <4>1, <4>2 DEF SaysIn
    <3> QED BY <3>1, <3>2
  <2>5. ASSUME APIName(n) \in api.echo PROVE r.outputs[n] = o.body[APIName(n)]
    <3>1. CASE o.body[APIName(n)] # Absent
      BY <1>3, <2>1, <2>5, <3>1
    <3>2. CASE o.body[APIName(n)] = Absent
      <4>1. r.outputs[n] = rpc.state[n]
        BY <1>3, <2>1, <2>5, <3>2
      <4>2. rpc.state[n] = Absent
        BY <1>5, <2>1, <2>2, <2>3, <2>5, <3>2
      <4> QED BY <3>2, <4>1, <4>2
    <3> QED BY <3>1, <3>2
  <2> QED BY <2>4, <2>5 DEF ShowsIn
<1>6. ASSUME Keys(r.inputs) = {}, NEW n \in BodyNames, APIName(n) \in api.echo
      PROVE  r.outputs[n] = Absent
  <2>1. \A k \in Names : r.inputs[k] = Absent
    BY <1>6 DEF Keys
  <2>2. Keys(inputs) = {}
    <3>1. ASSUME NEW k \in Keys(inputs) PROVE r.inputs[k] # Absent
      BY <1>1, <3>1 DEF ReadInputs, Keys
    <3> QED BY <2>1, <3>1 DEF Keys
  <2>3. rpc.reply[APIName(n)] = Absent
    BY <1>1, <1>2, <2>1, <2>2, BodyName
  <2> QED BY <1>6, <1>3, <2>2, <2>3
<1> QED BY <1>5, <1>6 DEF AgreesIn, NothingToShow, r

\* The state a Read starts from, in the names of the SDK.
LEMMA ReadState ==
    ASSUME SyncHere, Background, SyncInv, rpc.phase = "answered", rpc.op = "read",
           NEW n \in BodyNames
    PROVE  /\ APIName(n) # n => rpc.state[APIName(n)] = Absent
           /\ Keys(cur.inputs) = {} /\ APIName(n) \in api.echo => rpc.state[n] = Absent
           /\ n \notin dirty[cur.id] /\ cloud[cur.id].state = "live" /\ APIName(n) \in api.echo
                  /\ cloud[cur.id].body[APIName(n)] = Absent => rpc.state[n] = Absent
<1>1. /\ cur # NoResource /\ cur \in Resources /\ Keys(cur.inputs) \subseteq InputNames
      /\ InSDKNames(cur) /\ rpc.state = CurrentState(cur)
      /\ cur.inputs \in PropMaps /\ cur.outputs \in PropMaps
  BY AnsweredObject, InBackground DEF Background, OutputsInv, ReadFromCheckpoint
<1>2. /\ n \in Names /\ APIName(n) \in Names /\ n # Id /\ APIName(n) # Id
      /\ APIName(n) # n => APIName(n) \notin InputNames
      /\ APIToSDKNameMap[APIName(n)] = n
  BY BodyName
<1>3. \A k \in Names \ {Id} :
          rpc.state[k] = IF Keys(cur.outputs) = {} THEN cur.inputs[k] ELSE cur.outputs[k]
  BY <1>1 DEF CurrentState, PropMaps
<1>4. Keys(cur.outputs) = {} => cur.outputs[n] = Absent
  BY <1>2 DEF Keys
<1>5. ASSUME APIName(n) # n PROVE cur.inputs[APIName(n)] = Absent /\ cur.outputs[APIName(n)] = Absent
  BY <1>1, <1>2, <1>5 DEF Keys, InSDKNames
<1>6. ASSUME Keys(cur.inputs) = {}, APIName(n) \in api.echo
      PROVE  cur.inputs[n] = Absent /\ cur.outputs[n] = Absent
  BY <1>1, <1>2, <1>6 DEF SyncInv, CheckpointSays, NothingToShow, Keys
<1>7. ASSUME n \notin dirty[cur.id], cloud[cur.id].state = "live", APIName(n) \in api.echo,
             cloud[cur.id].body[APIName(n)] = Absent
      PROVE  cur.inputs[n] = Absent /\ cur.outputs[n] = Absent
  <2>1. Rewritten = {}
    BY DEF Rewritten
  <2> QED BY <1>1, <1>7, <2>1 DEF SyncInv, CheckpointSays, AgreesIn, SaysIn, ShowsIn, Else
<1> QED BY <1>2, <1>3, <1>5, <1>6, <1>7

LEMMA SyncHandlers ==
    ASSUME SyncHere, Background, SyncInv, Handlers
    PROVE  SyncInv'
<1>0. /\ rpc' = Idle /\ api' = api /\ cloud' = cloud
      /\ BodiesWritable(api) /\ WellShaped(api)
      /\ dirty \in [Ids -> SUBSET BodyNames] /\ rpc.reply \in PropMaps
  BY InBackground, ShapeOfAPI DEF Handlers, FinishCreate, FinishRead, FinishImport, FinishUpdate,
     FinishDelete, RequestFails, AnswerLost, config, Background, TypeInv, TypeOK, RPCs
<1>c. /\ cur # NoResource => /\ AgreesIn(api, cur, cloud[cur.id], dirty[cur.id] \cup Rewritten)
                             /\ NothingToShow(api, cur) /\ cur.id \in Ids
      /\ old # NoResource => AgreesIn(api, old, cloud[old.id], dirty[old.id]) /\ old.id \in Ids
      /\ cur # NoResource /\ old # NoResource => cur.id # old.id
  BY InBackground DEF SyncInv, CheckpointSays, Background, OwnershipInv, HeldApart
<1>r. ASSUME rpc.phase = "answered", rpc.op \in {"create", "replace", "read", "import", "update"}
      PROVE  /\ rpc.reply[Id] \in Ids /\ rpc.since \subseteq dirty[rpc.reply[Id]]
             /\ RepliesIn(api, rpc.reply, cloud[rpc.reply[Id]], rpc.since)
             /\ FilledIn(api, cloud[rpc.reply[Id]])
  BY <1>r, AnsweredObject DEF SyncInv, AnswerShows
\* The outputs of a resource that takes them from the answer as it is.
<1>o. ASSUME rpc.phase = "answered", rpc.op \in {"create", "replace", "update"}, NEW n \in BodyNames,
             n \notin rpc.since, cloud[rpc.reply[Id]].state = "live"
      PROVE  ShowsIn(api, ToSDK(rpc.reply), n, cloud[rpc.reply[Id]].body)
  <2>1. ToSDK(rpc.reply)[n] = rpc.reply[APIName(n)]
    BY <1>o, <1>r, ToSDKBody DEF RepliesIn
  <2> QED BY <1>o, <1>r, <2>1 DEF RepliesIn, ShowsIn
<1>1. CASE FinishCreate
  <2>1. /\ rpc.phase = "answered" /\ rpc.op \in {"create", "replace"} /\ dirty' = dirty
        /\ old' = IF rpc.op = "replace" THEN cur ELSE old
    BY <1>1 DEF FinishCreate, history
  <2>2. cur'.id = rpc.reply[Id] /\ cur'.inputs = rpc.news /\ cur'.outputs = ToSDK(rpc.reply)
    BY <1>1, IdIsKept DEF FinishCreate, CreatedResource, ToSDK
  <2>3. AgreesIn(api, cur', cloud[cur'.id], dirty[cur'.id])
    BY <1>o, <1>r, <2>1, <2>2 DEF AgreesIn, SyncInv, CreateSays
  <2>4. NothingToShow(api, cur')
    BY <2>1, <2>2 DEF NothingToShow, SyncInv, CreateSays
  <2>5. Rewritten = {}
    BY <2>1 DEF Rewritten
  <2> QED BY <1>0, <1>c, <2>1, <2>3, <2>4, <2>5, SyncEnds
<1>2. CASE FinishRead
  <2>1. /\ rpc.phase = "answered" /\ rpc.op = "read" /\ old' = old
        /\ cur' = ReadResource(cur.inputs, cur.stash)
        /\ dirty' = [dirty EXCEPT ![cur.id] = (dirty[cur.id] \ Learnt(cur.inputs)) \cup rpc.since]
    BY <1>2 DEF FinishRead
  <2>2. cur # NoResource /\ rpc.reply[Id] = cur.id /\ cur.id \in Ids
    BY <1>c, <2>1, AnsweredObject
  <2>3. cur'.id = cur.id
    BY <1>2, <2>1, ReturnedIds DEF Background
  <2>4. /\ dirty'[cur.id] = (dirty[cur.id] \ Learnt(cur.inputs)) \cup rpc.since
        /\ old # NoResource => dirty'[old.id] = dirty[old.id]
    BY <1>0, <1>c, <2>1, <2>2
  <2>5. Rewritten = {}
    BY <2>1 DEF Rewritten
  <2>6. cloud[cur.id].state = "live" => \A n \in BodyNames \ dirty[cur.id] :
            /\ SaysIn(api, cur.inputs, n, cloud[cur.id].body)
            /\ APIName(n) \in api.echo /\ cloud[cur.id].body[APIName(n)] = Absent => rpc.state[n] = Absent
    BY <1>c, <2>1, <2>2, <2>5, ReadState DEF AgreesIn
  <2>7. /\ \A n \in BodyNames : APIName(n) # n => rpc.state[APIName(n)] = Absent
        /\ Keys(cur.inputs) = {} =>
               \A n \in BodyNames : APIName(n) \in api.echo => rpc.state[n] = Absent
    BY <2>1, ReadState
  <2>8. /\ AgreesIn(api, cur', cloud[cur.id], (dirty[cur.id] \ Learnt(cur.inputs)) \cup rpc.since)
        /\ NothingToShow(api, cur')
    BY <1>0, <1>r, <2>1, <2>2, <2>6, <2>7, ReadAgrees
  <2> QED BY <1>0, <1>c, <2>1, <2>3, <2>4, <2>8, SyncEnds
<1>3. CASE FinishImport
  <2> DEFINE i == rpc.reply[Id]
  <2>1. /\ rpc.phase = "answered" /\ rpc.op = "import" /\ old' = old
        /\ cur' = ReadResource(Empty, Empty)
        /\ dirty' = [dirty EXCEPT ![i] = (BodyNames \ Learnt(Empty)) \cup rpc.since]
    BY <1>3 DEF FinishImport
  <2>2. old = NoResource
    BY <2>1 DEF Background, OwnershipInv, SlotsFree
  <2>3. cur'.id = i /\ i \in Ids
    BY <1>3, <2>1, ReturnedIds, AnsweredObject DEF Background
  <2>4. dirty'[i] = (BodyNames \ Learnt(Empty)) \cup rpc.since
    BY <1>0, <2>1, <2>3
  <2>5. \A n \in BodyNames : rpc.state[n] = Absent /\ rpc.state[APIName(n)] = Absent
    BY <2>1 DEF SyncInv, ImportSays
  <2>6. /\ AgreesIn(api, cur', cloud[i], (BodyNames \ Learnt(Empty)) \cup rpc.since)
        /\ NothingToShow(api, cur')
    BY <1>0, <1>r, <2>1, <2>5, ReadAgrees
  <2> QED BY <1>0, <2>1, <2>2, <2>3, <2>4, <2>6, SyncEnds
<1>4. CASE FinishUpdate
  <2>1. /\ rpc.phase = "answered" /\ rpc.op = "update" /\ old' = old
        /\ cur' = [cur EXCEPT !.inputs = rpc.news, !.outputs = ToSDK(rpc.reply),
                              !.stash = StashOf(rpc.news, Empty)]
        /\ dirty' = [dirty EXCEPT ![cur.id] = (dirty[cur.id] \ Written) \cup rpc.since]
    BY <1>0, <1>4 DEF FinishUpdate, WellShaped
  <2>2. cur # NoResource /\ cur \in Resources /\ rpc.reply[Id] = cur.id /\ cur.id \in Ids
    BY <1>c, <2>1, AnsweredObject, InBackground
  <2>3. cur'.id = cur.id /\ cur'.inputs = rpc.news /\ cur'.outputs = ToSDK(rpc.reply)
    BY <2>1, <2>2 DEF Resources
  <2>4. /\ dirty'[cur.id] = (dirty[cur.id] \ Written) \cup rpc.since
        /\ old # NoResource => dirty'[old.id] = dirty[old.id]
    BY <1>0, <1>c, <2>1, <2>2
  <2>5. ASSUME cloud[cur.id].state = "live", NEW n \in BodyNames,
               n \notin (dirty[cur.id] \ Written) \cup rpc.since
        PROVE  SaysIn(api, rpc.news, n, cloud[cur.id].body)
    <3>1. CASE n \in Written
      BY <2>1, <2>5, <3>1 DEF SyncInv, UpdateSays
    <3>2. CASE n \notin Written
      <4>1. UpdateWrites(n) /\ api.update = "PATCH" /\ rpc.body[APIName(n)] = Absent
        BY <2>1, <3>2 DEF SyncInv, UpdateSays, Written, APIName
      <4>2. rpc.news[n] = cur.inputs[n]
        BY <4>1, ProviderAssumption DEF UpdateWrites, Else
      <4>3. SaysIn(api, cur.inputs, n, cloud[cur.id].body)
        BY <1>c, <2>1, <2>2, <2>5, <3>2 DEF AgreesIn, Rewritten
      <4> QED BY <4>2, <4>3 DEF SaysIn
    <3> QED BY <3>1, <3>2
  <2>6. AgreesIn(api, cur', cloud[cur.id], dirty'[cur.id])
    BY <1>o, <2>1, <2>2, <2>3, <2>4, <2>5 DEF AgreesIn
  <2>7. NothingToShow(api, cur')
    BY <2>1, <2>3 DEF NothingToShow, SyncInv, UpdateSays
  <2> QED BY <1>0, <1>c, <2>1, <2>3, <2>4, <2>6, <2>7, SyncEnds
<1>5. CASE FinishDelete \/ RequestFails
  <2>1. Rewritten = {} /\ dirty' = dirty
    BY <1>5 DEF Rewritten, FinishDelete, RequestFails, history
  <2>2. cur' \in {cur, NoResource} /\ old' \in {old, NoResource}
    BY <1>5 DEF FinishDelete, Forget, RequestFails
  <2> QED BY <1>0, <1>c, <2>1, <2>2, SyncEnds
<1>6. CASE AnswerLost
  <2>1. /\ cur' = cur /\ old' = old /\ rpc.phase = "answered"
        /\ dirty' = IF rpc.op = "update" THEN [dirty EXCEPT ![cur.id] = dirty[cur.id] \cup Written]
                    ELSE dirty
    BY <1>6 DEF AnswerLost
  <2>2. cur # NoResource => dirty'[cur.id] = dirty[cur.id] \cup Rewritten
    BY <1>0, <1>c, <2>1 DEF Rewritten
  <2>3. old # NoResource => dirty'[old.id] = dirty[old.id]
    <3>1. rpc.op = "update" => cur # NoResource
      BY <2>1, AnsweredObject
    <3> QED BY <1>0, <1>c, <2>1, <3>1
  <2> QED BY <1>0, <1>c, <2>1, <2>2, <2>3, SyncEnds
<1> QED BY <1>1, <1>2, <1>3, <1>4, <1>5, <1>6 DEF Handlers

-----------------------------------------------------------------------------
(* The theorems. *)

LEMMA SyncStep ==
    ASSUME SyncHere, Background, SyncInv, [Next]_vars
    PROVE  SyncInv'
<1>1. CASE UNCHANGED vars
  <2>1. /\ api' = api /\ cur' = cur /\ old' = old /\ rpc' = rpc /\ cloud' = cloud /\ dirty' = dirty
    BY <1>1 DEF vars
  <2>2. Rewritten' = Rewritten /\ Written' = Written /\ \A n : UpdateWrites(n)' <=> UpdateWrites(n)
    BY <2>1 DEF Rewritten, Written, UpdateWrites, Gives
  <2> QED BY <2>1, <2>2 DEF SyncInv, CheckpointSays, CreateSays, Gives, UpdateSays, AnswerShows, ImportSays
<1> QED BY <1>1, SyncEngine, SyncCloud, SyncHandlers DEF Next

\* The API was chosen when the provider was made.
LEMMA SameAPI ==
    ASSUME [Next]_vars
    PROVE  api' = api
<1>1. CASE Engine
  BY <1>1 DEF Engine, DeployCreate, DeploySame, DeployUpdate, DeployReplace, StartRead,
     StartImport, StartDelete, DropUndeletable, Configure, config
<1>2. CASE Cloud
  BY <1>2 DEF Cloud, CloudCreate, CloudUpdate, CloudRead, CloudDelete,
     ForeignCreate, ForeignDelete, ForeignEdit, config
<1>3. CASE Handlers
  BY <1>3 DEF Handlers, FinishCreate, FinishRead, FinishImport, FinishUpdate, FinishDelete,
     RequestFails, AnswerLost, config
<1>4. CASE UNCHANGED vars
  BY <1>4 DEF vars
<1> QED BY <1>1, <1>2, <1>3, <1>4 DEF Next

\* What the checkpoint, the calls in flight and the cloud say of each other
\* stays true, whatever is deployed, refreshed, imported, edited or lost.
LEMMA SyncWhereShaped == SyncNames => (Spec => [](Background /\ (SyncShaped(api) => SyncInv)))
<1> SUFFICES ASSUME SyncNames
             PROVE  Spec => [](Background /\ (SyncShaped(api) => SyncInv))
  OBVIOUS
<1>1. Circumstances /\ \A a \in APIs : GivesInputs(a)
  BY DEF SyncNames
<1>2. TypeInv /\ OwnInv /\ (OwnershipInv /\ NoForgottenObject) /\ InputsInv /\ OutputsInv => Background
  BY DEF Background
<1>3. Background /\ (SyncShaped(api) => SyncInv) /\ [Next]_vars => (SyncShaped(api) => SyncInv)'
  <2> SUFFICES ASSUME Background, SyncShaped(api) => SyncInv, [Next]_vars, SyncShaped(api)'
               PROVE  SyncInv'
    OBVIOUS
  <2>1. SyncShaped(api)
    BY SameAPI
  <2> QED BY <2>1, SyncStep DEF SyncHere
<1>4. Init => SyncInv
  BY SyncInit
<1> QED BY <1>1, <1>2, <1>3, <1>4, TypeInvariant, OwnInvariant, OwnershipInvariant, InputsInvariant,
       OutputsInvariant, PTL DEF Spec

\* So it does for every API, where every API is in shape.
THEOREM SyncInvariant == SyncCircumstances => (Spec => [](Background /\ SyncInv /\ SyncHere))
<1> SUFFICES ASSUME SyncCircumstances PROVE Spec => [](Background /\ SyncInv /\ SyncHere)
  OBVIOUS
<1>1. SyncNames
  BY DEF SyncCircumstances
<1>2. ASSUME Background, SyncShaped(api) => SyncInv PROVE Background /\ SyncInv /\ SyncHere
  BY <1>2 DEF Background, TypeInv, TypeOK, SyncCircumstances, SyncHere
<1> QED BY <1>1, <1>2, SyncWhereShaped, PTL

\* Between calls the checkpoint agrees with the cloud.
LEMMA Agreement ==
    ASSUME SyncInv, rpc.op = "none", NEW r \in {cur, old} \ {NoResource},
           cloud[r.id].state = "live", NEW n \in BodyNames \ dirty[r.id]
    PROVE  SaysIn(api, r.inputs, n, cloud[r.id].body) /\ ShowsIn(api, r.outputs, n, cloud[r.id].body)
<1>1. Rewritten = {}
  BY DEF Rewritten
<1>2. AgreesIn(api, r, cloud[r.id], dirty[r.id])
  BY <1>1 DEF SyncInv, CheckpointSays
<1> QED BY <1>2 DEF AgreesIn

\* The checkpoint's inputs say what the cloud holds, for every property but
\* those that changed behind the engine's back: an update with PATCH or PUT,
\* a failure at either side of one, a refresh and an import leave no other
\* difference.
THEOREM AlwaysInSync == SyncCircumstances => (Spec => []InSync)
<1>1. Background /\ SyncInv /\ SyncHere => InSync
  BY Agreement DEF InSync, SaysIn, Else, APIName
<1> QED BY <1>1, SyncInvariant, PTL

\* So do its outputs, as far as answers repeat what the object holds.
THEOREM OutputsAlwaysInSync == SyncCircumstances => (Spec => []OutputsInSync)
<1>1. Background /\ SyncInv /\ SyncHere => OutputsInSync
  BY Agreement DEF OutputsInSync, ShowsIn, APIName
<1> QED BY <1>1, SyncInvariant, PTL

\* And so do both where only some APIs are in shape, whether or not an engine
\* sends the old inputs.
THEOREM InSyncWhereverShaped == SyncNames => (Spec => []InSyncWhereShaped)
<1> SUFFICES ASSUME SyncNames PROVE Spec => []InSyncWhereShaped
  OBVIOUS
<1>1. ASSUME SyncInv PROVE InSync /\ OutputsInSync
  BY <1>1, Agreement DEF InSync, OutputsInSync, SaysIn, ShowsIn, Else, APIName
<1>2. (SyncShaped(api) => SyncInv) => InSyncWhereShaped
  BY <1>1 DEF InSyncWhereShaped
<1> QED BY <1>2, SyncWhereShaped, PTL

\* The discriminator of a PATCH is the kind of the object it is sent to.
THEOREM PatchAlwaysNamesKind == SyncCircumstances => (Spec => []PatchNamesKind)
<1> SUFFICES ASSUME SyncCircumstances PROVE Spec => []PatchNamesKind
  OBVIOUS
<1>1. ASSUME Background, SyncInv, SyncHere PROVE PatchNamesKind
  <2> DEFINE kind == api.discriminator
  <2> SUFFICES ASSUME rpc.op = "update", rpc.phase = "sent", api.update = "PATCH", kind # Absent,
                      Found(cur.id), kind \notin dirty[cur.id]
               PROVE  rpc.body[SDKToAPINameMap[kind]] = cloud[cur.id].body[SDKToAPINameMap[kind]]
    BY DEF PatchNamesKind
  <2>1. kind \in BodyNames
    BY <1>1, ShapeOfAPI DEF Background, BodiesWritable
  <2>2. rpc.body[APIName(kind)] = cur.inputs[kind] /\ cur.inputs[kind] # Absent
    BY <1>1 DEF SyncInv, UpdateSays
  <2>3. cur # NoResource
    BY <1>1, FoundObject, ProviderAssumption DEF Background, TypeInv, InFlightOK, Resources
  <2>4. SaysIn(api, cur.inputs, kind, cloud[cur.id].body)
    BY <1>1, <2>1, <2>3 DEF SyncInv, CheckpointSays, AgreesIn, Rewritten, Found
  <2> QED BY <2>2, <2>4 DEF SaysIn, Else, APIName
<1> QED BY <1>1, SyncInvariant, PTL

\* Nothing else answers an update.
LEMMA OnlyTheCloudAnswers ==
    ASSUME TypeInv, rpc.op = "update", rpc.phase = "sent", rpc'.phase = "answered", [Next]_vars
    PROVE  \E i \in Ids : CloudUpdate(i)
<1>1. CASE Engine
  BY <1>1 DEF Engine, DeployCreate, DeploySame, DeployUpdate, DeployReplace, StartRead,
     StartImport, StartDelete, DropUndeletable, Configure, ReadyToDeploy
<1>2. CASE Cloud
  BY <1>2 DEF Cloud, CloudCreate, CloudRead, CloudDelete, ForeignCreate, ForeignDelete, ForeignEdit
<1>3. CASE Handlers
  BY <1>3 DEF Handlers, FinishCreate, FinishRead, FinishImport, FinishUpdate, FinishDelete,
     RequestFails, AnswerLost, Idle
<1>4. CASE UNCHANGED vars
  BY <1>4 DEF vars
<1> QED BY <1>1, <1>2, <1>3, <1>4 DEF Next

\* A PATCH changes nothing in the cloud that the program does not: what Diff
\* has not found changed is not in its body, and the cloud keeps it, also what
\* somebody else has edited.
THEOREM PatchLeavesTheRest == SyncCircumstances => (Spec => UpdatesOnlyChanged)
<1> SUFFICES ASSUME SyncCircumstances PROVE Spec => UpdatesOnlyChanged
  OBVIOUS
<1>1. ASSUME Background, SyncInv, SyncHere, [Next]_vars, rpc.op = "update", rpc.phase = "sent",
             rpc'.phase = "answered", api.update = "PATCH",
             NEW n \in BodyNames \ {api.discriminator}, rpc.news[n] = cur.inputs[n]
      PROVE  cloud'[cur.id].body[SDKToAPINameMap[n]] = cloud[cur.id].body[SDKToAPINameMap[n]]
  <2>1. PICK i \in Ids : CloudUpdate(i)
    BY <1>1, OnlyTheCloudAnswers DEF Background
  <2>2. Found(i) /\ cloud \in [Ids -> Objects] /\ cloud[i].state = "live"
        /\ cloud' = [cloud EXCEPT ![i] = [cloud[i] EXCEPT !.body = MergePatch(cloud[i].body, rpc.body)]]
    BY <1>1, <2>1, InBackground DEF CloudUpdate, Found
  <2>3. cur.id = i
    BY <1>1, <2>2, FoundObject
  <2>4. APIName(n) \in Names /\ cloud[i] \in Objects
    BY <1>1, <2>2, BodyName
  <2>5. cloud'[i].body = MergePatch(cloud[i].body, rpc.body)
    BY <2>2, <2>4 DEF Objects
  <2>6. rpc.body[APIName(n)] = Absent
    BY <1>1 DEF SyncInv, UpdateSays, UpdateWrites
  <2>7. cloud[i].body[APIName(n)] # Null
    BY <2>4, ProviderAssumption DEF Objects, PropMaps
  <2>8. cloud[i].body[APIName(n)] = Absent => api.defaults[APIName(n)] = Absent
    BY <1>1, <2>2 DEF SyncInv, FilledIn
  <2> QED BY <2>3, <2>4, <2>5, <2>6, <2>7, <2>8 DEF MergePatch, WithDefaults, APIName
<1>2. Background /\ SyncInv /\ SyncHere /\ [Next]_vars
         => [rpc.op = "update" /\ rpc.phase = "sent" /\ rpc'.phase = "answered" /\ api.update = "PATCH"
             => \A n \in BodyNames \ {api.discriminator} :
                   rpc.news[n] = cur.inputs[n] =>
                      cloud'[cur.id].body[SDKToAPINameMap[n]]
                          = cloud[cur.id].body[SDKToAPINameMap[n]]]_vars
  BY <1>1
<1> QED BY <1>2, SyncInvariant, PTL DEF Spec, UpdatesOnlyChanged

\* A refresh of a resource that has inputs, whose object nobody else changed,
\* leaves the inputs alone, also when the object is deleted meanwhile.
THEOREM RefreshIsStable == SyncCircumstances => (Spec => RefreshStable)
<1> SUFFICES ASSUME SyncCircumstances PROVE Spec => RefreshStable
  OBVIOUS
<1>1. ASSUME Background, SyncInv, SyncHere, [Next]_vars, rpc.op = "read", Keys(cur.inputs) # {},
             dirty[cur.id] = {}
      PROVE  cur'.inputs = cur.inputs
  <2>1. CASE cur' = cur
    BY <2>1
  <2>2. CASE FinishRead
    <3>1. rpc.phase = "answered" /\ cur'.inputs = ReadInputs(cur.inputs)
      BY <2>2 DEF FinishRead, ReadResource
    <3>2. /\ cur # NoResource /\ cur.inputs \in PropMaps /\ Keys(cur.inputs) \subseteq InputNames
          /\ RepliesIn(api, rpc.reply, cloud[rpc.reply[Id]], rpc.since)
      BY <1>1, <3>1, AnsweredObject, InBackground DEF SyncInv, AnswerShows
    <3>3. BodiesWritable(api) /\ PlainPathNames
      BY <1>1, ShapeOfAPI DEF Background, SyncHere, SyncNames, Circumstances
    <3> DEFINE newState == ToSDK(FilterReadOnlyProperties(rpc.reply, api.createSchema))
    <3>4. ASSUME NEW n \in BodyNames PROVE ReadInputs(cur.inputs)[n] = cur.inputs[n]
      <4>1. APIName(n) # n => rpc.reply[n] = Absent /\ rpc.state[APIName(n)] = Absent
        BY <1>1, <3>1, <3>2, ReadState DEF RepliesIn
      <4>2. ReadInputs(cur.inputs)[n] =
                IF Keys(cur.inputs) = {} \/ (cur.inputs[n] # Absent /\ rpc.reply[APIName(n)] # Absent)
                THEN rpc.reply[APIName(n)] ELSE cur.inputs[n]
        BY <1>1, <3>3, <4>1, ReadSays
      <4>3. ASSUME cur.inputs[n] # Absent, rpc.reply[APIName(n)] # Absent
            PROVE  rpc.reply[APIName(n)] = cur.inputs[n]
        <5>1. APIName(n) \in api.echo
          BY <3>2, <4>3 DEF RepliesIn
        <5>2. SaysIn(api, cur.inputs, n, rpc.reply)
          BY <1>1, <3>1, <5>1 DEF SyncInv, AnswerShows
        <5> QED BY <4>3, <5>2 DEF SaysIn, Else
      <4> QED BY <1>1, <4>2, <4>3
    <3>5. ASSUME NEW n \in ScopeNames PROVE newState[n] = Absent
      <4>1. n \in Names /\ n \notin api.createSchema
        BY <3>3, ScopeNamesAre DEF BodiesWritable
      <4>2. newState[n] = FilterReadOnlyProperties(rpc.reply, api.createSchema)[n]
        BY <3>3, ToSDKKeepsPath
      <4> QED BY <4>1, <4>2 DEF FilterReadOnlyProperties
    <3>6. ReadInputs(cur.inputs) =
              [n \in Names |-> IF cur.inputs[n] # Absent /\ newState[n] # Absent
                               THEN newState[n] ELSE cur.inputs[n]]
      BY <1>1 DEF ReadInputs
    <3> HIDE DEF newState
    <3>7. ASSUME NEW n \in Names PROVE ReadInputs(cur.inputs)[n] = cur.inputs[n]
      <4>1. CASE n \in BodyNames
        BY <3>4, <4>1
      <4>2. CASE n \notin BodyNames
        <5>1. cur.inputs[n] = Absent \/ n \in ScopeNames
          BY <3>2, <4>2 DEF Keys, InputNames
        <5> QED BY <3>5, <3>6, <5>1
      <4> QED BY <4>1, <4>2
    <3>8. ReadInputs(cur.inputs) = [n \in Names |-> ReadInputs(cur.inputs)[n]]
      BY <3>6
    <3>9. cur.inputs = [n \in Names |-> cur.inputs[n]]
      BY <3>2 DEF PropMaps
    <3> QED BY <3>1, <3>7, <3>8, <3>9
  <2> QED BY <1>1, <2>1, <2>2, OnlyFinishReadWrites
<1>2. Background /\ SyncInv /\ SyncHere /\ [Next]_vars
         => [rpc.op = "read" /\ Keys(cur.inputs) # {} /\ dirty[cur.id] = {}
             => cur'.inputs = cur.inputs]_vars
  BY <1>1
<1> QED BY <1>2, SyncInvariant, PTL DEF Spec, RefreshStable

=============================================================================
