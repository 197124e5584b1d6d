--------------------------- MODULE ProviderProofs ---------------------------
(***************************************************************************)
(* Theorems about Provider, for every value of its constants.              *)
(***************************************************************************)
EXTENDS ProviderInv, TLAPS

-----------------------------------------------------------------------------
(* What the operators on property maps return. *)

\* TransformBody only moves values about: it adds none.
LEMMA TransformBodyType ==
    ASSUME NEW V, Absent \in V, NEW m \in [Names -> V], NEW lookup \in [Names -> Names]
    PROVE  TransformBody(m, lookup) \in [Names -> V]
<1>1. ASSUME NEW n \in Names, MovedTo(m, lookup, n) # {}
      PROVE  m[CHOOSE k \in MovedTo(m, lookup, n) : TRUE] \in V
  <2>1. (CHOOSE k \in MovedTo(m, lookup, n) : TRUE) \in MovedTo(m, lookup, n)
    BY <1>1
  <2> QED BY <2>1 DEF MovedTo, Keys
<1> QED BY <1>1 DEF TransformBody

\* A name that nothing is renamed to and that is not renamed keeps its value.
LEMMA TransformBodyKeeps ==
    ASSUME NEW m, NEW lookup \in [Names -> Names], NEW n \in Names,
           \A k \in Names : lookup[k] = n <=> k = n
    PROVE  TransformBody(m, lookup)[n] = m[n]
BY DEF TransformBody, MovedTo, Keys

LEMMA ApplyDiffType ==
    ASSUME NEW V, NEW m \in [Names -> V], NEW o \in [Names -> V]
    PROVE  ApplyDiffFromCloudProvider(m, o) \in [Names -> V]
BY DEF ApplyDiffFromCloudProvider

\* Whatever the cloud says wins over what the state had, which stays where
\* the cloud is silent.
LEMMA ApplyDiffIsOverwrite ==
    ASSUME NEW m, NEW o, NEW n \in Names
    PROVE  ApplyDiffFromCloudProvider(m, o)[n] = IF m[n] # Absent THEN m[n] ELSE o[n]
BY DEF ApplyDiffFromCloudProvider, Adds, Updates, Keys

LEMMA FilterType ==
    ASSUME NEW V, Absent \in V, NEW m \in [Names -> V], NEW schema
    PROVE  FilterReadOnlyProperties(m, schema) \in [Names -> V]
BY DEF FilterReadOnlyProperties

LEMMA IdIsKept ==
    /\ \A m : TransformBody(m, APIToSDKNameMap)[Id] = m[Id]
    /\ Id \in Names
BY NamesAssumption, RenamingAssumption, TransformBodyKeeps

-----------------------------------------------------------------------------
(* What the operators of the handlers return. *)

LEMMA ParamNames ==
    /\ \A p \in ItemParams : PathParamNameMap[p] \in Names
    /\ ScopeParams \subseteq ItemParams
    /\ ItemParam \in ItemParams
BY ParamsAssumption DEF ItemParams

LEMMA EmptyType == Empty \in PropMaps /\ Empty \in Bodies
BY DEF Empty, PropMaps, Bodies

LEMMA PathParamsType ==
    ASSUME NEW props \in PropMaps, NEW nested \in PropMaps, NEW oldInputs \in PropMaps,
           NEW global \in [Names -> Values \cup {Absent}]
    PROVE  /\ PathParamsMap(ItemParams, props, nested, global, oldInputs) \in Targets
           /\ PathParamsMap(ScopeParams, props, nested, global, oldInputs) \in Scopes
<1>1. ASSUME NEW p \in ItemParams
      PROVE  PathParam(p, props, nested, global, oldInputs) \in Values \cup Ids \cup {Absent}
  <2>1. LookupName(p, props, oldInputs) \in Names
    BY ParamNames, NamesAssumption DEF LookupName
  <2> DEFINE n == LookupName(p, props, oldInputs)
  <2>2. /\ props[n] \in Values \cup Ids \cup {Absent}
        /\ nested[n] \in Values \cup Ids \cup {Absent}
        /\ oldInputs[n] \in Values \cup Ids \cup {Absent}
        /\ global[n] \in Values \cup Ids \cup {Absent}
    BY <2>1 DEF PropMaps
  <2> HIDE DEF n
  <2>3. PathParam(p, props, nested, global, oldInputs)
           \in {props[n], nested[n], global[n], oldInputs[n]}
    BY DEF PathParam, Else, n
  <2> QED BY <2>2, <2>3
<1> QED BY <1>1, ParamNames DEF PathParamsMap, Targets, Scopes

LEMMA EmptyMapType == Empty \in [Names -> Values \cup {Absent}]
BY DEF Empty

\* The request for a resource of the checkpoint is typed.
LEMMA TargetTypes ==
    ASSUME api \in APIType, NEW r \in Resources
    PROVE  /\ UpdateTarget(r) \in Targets
           /\ DeleteTarget(r) \in Targets
           /\ CurrentState(r) \in PropMaps
           /\ ReadTarget(r) \in Targets
<1>1. /\ r.id \in Ids /\ r.inputs \in PropMaps /\ r.outputs \in PropMaps /\ r.stash \in PropMaps
      /\ api.global \in [Names -> Values \cup {Absent}]
  BY DEF Resources, APIType
<1>2. UpdateTarget(r) \in Targets
  BY <1>1, PathParamsType DEF UpdateTarget
<1>3. DeleteTarget(r) \in Targets
  BY <1>1, PathParamsType, EmptyType DEF DeleteTarget
<1>4. CurrentState(r) \in PropMaps
  BY <1>1, IdIsKept DEF CurrentState, PropMaps
<1>5. Overwrite(r.inputs, CurrentState(r)) \in PropMaps
  BY <1>1, <1>4 DEF Overwrite, PropMaps
<1>6. ReadTarget(r) \in Targets
  BY <1>1, <1>5, PathParamsType, EmptyType DEF ReadTarget
<1> QED BY <1>2, <1>3, <1>4, <1>6

LEMMA CreateTargetType ==
    ASSUME api \in APIType, NEW news \in PropMaps
    PROVE  CreateTarget(news) \in Scopes
BY PathParamsType, EmptyType DEF CreateTarget, APIType

LEMMA CheckedInputsType ==
    ASSUME api \in APIType, NEW program \in Programs, NEW olds \in PropMaps
    PROVE  /\ CheckedInputs(program, olds) \subseteq PropMaps
           /\ program \in PropMaps
<1>1. program \in [Names -> Values \cup {Absent}]
  BY ProviderAssumption
<1>2. api.autoName # Absent => olds[api.autoName] \in Values \cup Ids \cup {Absent}
  BY DEF APIType, PropMaps
<1> QED BY <1>1, <1>2 DEF CheckedInputs, PropMaps

LEMMA ToAPIType ==
    ASSUME NEW V, Absent \in V, NEW body \in [Names -> V], NEW params
    PROVE  ToAPI(body, params) \in [Names -> V]
<1>1. RemovePathParams(body, params) \in [Names -> V]
  BY DEF RemovePathParams, Without
<1> QED BY <1>1, TransformBodyType, NamesAssumption DEF ToAPI

LEMMA SentBodyType ==
    ASSUME NEW V, Values \cup {Absent} \subseteq V, NEW body \in [Names -> V], NEW params,
           NEW defaults \in [Names -> Values \cup {Absent}]
    PROVE  SentBody(body, params, defaults) \in [Names -> V]
<1>1. ToAPI(body, params) \in [Names -> V]
  BY ToAPIType
<1> QED BY <1>1 DEF SentBody, WithSchemaDefaults, Else

LEMMA UpdateBodyType ==
    ASSUME api \in APIType, NEW r \in Resources, NEW news \in PropMaps
    PROVE  UpdateBody(r, news) \in Bodies
<1> DEFINE V == Values \cup Ids \cup {Absent, Null}
<1>1. SentOldInputs(r) \in PropMaps
  BY EmptyType DEF SentOldInputs, Resources
<1>2. PatchProps(SentOldInputs(r), news) \in [Names -> V]
  BY <1>1 DEF PatchProps, PropMaps
<1>3. news \in [Names -> V]
  BY DEF PropMaps
<1>4. Values \cup {Absent} \subseteq V
  OBVIOUS
<1> HIDE DEF V
<1>5. api.updateDefaults \in [Names -> Values \cup {Absent}]
  BY DEF APIType
<1>6. UpdateBody(r, news) \in [Names -> V]
  BY <1>2, <1>3, <1>4, <1>5, SentBodyType DEF UpdateBody
<1> QED BY <1>6 DEF Bodies, V

LEMMA ImportedType ==
    ASSUME NEW scope \in Scopes, NEW i \in Ids
    PROVE  ImportedPathParams(scope, i) \in PropMaps
<1>1. ASSUME NEW n \in ScopeNames
      PROVE  scope[CHOOSE p \in ScopeParams : PathParamNameMap[p] = n] \in Values \cup Ids \cup {Absent}
  BY <1>1 DEF ScopeNames, Scopes
<1> QED BY <1>1 DEF ImportedPathParams, PropMaps

LEMMA WithDefaultsType ==
    ASSUME api \in APIType, NEW body \in Bodies
    PROVE  WithDefaults(body) \in PropMaps
BY DEF WithDefaults, Bodies, PropMaps, APIType

LEMMA ReplyType ==
    ASSUME NEW i \in Ids, NEW o \in Objects, NEW fresh \in BOOLEAN
    PROVE  /\ Reply(i, o, fresh) \in PropMaps
           /\ Reply(i, o, fresh)[Id] = i
<1>1. o.body \in PropMaps /\ o.scope \in Scopes
  BY DEF Objects
<1>2. ASSUME NEW n \in Names,
             \E p \in ScopeParams : SDKToAPINameMap[PathParamNameMap[p]] = n
      PROVE  o.scope[CHOOSE p \in ScopeParams : SDKToAPINameMap[PathParamNameMap[p]] = n]
                 \in Values \cup Ids \cup {Absent}
  BY <1>1, <1>2 DEF Scopes
<1> QED BY <1>1, <1>2, IdIsKept DEF Reply, PropMaps

LEMMA ToSDKType ==
    ASSUME NEW m \in PropMaps
    PROVE  ToSDK(m) \in PropMaps /\ ToSDK(m)[Id] = m[Id]
<1> DEFINE V == Values \cup Ids \cup {Absent}
<1>1. Absent \in V /\ m \in [Names -> V]
  BY DEF PropMaps
<1> HIDE DEF V
<1>2. ToSDK(m) \in [Names -> V]
  BY <1>1, TransformBodyType, NamesAssumption DEF ToSDK
<1> QED BY <1>2, IdIsKept DEF ToSDK, PropMaps, V

-----------------------------------------------------------------------------
(* Type correctness. *)

\* The answer in flight names an object, and a Read or an Update is always in
\* flight for a resource of the checkpoint: what TypeOK needs to be inductive.
InFlightOK ==
    /\ rpc.phase = "answered" => rpc.reply[Id] \in Ids
    /\ rpc.op \in {"read", "update"} => cur \in Resources

TypeInv == TypeOK /\ InFlightOK

LEMMA IdleType == Idle \in RPCs
BY EmptyType, ParamNames DEF Idle, RPCs, NoTarget, Targets

\* Sending a request puts a typed call in flight.
LEMMA SendType ==
    ASSUME NEW op \in {"create", "replace", "read", "import", "update", "delete"},
           NEW on \in {"cur", "old"}, NEW target \in Targets, NEW body \in Bodies,
           NEW state \in PropMaps, NEW news \in PropMaps,
           Send(op, on, target, body, state, news)
    PROVE  rpc' \in RPCs /\ rpc'.phase = "sent" /\ rpc'.op = op /\ rpc'.on = on
BY IdleType DEF Send, RPCs, Idle

LEMMA SendCreateType ==
    ASSUME api \in APIType, NEW op \in {"create", "replace"}, NEW news \in PropMaps,
           SendCreate(op, news)
    PROVE  rpc' \in RPCs /\ rpc'.phase = "sent" /\ rpc'.op = op
<1> DEFINE target == [p \in ItemParams |->
                        IF p \in ScopeParams THEN CreateTarget(news)[p] ELSE Absent]
<1>1. target \in Targets
  BY CreateTargetType DEF Targets, Scopes
<1> DEFINE body == SentBody(news, ScopeParams, api.createDefaults)
<1>2. body \in PropMaps
  BY SentBodyType DEF PropMaps, APIType
<1>3. body \in Bodies
  BY <1>2 DEF PropMaps, Bodies
<1>4. Send(op, "cur", target, body, Empty, news)
  BY DEF SendCreate
<1> HIDE DEF target, body
<1> QED BY <1>1, <1>3, <1>4, EmptyType, SendType

\* Every answer is typed and names the object it is about.
LEMMA AnswerType ==
    ASSUME rpc \in RPCs, NEW i \in Ids, NEW o \in Objects, NEW fresh \in BOOLEAN,
           Answer(i, o, fresh)
    PROVE  rpc' \in RPCs /\ rpc'.reply[Id] \in Ids /\ rpc'.op = rpc.op
<1>1. Reply(i, o, fresh) \in PropMaps /\ Reply(i, o, fresh)[Id] = i
  BY ReplyType
<1> QED BY <1>1 DEF Answer, RPCs

\* What Create and Read return is a resource.
LEMMA CreatedType ==
    ASSUME TypeInv, rpc.phase = "answered"
    PROVE  CreatedResource \in Resources
<1>1. rpc.reply \in PropMaps /\ rpc.news \in PropMaps /\ rpc.reply[Id] \in Ids
  BY DEF TypeInv, TypeOK, InFlightOK, RPCs
<1> QED BY <1>1, ToSDKType, EmptyType DEF CreatedResource, StashOf, Resources

LEMMA ReadInputsType ==
    ASSUME rpc.reply \in PropMaps, NEW inputs \in PropMaps
    PROVE  ReadInputs(inputs) \in PropMaps
<1>1. FilterReadOnlyProperties(rpc.reply, api.createSchema) \in PropMaps
  BY FilterType DEF PropMaps
<1>2. ToSDK(FilterReadOnlyProperties(rpc.reply, api.createSchema)) \in PropMaps
  BY <1>1, ToSDKType
<1> QED BY <1>2 DEF ReadInputs, PropMaps

LEMMA ReadType ==
    ASSUME TypeInv, rpc.phase = "answered", NEW inputs \in PropMaps, NEW stash \in PropMaps
    PROVE  /\ ReadResource(inputs, stash) \in Resources
           /\ ReadResource(inputs, stash).id = rpc.reply[Id]
<1>1. rpc.reply \in PropMaps /\ rpc.state \in PropMaps /\ rpc.reply[Id] \in Ids
  BY DEF TypeInv, TypeOK, InFlightOK, RPCs
<1> DEFINE merged == ApplyDiffFromCloudProvider(rpc.reply, rpc.state)
<1>2. merged \in PropMaps
  BY <1>1, ApplyDiffType DEF PropMaps
<1>3. merged[Id] = rpc.reply[Id]
  BY <1>1, IdIsKept, ApplyDiffIsOverwrite, ProviderAssumption
<1> HIDE DEF merged
<1>4. ToSDK(merged) \in PropMaps /\ ToSDK(merged)[Id] = rpc.reply[Id]
  BY <1>2, <1>3, ToSDKType
<1>5. ReadResource(inputs, stash) =
        [id |-> ToSDK(merged)[Id], inputs |-> ReadInputs(inputs), outputs |-> ToSDK(merged),
         stash |-> StashOf(ReadInputs(inputs), stash)]
  BY DEF ReadResource, merged
<1> QED BY <1>1, <1>4, <1>5, ReadInputsType DEF StashOf, Resources

LEMMA InitType == Init => TypeInv
<1> SUFFICES ASSUME Init PROVE TypeInv
  OBVIOUS
<1>1. NoObject \in Objects
  BY EmptyType DEF NoObject, NoScope, Objects, Scopes
<1>2. TypeOK
  BY <1>1, IdleType, ProviderAssumption DEF Init, TypeOK
<1>3. InFlightOK
  BY DEF Init, InFlightOK, Idle
<1> QED BY <1>2, <1>3 DEF TypeInv

\* The steps of the engine.
LEMMA EngineType == TypeInv /\ Engine => TypeInv'
<1> SUFFICES ASSUME TypeInv, Engine PROVE TypeInv'
  OBVIOUS
<1>0. /\ api \in APIs /\ api \in APIType
      /\ cur \in Resources \cup {NoResource} /\ old \in Resources \cup {NoResource}
      /\ rpc \in RPCs /\ cloud \in [Ids -> Objects]
  BY ProviderAssumption DEF TypeInv, TypeOK
<1>r. ASSUME cur # NoResource
      PROVE  cur.id \in Ids /\ cur.inputs \in PropMaps /\ cur.outputs \in PropMaps
             /\ cur.stash \in PropMaps /\ cur \in Resources
  BY <1>0, <1>r DEF Resources
<1>s. ASSUME UNCHANGED <<config, cur, old, cloud, history>>, rpc' \in RPCs,
             rpc'.phase = "sent", rpc'.op \in {"read", "update"} => cur \in Resources
      PROVE  TypeInv'
  BY <1>s DEF TypeInv, TypeOK, InFlightOK, config, history
<1>1. ASSUME NEW program \in Programs, DeployCreate(program)
      PROVE  TypeInv'
  <2>1. PICK news \in CheckedInputs(program, Empty) : SendCreate("create", news)
    BY <1>1 DEF DeployCreate
  <2>2. news \in PropMaps
    BY <1>0, <2>1, CheckedInputsType, EmptyType
  <2>3. rpc' \in RPCs /\ rpc'.phase = "sent" /\ rpc'.op = "create"
    BY <1>0, <2>1, <2>2, SendCreateType
  <2> QED BY <1>1, <1>s, <2>3 DEF DeployCreate
<1>2. ASSUME NEW program \in Programs, DeploySame(program)
      PROVE  TypeInv'
  <2>1. PICK news \in CheckedInputs(program, cur.inputs) : cur' = [cur EXCEPT !.inputs = news]
    BY <1>2 DEF DeploySame
  <2>2. news \in PropMaps /\ cur \in Resources
    BY <1>0, <1>r, <1>2, <2>1, CheckedInputsType DEF DeploySame
  <2>3. cur' \in Resources
    BY <2>1, <2>2 DEF Resources
  <2> QED BY <1>2, <2>3 DEF DeploySame, TypeInv, TypeOK, InFlightOK, config, history
<1>3. ASSUME NEW program \in Programs, DeployUpdate(program)
      PROVE  TypeInv'
  <2>1. PICK news \in CheckedInputs(program, cur.inputs) :
              Send("update", "cur", UpdateTarget(cur), UpdateBody(cur, news), Empty, news)
    BY <1>3 DEF DeployUpdate
  <2>2. news \in PropMaps /\ cur \in Resources
    BY <1>0, <1>r, <1>3, <2>1, CheckedInputsType DEF DeployUpdate
  <2>3. UpdateTarget(cur) \in Targets /\ UpdateBody(cur, news) \in Bodies
    BY <1>0, <2>2, TargetTypes, UpdateBodyType
  <2>4. rpc' \in RPCs /\ rpc'.phase = "sent"
    BY <2>1, <2>2, <2>3, EmptyType, SendType
  <2> QED BY <1>3, <1>s, <2>2, <2>4 DEF DeployUpdate
<1>4. ASSUME NEW program \in Programs, DeployReplace(program)
      PROVE  TypeInv'
  <2>1. PICK news \in CheckedInputs(program, Empty) : SendCreate("replace", news)
    BY <1>4 DEF DeployReplace
  <2>2. news \in PropMaps
    BY <1>0, <2>1, CheckedInputsType, EmptyType
  <2>3. rpc' \in RPCs /\ rpc'.phase = "sent" /\ rpc'.op = "replace"
    BY <1>0, <2>1, <2>2, SendCreateType
  <2> QED BY <1>4, <1>s, <2>3 DEF DeployReplace
<1>5. ASSUME StartRead
      PROVE  TypeInv'
  <2>1. cur \in Resources
    BY <1>r, <1>5 DEF StartRead
  <2>2. ReadTarget(cur) \in Targets /\ CurrentState(cur) \in PropMaps
    BY <1>0, <2>1, TargetTypes
  <2>3. rpc' \in RPCs /\ rpc'.phase = "sent"
    BY <1>5, <2>2, EmptyType, SendType DEF StartRead
  <2> QED BY <1>5, <1>s, <2>1, <2>3 DEF StartRead
<1>6. ASSUME NEW i \in Ids, StartImport(i)
      PROVE  TypeInv'
  <2> DEFINE state == ImportedPathParams(cloud[i].scope, i)
             target == PathParamsMap(ItemParams, state, Empty, api.global, Empty)
  <2>1. state \in PropMaps
    BY <1>0, ImportedType DEF Objects
  <2>2. api.global \in [Names -> Values \cup {Absent}]
    BY <1>0 DEF APIType
  <2>3. Send("import", "cur", target, Empty, state, Empty)
    BY <1>6 DEF StartImport
  <2> HIDE DEF state
  <2>4. target \in Targets
    BY <2>1, <2>2, EmptyType, PathParamsType
  <2> HIDE DEF target
  <2>5. rpc' \in RPCs /\ rpc'.phase = "sent" /\ rpc'.op = "import"
    BY <2>1, <2>3, <2>4, EmptyType, SendType
  <2> QED BY <1>6, <1>s, <2>5 DEF StartImport
<1>7. ASSUME NEW on \in {"cur", "old"}, StartDelete(on)
      PROVE  TypeInv'
  <2>1. Slot(on) \in Resources
    BY <1>0, <1>7 DEF StartDelete, Slot
  <2>2. DeleteTarget(Slot(on)) \in Targets
    BY <1>0, <2>1, TargetTypes
  <2>3. rpc' \in RPCs /\ rpc'.phase = "sent" /\ rpc'.op = "delete"
    BY <1>7, <2>2, EmptyType, SendType DEF StartDelete
  <2> QED BY <1>7, <1>s, <2>3 DEF StartDelete
<1>8. ASSUME NEW on \in {"cur", "old"}, DropUndeletable(on)
      PROVE  TypeInv'
  <2>1. Slot(on).id \in Ids
    BY <1>0, <1>8 DEF DropUndeletable, Slot, Resources
  <2>2. cur' \in Resources \cup {NoResource} /\ old' \in Resources \cup {NoResource}
    BY <1>0, <1>8 DEF DropUndeletable, Forget
  <2>3. rpc.op = "none" /\ rpc' = rpc
    BY <1>8 DEF DropUndeletable
  <2> QED BY <1>8, <2>1, <2>2, <2>3 DEF DropUndeletable, TypeInv, TypeOK, InFlightOK, config
<1>9. ASSUME NEW engine \in Engines, Configure(engine)
      PROVE  TypeInv'
  <2>1. engine.sendsOldInputs \in BOOLEAN /\ engine.sendsOldInputsToDelete \in BOOLEAN
    BY ProviderAssumption
  <2> QED BY <1>9, <2>1 DEF Configure, TypeInv, TypeOK, InFlightOK, history
<1> QED BY <1>1, <1>2, <1>3, <1>4, <1>5, <1>6, <1>7, <1>8, <1>9 DEF Engine

\* The steps of the cloud.
LEMMA CloudType == TypeInv /\ Cloud => TypeInv'
<1> SUFFICES ASSUME TypeInv, Cloud PROVE TypeInv'
  OBVIOUS
<1>0. /\ api \in APIs /\ api \in APIType
      /\ rpc \in RPCs /\ cloud \in [Ids -> Objects]
  BY ProviderAssumption DEF TypeInv, TypeOK
<1>r. rpc.body \in Bodies /\ rpc.target \in Targets
  BY <1>0 DEF RPCs
<1>b. PropMaps \subseteq Bodies
  BY DEF PropMaps, Bodies
<1>1. ASSUME NEW i \in Ids, CloudCreate(i)
      PROVE  TypeInv'
  <2> DEFINE o == [state |-> "live", scope |-> [p \in ScopeParams |-> rpc.target[p]],
                   body |-> WithDefaults(rpc.body)]
  <2>1. o \in Objects
    BY <1>0, <1>r, WithDefaultsType, ParamNames DEF Objects, Scopes, Targets
  <2>2. cloud' = [cloud EXCEPT ![i] = o] /\ Answer(i, o, TRUE)
    BY <1>1 DEF CloudCreate
  <2> HIDE DEF o
  <2>3. rpc' \in RPCs /\ rpc'.reply[Id] \in Ids /\ rpc'.op = rpc.op
    BY <1>0, <2>1, <2>2, AnswerType
  <2> QED BY <1>0, <1>1, <2>1, <2>2, <2>3
          DEF CloudCreate, TypeInv, TypeOK, InFlightOK, config, history
<1>2. ASSUME NEW i \in Ids, CloudUpdate(i)
      PROVE  TypeInv'
  <2> DEFINE body == IF api.update = "PATCH" THEN MergePatch(cloud[i].body, rpc.body)
                     ELSE WithDefaults(rpc.body)
             o == [cloud[i] EXCEPT !.body = body]
  <2>1. cloud[i] \in Objects /\ cloud[i].body \in PropMaps
    BY <1>0 DEF Objects
  <2>2. [n \in Names |-> IF rpc.body[n] = Absent THEN cloud[i].body[n] ELSE rpc.body[n]] \in Bodies
    BY <1>r, <2>1 DEF Bodies, PropMaps
  <2>3. body \in PropMaps
    BY <1>0, <1>r, <2>2, WithDefaultsType DEF MergePatch
  <2>4. cloud' = [cloud EXCEPT ![i] = o] /\ Answer(i, o, FALSE)
    BY <1>2 DEF CloudUpdate
  <2> HIDE DEF body
  <2>5. o \in Objects
    BY <2>1, <2>3 DEF Objects
  <2> HIDE DEF o
  <2>6. rpc' \in RPCs /\ rpc'.reply[Id] \in Ids /\ rpc'.op = rpc.op
    BY <1>0, <2>4, <2>5, AnswerType
  <2> QED BY <1>0, <1>2, <2>4, <2>5, <2>6
          DEF CloudUpdate, TypeInv, TypeOK, InFlightOK, config, history
<1>3. ASSUME NEW i \in Ids, CloudRead(i)
      PROVE  TypeInv'
  <2>1. rpc' \in RPCs /\ rpc'.reply[Id] \in Ids /\ rpc'.op = rpc.op
    BY <1>0, <1>3, AnswerType DEF CloudRead
  <2> QED BY <1>3, <2>1 DEF CloudRead, TypeInv, TypeOK, InFlightOK, config, history
<1>d. ASSUME NEW i \in Ids PROVE Remains(i) \in Objects
  BY <1>0, EmptyType DEF Remains, Objects
<1>4. ASSUME NEW i \in Ids, CloudDelete(i)
      PROVE  TypeInv'
  <2>1. rpc' \in RPCs /\ rpc'.reply[Id] \in Ids /\ rpc'.op = rpc.op
    BY <1>0, <1>4, AnswerType DEF CloudDelete
  <2>2. cloud' \in [Ids -> Objects]
    BY <1>0, <1>4, <1>d DEF CloudDelete
  <2> QED BY <1>4, <2>1, <2>2 DEF CloudDelete, TypeInv, TypeOK, InFlightOK, config, history
<1>5. ASSUME NEW i \in Ids, NEW program \in Programs, ForeignCreate(i, program)
      PROVE  TypeInv'
  <2>1. program \in PropMaps
    BY <1>0, CheckedInputsType, EmptyType
  <2>2. CreateTarget(program) \in Scopes
    BY <1>0, <2>1, CreateTargetType
  <2>3. ToAPI(program, ScopeParams) \in PropMaps
    BY <2>1, ToAPIType DEF PropMaps
  <2>4. WithDefaults(ToAPI(program, ScopeParams)) \in PropMaps
    BY <1>0, <1>b, <2>3, WithDefaultsType
  <2>5. [state |-> "live", scope |-> CreateTarget(program),
         body |-> WithDefaults(ToAPI(program, ScopeParams))] \in Objects
    BY <2>2, <2>4 DEF Objects
  <2> QED BY <1>0, <1>5, <2>5 DEF ForeignCreate, TypeInv, TypeOK, InFlightOK, config
<1>6. ASSUME NEW i \in Ids, ForeignDelete(i)
      PROVE  TypeInv'
  <2>1. cloud' \in [Ids -> Objects]
    BY <1>0, <1>6, <1>d DEF ForeignDelete
  <2> QED BY <1>6, <2>1, ProviderAssumption
          DEF ForeignDelete, Mishap, TypeInv, TypeOK, InFlightOK, config
<1>7. ASSUME NEW i \in Ids, NEW n \in BodyNames,
             NEW v \in Values \cup {api.defaults[SDKToAPINameMap[n]]}, ForeignEdit(i, n, v)
      PROVE  TypeInv'
  <2>1. SDKToAPINameMap[n] \in Names
    BY NamesAssumption, ProviderAssumption
  <2>2. v \in Values \cup Ids \cup {Absent}
    BY <1>0, <2>1 DEF APIType
  <2>3. cloud' \in [Ids -> Objects]
    <3>1. cloud[i] \in Objects /\ cloud[i].body \in PropMaps
      BY <1>0 DEF Objects
    <3>2. [cloud[i].body EXCEPT ![SDKToAPINameMap[n]] = v] \in PropMaps
      BY <2>2, <3>1 DEF PropMaps
    <3>3. [cloud[i] EXCEPT !.body = [cloud[i].body EXCEPT ![SDKToAPINameMap[n]] = v]] \in Objects
      BY <3>1, <3>2 DEF Objects
    <3> QED BY <1>0, <1>7, <3>3 DEF ForeignEdit
  <2>4. rpc' \in RPCs /\ rpc'.phase = rpc.phase /\ rpc'.op = rpc.op /\ rpc'.reply = rpc.reply
    BY <1>0, <1>7 DEF ForeignEdit, RPCs
  <2>5. mishaps' \in 0 .. MaxMishaps
    BY <1>7, ProviderAssumption DEF ForeignEdit, Mishap, TypeInv, TypeOK
  <2>6. dirty' \in [Ids -> SUBSET BodyNames]
    BY <1>7 DEF ForeignEdit, TypeInv, TypeOK
  <2> QED BY <1>7, <2>3, <2>4, <2>5, <2>6 DEF ForeignEdit, TypeInv, TypeOK, InFlightOK, config
<1> QED BY <1>1, <1>2, <1>3, <1>4, <1>5, <1>6, <1>7 DEF Cloud

\* The second halves of the handlers.
LEMMA HandlersType == TypeInv /\ Handlers => TypeInv'
<1> SUFFICES ASSUME TypeInv, Handlers PROVE TypeInv'
  OBVIOUS
<1>0. /\ cur \in Resources \cup {NoResource} /\ old \in Resources \cup {NoResource}
      /\ rpc \in RPCs /\ rpc.since \in SUBSET BodyNames /\ rpc.news \in PropMaps
      /\ dirty \in [Ids -> SUBSET BodyNames] /\ untracked \in SUBSET Ids
  BY DEF TypeInv, TypeOK, RPCs
<1>i. Idle \in RPCs /\ Idle.phase = "idle" /\ Idle.op = "none"
  BY IdleType DEF Idle
<1>1. CASE FinishCreate
  <2>1. CreatedResource \in Resources
    BY <1>1, CreatedType DEF FinishCreate
  <2> QED BY <1>0, <1>1, <1>i, <2>1
          DEF FinishCreate, TypeInv, TypeOK, InFlightOK, config, history
<1>2. CASE FinishRead
  <2>1. cur \in Resources /\ cur.inputs \in PropMaps /\ cur.stash \in PropMaps
    BY <1>2 DEF FinishRead, TypeInv, InFlightOK, Resources
  <2>2. cur' \in Resources
    BY <1>2, <2>1, ReadType DEF FinishRead
  <2>3. dirty' \in [Ids -> SUBSET BodyNames]
    BY <1>0, <1>2 DEF FinishRead
  <2> QED BY <1>0, <1>2, <1>i, <2>2, <2>3
          DEF FinishRead, TypeInv, TypeOK, InFlightOK, config
<1>3. CASE FinishImport
  <2>1. cur' \in Resources
    BY <1>3, ReadType, EmptyType DEF FinishImport
  <2>2. Learnt(Empty) \subseteq BodyNames
    BY DEF Learnt
  <2>3. dirty' \in [Ids -> SUBSET BodyNames]
    BY <1>0, <1>3, <2>2 DEF FinishImport
  <2> QED BY <1>0, <1>3, <1>i, <2>1, <2>3
          DEF FinishImport, TypeInv, TypeOK, InFlightOK, config
<1>4. CASE FinishUpdate
  <2>1. cur \in Resources /\ rpc.reply \in PropMaps
    BY <1>4 DEF FinishUpdate, TypeInv, TypeOK, InFlightOK, RPCs
  <2>2. ToSDK(rpc.reply) \in PropMaps
    BY <2>1, ToSDKType
  <2> DEFINE outputs == IF api.noContent THEN Empty ELSE ToSDK(rpc.reply)
             stash   == IF api.noContent THEN Empty ELSE StashOf(rpc.news, Empty)
  <2>3. outputs \in PropMaps /\ stash \in PropMaps
    BY <1>0, <2>2, EmptyType DEF StashOf
  <2>4. cur' = [cur EXCEPT !.inputs = rpc.news, !.outputs = outputs, !.stash = stash]
    BY <1>4 DEF FinishUpdate
  <2> HIDE DEF outputs, stash
  <2>5. cur' \in Resources
    BY <1>0, <2>1, <2>3, <2>4 DEF Resources
  <2>6. dirty' \in [Ids -> SUBSET BodyNames]
    BY <1>0, <1>4 DEF FinishUpdate
  <2> QED BY <1>0, <1>4, <1>i, <2>5, <2>6
          DEF FinishUpdate, TypeInv, TypeOK, InFlightOK, config
<1>5. CASE FinishDelete
  <2>1. cur' \in Resources \cup {NoResource} /\ old' \in Resources \cup {NoResource}
    BY <1>0, <1>5 DEF FinishDelete, Forget
  <2> QED BY <1>0, <1>5, <1>i, <2>1
          DEF FinishDelete, TypeInv, TypeOK, InFlightOK, config, history
<1>6. CASE RequestFails
  BY <1>0, <1>6, <1>i DEF RequestFails, TypeInv, TypeOK, InFlightOK, config, history
<1>7. CASE AnswerLost
  <2>1. Written \subseteq BodyNames
    BY DEF Written
  <2>2. dirty' \in [Ids -> SUBSET BodyNames]
    BY <1>0, <1>7, <2>1 DEF AnswerLost
  <2>3. untracked' \in SUBSET Ids
    BY <1>0, <1>7 DEF AnswerLost, TypeInv, InFlightOK
  <2>4. mishaps' \in 0 .. MaxMishaps
    BY <1>7, ProviderAssumption DEF AnswerLost, Mishap, TypeInv, TypeOK
  <2> QED BY <1>0, <1>7, <1>i, <2>2, <2>3, <2>4
          DEF AnswerLost, TypeInv, TypeOK, InFlightOK, config
<1> QED BY <1>1, <1>2, <1>3, <1>4, <1>5, <1>6, <1>7 DEF Handlers

LEMMA StepType == TypeInv /\ [Next]_vars => TypeInv'
<1> SUFFICES ASSUME TypeInv, [Next]_vars PROVE TypeInv'
  OBVIOUS
<1>1. CASE Engine
  BY <1>1, EngineType
<1>2. CASE Cloud
  BY <1>2, CloudType
<1>3. CASE Handlers
  BY <1>3, HandlersType
<1>4. CASE UNCHANGED vars
  BY <1>4 DEF vars, TypeInv, TypeOK, InFlightOK
<1> QED BY <1>1, <1>2, <1>3, <1>4 DEF Next

LEMMA TypeInvariant == Spec => []TypeInv
BY InitType, StepType, PTL DEF Spec

\* Whatever the API, the engine, the programs and the failures, the
\* checkpoint, the call in flight and the cloud's objects stay well typed:
\* ids are ids, and no null and no foreign value gets into the checkpoint.
THEOREM TypeCorrect == Spec => []TypeOK
<1>1. TypeInv => TypeOK
  BY DEF TypeInv
<1> QED BY <1>1, TypeInvariant, PTL

=============================================================================
