-------------------------- MODULE ProviderOwnProofs --------------------------
(***************************************************************************)
(* Every request names the resource's own object: TargetsOwn and           *)
(* Addressable, for every API, program and history of failures within the  *)
(* circumstances of ProviderInv.                                           *)
(***************************************************************************)
EXTENDS ProviderProofs

N(p) == PathParamNameMap[p]

LEMMA ScopeNamesAre ==
    /\ \A p \in ScopeParams : N(p) \in ScopeNames /\ N(p) \in Names /\ N(p) \in Names \ {Id, ItemName}
    /\ \A n \in ScopeNames : \E p \in ScopeParams : n = N(p)
    /\ ItemName \in Names
    /\ \A p \in ScopeParams : p # ItemParam
BY ParamsAssumption DEF ScopeNames, ItemName, N

\* ToSDK leaves the names of the path parameters and the id alone.
LEMMA ToSDKKeepsPath ==
    ASSUME PlainPathNames, NEW m, NEW n \in ScopeNames \cup {Id, ItemName}
    PROVE  ToSDK(m)[n] = m[n]
<1>1. n \in Names
  BY ScopeNamesAre, NamesAssumption
<1> QED BY <1>1, NamesAssumption, TransformBodyKeeps DEF PlainPathNames, ToSDK

-----------------------------------------------------------------------------
(* What the engine's programs and Diff guarantee. *)

\* Check leaves the path parameters of a complete program as they are.
LEMMA CheckedPath ==
    ASSUME CompletePrograms, WellShaped(api), api \in APIType,
           NEW program \in Programs, NEW olds, NEW news \in CheckedInputs(program, olds)
    PROVE  /\ news[Id] = Absent /\ news[ItemName] = Absent
           /\ \A n \in ScopeNames : news[n] = program[n] /\ news[n] # Absent
<1>1. /\ program \in [Names -> Values \cup {Absent}]
      /\ Keys(program) \subseteq BodyNames \cup ScopeNames
      /\ ScopeNames \subseteq Keys(program)
      /\ BodyNames \subseteq Names \ (ScopeNames \cup {Id, ItemName})
  BY ProviderAssumption DEF CompletePrograms, ItemName
<1>2. ScopeNames \subseteq Names /\ ItemName \in Names /\ Id \in Names
      /\ Id \notin ScopeNames /\ ItemName \notin ScopeNames
  BY ScopeNamesAre, NamesAssumption
<1>3. program[Id] = Absent /\ program[ItemName] = Absent
      /\ \A n \in ScopeNames : program[n] # Absent
  BY <1>1, <1>2 DEF Keys
<1>4. CASE news = program
  BY <1>3, <1>4
<1>5. ASSUME api.autoName # Absent, NEW name, news = [program EXCEPT ![api.autoName] = name]
      PROVE  \A n \in ScopeNames \cup {Id, ItemName} : news[n] = program[n]
  BY <1>1, <1>2, <1>5 DEF WellShaped
<1> QED BY <1>3, <1>4, <1>5 DEF CheckedInputs

LEMMA CreateTargetIsNews ==
    ASSUME NEW news, \A n \in ScopeNames : news[n] # Absent
    PROVE  \A p \in ScopeParams : CreateTarget(news)[p] = news[N(p)]
BY ScopeNamesAre DEF CreateTarget, PathParamsMap, PathParam, LookupName, Else, N

\* To an engine that does not send the old inputs, nothing looks unchanged.
LEMMA OldEnginesChange ==
    ASSUME NotOnlyPaths, Started, ~engineSendsOldInputs,
           NEW program \in Programs, NEW olds, NEW news \in CheckedInputs(program, olds), NEW r
    PROVE  Diff(r, news) \subseteq {"error"} \cup AnswersAbout(Empty, news)
<1>1. PICK k \in BodyNames : k \in Keys(program)
  BY DEF NotOnlyPaths, ModernEngines, Started
<1>2. k \in Names /\ k \notin {PathParamNameMap[p] : p \in ItemParams} /\ program[k] # Absent
      /\ program \in [Names -> Values \cup {Absent}] /\ Empty[k] = Absent
  BY <1>1, ProviderAssumption DEF Keys, ItemParams, ScopeNames, Empty
<1>3. news[k] # Absent
  <2>1. ASSUME api.autoName # Absent, program[api.autoName] = Absent, NEW name,
               news = [program EXCEPT ![api.autoName] = name]
        PROVE  news[k] = program[k]
    BY <1>2, <2>1
  <2> QED BY <1>2, <2>1 DEF CheckedInputs
<1>4. k \in Adds(Empty, news)
  BY <1>2, <1>3 DEF Adds, Keys
<1>5. DOMAIN DiffTarget(r, news) \subseteq ItemParams
  BY DEF DiffTarget, PathParamsMap, ItemParams
<1>6. ~AdditionsArePathParams(r, Empty, news)
  BY <1>2, <1>4, <1>5 DEF AdditionsArePathParams
<1>7. k \in ChangedKeys(Empty, news)
  BY <1>4 DEF ChangedKeys
<1> QED BY <1>6, <1>7 DEF Diff, SentOldInputs

\* An engine that does not send the old inputs is asked to replace a resource
\* that has a scope, since all of the new inputs, the scope's too, are additions.
LEMMA OldEnginesReplace ==
    ASSUME PlainPathNames, WellShaped(api), ReplacesAtLeast(api), NotOnlyPaths,
           Started, ~engineSendsOldInputs,
           NEW program \in Programs, NEW olds, NEW news \in CheckedInputs(program, olds),
           NEW r, NEW n \in ScopeNames, news[n] # Absent
    PROVE  Diff(r, news) \subseteq {"error", "replace"}
<1>1. /\ n \in Names /\ SDKToAPINameMap[n] = n /\ n \notin api.updateSchema
      /\ \A k \in Names : Empty[k] = Absent
  BY ScopeNamesAre DEF PlainPathNames, WellShaped, Empty
<1>2. n \in ChangedKeys(Empty, news)
  BY <1>1 DEF ChangedKeys, Adds, Keys
<1>3. n \in Replaces(Empty, news)
  BY <1>1, <1>2 DEF Replaces, WellShaped
<1>4. AnswersAbout(Empty, news) \subseteq {"replace"}
  BY <1>3 DEF AnswersAbout, ReplacesAtLeast
<1> QED BY <1>4, OldEnginesChange

\* Unless Diff asks for a replacement, the scope in the new inputs is the one
\* in the old: a scope parameter is not a property of the update's schema.
LEMMA DiffKeepsScope ==
    ASSUME PlainPathNames, WellShaped(api), ReplacesAtLeast(api), NotOnlyPaths, Started,
           NEW program \in Programs, NEW olds, NEW news \in CheckedInputs(program, olds),
           NEW r, Diff(r, news) \cap {"none", "update"} # {},
           NEW n \in ScopeNames, r.inputs[n] # Absent, news[n] # Absent
    PROVE  news[n] = r.inputs[n]
<1>0. engineSendsOldInputs
  BY OldEnginesReplace
<1> SUFFICES ASSUME news[n] # r.inputs[n] PROVE FALSE
  OBVIOUS
<1>1. n \in Names /\ SDKToAPINameMap[n] = n /\ n \notin api.updateSchema
  BY ScopeNamesAre DEF PlainPathNames, WellShaped
<1>2. SentOldInputs(r) = r.inputs
  BY <1>0 DEF SentOldInputs
<1>3. n \in Updates(r.inputs, news) /\ n \in ChangedKeys(r.inputs, news)
  BY <1>1 DEF Updates, ChangedKeys, Keys
<1>4. ~OnlyAdditions(r.inputs, news)
  BY <1>3 DEF OnlyAdditions
<1>5. n \in Replaces(r.inputs, news)
  BY <1>1, <1>3 DEF Replaces, WellShaped
<1>6. AnswersAbout(r.inputs, news) \subseteq {"replace"}
  BY <1>5 DEF AnswersAbout, ReplacesAtLeast
<1>7. Diff(r, news) = AnswersAbout(r.inputs, news)
  BY <1>2, <1>3, <1>4 DEF Diff, AdditionsArePathParams
<1> QED BY <1>6, <1>7

-----------------------------------------------------------------------------
(* A resource that is tracked is addressed under its own path. *)

LEMMA ItemTargetIsOwn ==
    ASSUME WellShaped(api), NEW r, Tracks(r), r.id # Absent,
           \A p \in ScopeParams : cloud[r.id].scope[p] # Absent,
           NEW props, NEW nested, NEW oldInputs,
           props[Id] = r.id, props[ItemName] \in {Absent, r.id},
           nested[ItemName] \in {Absent, r.id},
           oldInputs[ItemName] \in {Absent, r.id},
           \A p \in ScopeParams :
              \/ props[N(p)] = cloud[r.id].scope[p]
              \/ props[N(p)] = Absent /\ {nested[N(p)], oldInputs[N(p)]} \subseteq {Absent, cloud[r.id].scope[p]},
           NEW target, target = PathParamsMap(ItemParams, props, nested, api.global, oldInputs)
    PROVE  /\ AllFound(target) => target = OwnTarget(r)
           /\ (\A p \in ScopeParams : props[N(p)] # Absent \/ oldInputs[N(p)] # Absent)
                 => target = OwnTarget(r)
<1>1. target = [p \in ItemParams |-> PathParam(p, props, nested, api.global, oldInputs)]
  BY DEF PathParamsMap
<1>2. target[ItemParam] = r.id
  <2> DEFINE n == LookupName(ItemParam, props, oldInputs)
  <2>1. n = Id \/ (n = ItemName /\ (props[ItemName] # Absent \/ oldInputs[ItemName] # Absent))
    BY DEF LookupName, ItemName
  <2>2. api.global[ItemName] = Absent
    BY ScopeNamesAre DEF WellShaped
  <2>3. target[ItemParam] = Else(props[n], Else(nested[n], Else(api.global[n], oldInputs[n])))
    BY <1>1, ParamNames DEF PathParam
  <2> HIDE DEF n
  <2> QED BY <2>1, <2>2, <2>3 DEF Else
<1>3. ASSUME NEW p \in ScopeParams
      PROVE  target[p] = Else(props[N(p)], Else(nested[N(p)], oldInputs[N(p)]))
  <2>1. LookupName(p, props, oldInputs) = N(p)
    BY ScopeNamesAre DEF LookupName, N
  <2>2. api.global[N(p)] = Absent
    BY ScopeNamesAre DEF WellShaped
  <2> QED BY <1>1, <2>1, <2>2, ParamNames DEF PathParam, Else
<1>4. ASSUME NEW p \in ScopeParams
      PROVE  target[p] \in {Absent, cloud[r.id].scope[p]}
  BY <1>3 DEF Else
<1>5. ASSUME \A p \in ScopeParams : target[p] # Absent
      PROVE  target = OwnTarget(r)
  BY <1>1, <1>2, <1>4, <1>5 DEF OwnTarget, ItemParams
<1>6. AllFound(target) => \A p \in ScopeParams : target[p] # Absent
  BY <1>1, ParamNames DEF AllFound
<1>7. (\A p \in ScopeParams : props[N(p)] # Absent \/ oldInputs[N(p)] # Absent)
         => \A p \in ScopeParams : target[p] # Absent
  BY <1>3 DEF Else
<1> QED BY <1>5, <1>6, <1>7

\* The three requests for an item.
LEMMA RequestsAreOwn ==
    ASSUME WellShaped(api), NEW r \in Resources, Tracks(r), ScopesFull
    PROVE  /\ AllFound(UpdateTarget(r)) => UpdateTarget(r) = OwnTarget(r)
           /\ AllFound(DeleteTarget(r)) => DeleteTarget(r) = OwnTarget(r)
           /\ AllFound(ReadTarget(r))   => ReadTarget(r) = OwnTarget(r)
           /\ CurrentState(r) = r.outputs
           /\ (IF engineSendsOldInputs THEN engineSendsOldInputsOnDelete
                                       ELSE Keys(r.stash) # {} \/ OldEngines)
                 => DeleteTarget(r) = OwnTarget(r)
<1>1. r.id \in Ids /\ r.id # Absent
  BY ProviderAssumption DEF Resources
<1>2. \A p \in ScopeParams : cloud[r.id].scope[p] # Absent
  BY <1>1 DEF ScopesFull, Tracks, TracksIn
<1>e. Empty[ItemName] = Absent /\ \A p \in ScopeParams : Empty[N(p)] = Absent
  BY ScopeNamesAre DEF Empty
<1>s. \A p \in ScopeParams : Keys(r.stash) = {} => r.stash[N(p)] = Absent
  BY ScopeNamesAre DEF Keys
<1>3. /\ r.outputs[Id] = r.id
      /\ r.outputs[ItemName] \in {Absent, r.id} /\ r.inputs[ItemName] \in {Absent, r.id}
      /\ r.stash[ItemName] \in {Absent, r.id}
      /\ \A p \in ScopeParams :
            \/ r.outputs[N(p)] = cloud[r.id].scope[p]
            \/ /\ r.outputs[N(p)] = Absent /\ r.inputs[N(p)] = cloud[r.id].scope[p]
               /\ r.stash[N(p)] \in {Absent, cloud[r.id].scope[p]}
               /\ Keys(r.stash) # {} \/ OldEngines => r.stash[N(p)] = cloud[r.id].scope[p]
  BY <1>s DEF Tracks, TracksIn, N
<1>5. CurrentState(r) = r.outputs
  BY <1>1, <1>3, NamesAssumption DEF CurrentState, Keys
<1> DEFINE with(o) == PathParamsMap(ItemParams, r.outputs, r.stash, api.global, o)
<1>6. with(r.inputs) = OwnTarget(r)
  BY <1>1, <1>2, <1>3, ItemTargetIsOwn
<1>7. /\ AllFound(with(r.stash)) => with(r.stash) = OwnTarget(r)
      /\ Keys(r.stash) # {} \/ OldEngines => with(r.stash) = OwnTarget(r)
  BY <1>1, <1>2, <1>3, ItemTargetIsOwn
<1>8. AllFound(with(Empty)) => with(Empty) = OwnTarget(r)
  BY <1>1, <1>2, <1>3, <1>e, ItemTargetIsOwn
<1>9. UpdateTarget(r) = IF engineSendsOldInputs THEN with(r.inputs) ELSE with(r.stash)
  BY DEF UpdateTarget
<1>10. DeleteTarget(r) = IF ~engineSendsOldInputs THEN with(r.stash)
                         ELSE IF engineSendsOldInputsOnDelete THEN with(r.inputs)
                         ELSE with(Empty)
  BY DEF DeleteTarget
<1>11. AllFound(ReadTarget(r)) => ReadTarget(r) = OwnTarget(r)
  <2> DEFINE merged == Overwrite(r.inputs, r.outputs)
  <2>1. \A n \in Names : merged[n] = IF r.outputs[n] # Absent THEN r.outputs[n] ELSE r.inputs[n]
    BY DEF Overwrite
  <2>2. merged[Id] = r.id /\ merged[ItemName] \in {Absent, r.id}
    BY <1>1, <1>3, <2>1, NamesAssumption, ScopeNamesAre
  <2>3. \A p \in ScopeParams : merged[N(p)] = cloud[r.id].scope[p]
    BY <1>2, <1>3, <2>1, ScopeNamesAre
  <2>4. ReadTarget(r) = PathParamsMap(ItemParams, merged, Empty, api.global, r.stash)
    BY <1>5 DEF ReadTarget
  <2> HIDE DEF merged
  <2> QED BY <1>1, <1>2, <1>3, <1>e, <2>2, <2>3, <2>4, ItemTargetIsOwn
<1> HIDE DEF with
<1> QED BY <1>5, <1>6, <1>7, <1>8, <1>9, <1>10, <1>11

\* The item parameter of an import is the "id-like" entry of its state.
LEMMA ImportState ==
    ASSUME NEW scope, NEW i, NEW target, i # Absent,
           target = PathParamsMap(ItemParams, ImportedPathParams(scope, i), Empty, api.global, Empty)
    PROVE  /\ ImportedPathParams(scope, i)[ItemName] \in {Absent, i}
           /\ target[ItemParam] = i
<1>1. ImportedPathParams(scope, i)[ItemName] \in {Absent, i} /\ ImportedPathParams(scope, i)[Id] = i
  BY ScopeNamesAre, NamesAssumption, ParamsAssumption DEF ImportedPathParams, ScopeNames, ItemName
<1>2. Empty[ItemName] = Absent
  BY ScopeNamesAre DEF Empty
<1> QED BY <1>1, <1>2, ParamNames DEF PathParamsMap, PathParam, LookupName, Else, ItemName

-----------------------------------------------------------------------------
(* What answers say and what the handlers make of them. *)

LEMMA ReplyTellsThePath ==
    ASSUME PlainPathNames, WellShaped(api), NEW i, NEW o, NEW fresh \in BOOLEAN
    PROVE  /\ Reply(i, o, fresh)[Id] = i
           /\ Reply(i, o, fresh)[ItemName] \in {Absent, i}
           /\ \A p \in ScopeParams :
                 Reply(i, o, fresh)[N(p)] = IF api.echoScope THEN o.scope[p] ELSE Absent
<1>1. \A q \in ScopeParams : SDKToAPINameMap[PathParamNameMap[q]] = N(q)
  BY ScopeNamesAre DEF PlainPathNames, N
<1>2. Reply(i, o, fresh)[Id] = i
  BY NamesAssumption DEF Reply
<1>3. Reply(i, o, fresh)[ItemName] \in {Absent, i}
  <2>1. ~\E q \in ScopeParams : SDKToAPINameMap[PathParamNameMap[q]] = ItemName
    BY <1>1, ScopeNamesAre
  <2> QED BY <2>1, ScopeNamesAre DEF Reply, WellShaped
<1>4. ASSUME NEW p \in ScopeParams
      PROVE  Reply(i, o, fresh)[N(p)] = IF api.echoScope THEN o.scope[p] ELSE Absent
  <2> DEFINE q == CHOOSE q \in ScopeParams : SDKToAPINameMap[PathParamNameMap[q]] = N(p)
  <2>1. \E x \in ScopeParams : SDKToAPINameMap[PathParamNameMap[x]] = N(p)
    BY <1>1
  <2>2. q \in ScopeParams /\ SDKToAPINameMap[PathParamNameMap[q]] = N(p)
    BY <2>1
  <2>3. q = p
    BY <1>1, <2>2, ParamsAssumption DEF N
  <2>4. /\ N(p) \in Names /\ N(p) # Id
        /\ N(p) \notin api.readOnly \cup api.createOnly \cup api.echo
    BY ScopeNamesAre DEF WellShaped
  <2>5. Reply(i, o, fresh)[N(p)] = IF api.echoScope THEN o.scope[q] ELSE Absent
    BY <2>1, <2>4 DEF Reply
  <2> QED BY <2>3, <2>5
<1> QED BY <1>2, <1>3, <1>4

\* Objects are never unmade nor moved.
Kept(objs, objs2) ==
    \A i \in Ids : objs[i].state # "none" =>
        objs2[i].state # "none" /\ objs2[i].scope = objs[i].scope

LEMMA NextKeepsObjects ==
    ASSUME TypeInv, [Next]_vars
    PROVE  Kept(cloud, cloud') /\ api' = api
<1>0. cloud \in [Ids -> Objects] /\ \A i \in Ids : cloud[i] \in Objects
  BY DEF TypeInv, TypeOK
<1>1. CASE Engine
  BY <1>1 DEF Engine, DeployCreate, DeploySame, DeployUpdate, DeployReplace, StartRead,
     StartImport, StartDelete, DropUndeletable, Configure, Kept, config
<1>2. CASE Cloud
  <2>1. ASSUME NEW i \in Ids, NEW o, cloud' = [cloud EXCEPT ![i] = o],
               cloud[i].state = "none" \/ (o.state # "none" /\ o.scope = cloud[i].scope)
        PROVE  Kept(cloud, cloud')
    BY <1>0, <2>1 DEF Kept
  <2>2. ASSUME NEW i \in Ids, CloudCreate(i) PROVE Kept(cloud, cloud') /\ api' = api
    BY <2>1, <2>2 DEF CloudCreate, config
  <2>3. ASSUME NEW i \in Ids, CloudUpdate(i) PROVE Kept(cloud, cloud') /\ api' = api
    <3> DEFINE body == IF api.update = "PATCH" THEN MergePatch(cloud[i].body, rpc.body)
                       ELSE WithDefaults(rpc.body)
               o == [cloud[i] EXCEPT !.body = body]
    <3>1. cloud' = [cloud EXCEPT ![i] = o] /\ Found(i) /\ api' = api
      BY <2>3 DEF CloudUpdate, config
    <3> HIDE DEF body
    <3>2. o.state = cloud[i].state /\ o.scope = cloud[i].scope
      BY <1>0 DEF Objects
    <3> HIDE DEF o
    <3> QED BY <2>1, <3>1, <3>2 DEF Found
  <2>4. ASSUME NEW i \in Ids, CloudRead(i) PROVE Kept(cloud, cloud') /\ api' = api
    BY <2>4 DEF CloudRead, Kept, config
  <2>5. ASSUME NEW i \in Ids, CloudDelete(i) PROVE Kept(cloud, cloud') /\ api' = api
    BY <2>1, <2>5 DEF CloudDelete, Remains, config
  <2>6. ASSUME NEW i \in Ids, NEW program \in Programs, ForeignCreate(i, program)
        PROVE  Kept(cloud, cloud') /\ api' = api
    BY <2>1, <2>6 DEF ForeignCreate, config
  <2>7. ASSUME NEW i \in Ids, ForeignDelete(i) PROVE Kept(cloud, cloud') /\ api' = api
    BY <2>1, <2>7 DEF ForeignDelete, Remains, config
  <2>8. ASSUME NEW i \in Ids, NEW n \in BodyNames, NEW v, ForeignEdit(i, n, v)
        PROVE  Kept(cloud, cloud') /\ api' = api
    <3> DEFINE o == [cloud[i] EXCEPT !.body = [cloud[i].body EXCEPT ![SDKToAPINameMap[n]] = v]]
    <3>1. cloud' = [cloud EXCEPT ![i] = o] /\ cloud[i].state = "live" /\ api' = api
      BY <2>8 DEF ForeignEdit, config
    <3>2. o.state = cloud[i].state /\ o.scope = cloud[i].scope
      BY <1>0 DEF Objects
    <3> HIDE DEF o
    <3> QED BY <2>1, <3>1, <3>2
  <2> QED BY <1>2, <2>2, <2>3, <2>4, <2>5, <2>6, <2>7, <2>8 DEF Cloud
<1>3. CASE Handlers
  BY <1>3 DEF Handlers, FinishCreate, FinishRead, FinishImport, FinishUpdate, FinishDelete,
     RequestFails, AnswerLost, Kept, config
<1>4. CASE UNCHANGED vars
  BY <1>4 DEF vars, Kept
<1> QED BY <1>1, <1>2, <1>3, <1>4 DEF Next

\* What is tracked stays tracked, and a true answer stays true.
LEMMA TracksStays ==
    ASSUME NEW r, r.id \in Ids, NEW objs, NEW objs2, NEW echo,
           Kept(objs, objs2), TracksIn(r, objs, echo)
    PROVE  TracksIn(r, objs2, echo)
BY DEF TracksIn, Kept

LEMMA AboutStays ==
    ASSUME NEW reply, NEW i \in Ids, NEW objs, NEW objs2, NEW echo,
           Kept(objs, objs2), AboutIn(reply, i, objs, echo)
    PROVE  AboutIn(reply, i, objs2, echo)
BY DEF AboutIn, Kept

-----------------------------------------------------------------------------
(* The resources that Create, Read and Update return are tracked. *)

LEMMA EmptyHolds == Keys(Empty) = {} /\ Empty[ItemName] = Absent
BY ScopeNamesAre DEF Keys, Empty

LEMMA CreatedTracks ==
    ASSUME Circumstances, TypeInv, OwnInv, rpc.phase = "answered",
           rpc.op \in {"create", "replace"}
    PROVE  TracksIn(CreatedResource, cloud, api.echoScope)
<1>1. PlainPathNames /\ (engineSendsOldInputs => ~OldEngines)
  BY DEF Circumstances, OwnInv, Started, OldEngines
<1>2. /\ ReplyAbout(rpc.reply[Id])
      /\ \A p \in ScopeParams : cloud[rpc.reply[Id]].scope[p] = rpc.news[PathParamNameMap[p]]
      /\ rpc.news[Id] = Absent /\ rpc.news[ItemName] = Absent
  BY DEF OwnInv, CreateInFlight
<1>3. \A n \in ScopeNames \cup {Id, ItemName} : ToSDK(rpc.reply)[n] = rpc.reply[n]
  BY <1>1, ToSDKKeepsPath
<1>4. /\ CreatedResource.id = rpc.reply[Id]
      /\ CreatedResource.inputs = rpc.news
      /\ CreatedResource.outputs = ToSDK(rpc.reply)
      /\ CreatedResource.stash = IF engineSendsOldInputs THEN Empty ELSE rpc.news
  BY <1>1, <1>3 DEF CreatedResource, StashOf
<1>5. \A p \in ScopeParams : ToSDK(rpc.reply)[PathParamNameMap[p]] = rpc.reply[PathParamNameMap[p]]
  BY <1>3, ScopeNamesAre DEF N
<1> QED BY <1>1, <1>2, <1>3, <1>4, <1>5, EmptyHolds DEF TracksIn, ReplyAbout, AboutIn

LEMMA UpdatedTracks ==
    ASSUME Circumstances, TypeInv, OwnInv, FinishUpdate
    PROVE  cur' \in Resources /\ cur'.id = cur.id /\ TracksIn(cur', cloud, api.echoScope)
<1>1. PlainPathNames /\ ~api.noContent /\ (engineSendsOldInputs => ~OldEngines)
  BY DEF Circumstances, OwnInv, Started, OldEngines, TypeInv, TypeOK, WellShaped
<1>2. /\ cur \in Resources /\ cur # NoResource
      /\ rpc.op = "update" /\ rpc.phase = "answered" /\ rpc.reply \in PropMaps
      /\ rpc.news \in PropMaps
  BY ProviderAssumption DEF FinishUpdate, TypeInv, TypeOK, InFlightOK, Resources, RPCs
<1>3. /\ ReplyAbout(cur.id) /\ Tracks(cur)
      /\ rpc.news[Id] = Absent /\ rpc.news[ItemName] = Absent
      /\ ~api.echoScope => \A p \in ScopeParams :
            rpc.news[PathParamNameMap[p]] = cur.inputs[PathParamNameMap[p]]
  BY <1>2 DEF OwnInv, UpdateInFlight
<1>4. \A n \in ScopeNames \cup {Id, ItemName} : ToSDK(rpc.reply)[n] = rpc.reply[n]
  BY <1>1, ToSDKKeepsPath
<1>5. \A p \in ScopeParams : ToSDK(rpc.reply)[PathParamNameMap[p]] = rpc.reply[PathParamNameMap[p]]
  BY <1>4, ScopeNamesAre DEF N
<1>6. cur' = [cur EXCEPT !.inputs = rpc.news, !.outputs = ToSDK(rpc.reply),
                        !.stash = StashOf(rpc.news, Empty)]
  BY <1>1 DEF FinishUpdate
<1>7. ToSDK(rpc.reply) \in PropMaps
  BY <1>2, ToSDKType
<1>8. /\ cur'.id = cur.id /\ cur'.inputs = rpc.news /\ cur'.outputs = ToSDK(rpc.reply)
      /\ cur'.stash = (IF engineSendsOldInputs THEN Empty ELSE rpc.news) /\ cur' \in Resources
  BY <1>2, <1>6, <1>7, EmptyType DEF Resources, StashOf
<1> QED BY <1>1, <1>3, <1>4, <1>5, <1>8, EmptyHolds DEF Tracks, TracksIn, ReplyAbout, AboutIn

\* A Read of object i, from a state that does not contradict it.
LEMMA ReadTracks ==
    ASSUME Circumstances, TypeInv, OwnInv, rpc.phase = "answered",
           NEW i \in Ids, ReplyAbout(i), NEW inputs \in PropMaps,
           rpc.state[ItemName] \in {Absent, i},
           inputs[Id] = Absent, inputs[ItemName] \in {Absent, i},
           ~api.echoScope => \A p \in ScopeParams :
                /\ rpc.state[N(p)] = Absent
                /\ inputs[N(p)] # Absent
                /\ inputs[N(p)] = cloud[i].scope[p],
           NEW stash, stash[ItemName] \in {Absent, i},
           ~api.echoScope /\ (Keys(stash) # {} \/ OldEngines) =>
                \A p \in ScopeParams : stash[N(p)] = cloud[i].scope[p]
    PROVE  TracksIn(ReadResource(inputs, stash), cloud, api.echoScope)
<1>1. PlainPathNames
  BY DEF Circumstances
<1> DEFINE merged   == ApplyDiffFromCloudProvider(rpc.reply, rpc.state)
           filtered == FilterReadOnlyProperties(rpc.reply, api.createSchema)
           res      == ReadResource(inputs, stash)
<1>2. \A n \in Names : merged[n] = IF rpc.reply[n] # Absent THEN rpc.reply[n] ELSE rpc.state[n]
  BY ApplyDiffIsOverwrite
<1>3. \A n \in ScopeNames \cup {Id, ItemName} : /\ ToSDK(merged)[n] = merged[n]
                                               /\ ToSDK(filtered)[n] = filtered[n]
  BY <1>1, ToSDKKeepsPath
<1>4. /\ filtered[Id] = Absent
      /\ filtered[ItemName] \in {Absent, rpc.reply[ItemName]}
      /\ \A p \in ScopeParams : filtered[N(p)] \in {Absent, rpc.reply[N(p)]}
  BY ScopeNamesAre, NamesAssumption DEF FilterReadOnlyProperties
<1>5. /\ res.id = ToSDK(merged)[Id] /\ res.outputs = ToSDK(merged)
      /\ res.inputs = ReadInputs(inputs) /\ res.stash \in {stash, res.inputs}
  BY <1>1 DEF ReadResource, StashOf
<1> HIDE DEF merged
<1>6. /\ rpc.reply[Id] = i /\ i # Absent /\ cloud[i].state # "none"
      /\ rpc.reply[ItemName] \in {Absent, i}
      /\ \A p \in ScopeParams : rpc.reply[N(p)] = IF api.echoScope THEN cloud[i].scope[p] ELSE Absent
      /\ \A p \in ScopeParams : cloud[i].scope[p] # Absent
  BY ProviderAssumption DEF ReplyAbout, AboutIn, OwnInv, ScopesFull, N
<1>7. res.id = i /\ res.outputs[Id] = i /\ res.outputs[ItemName] \in {Absent, i}
  BY <1>2, <1>3, <1>5, <1>6, NamesAssumption, ScopeNamesAre
<1>8. \A p \in ScopeParams :
          res.outputs[N(p)] = IF api.echoScope THEN cloud[i].scope[p] ELSE Absent
  BY <1>2, <1>3, <1>5, <1>6, ScopeNamesAre
<1>12. ReadInputs(inputs) =
         IF Keys(inputs) = {} THEN ToSDK(filtered)
         ELSE [n \in Names |-> IF inputs[n] # Absent /\ ToSDK(filtered)[n] # Absent
                               THEN ToSDK(filtered)[n] ELSE inputs[n]]
  BY DEF ReadInputs
<1> HIDE DEF filtered, res
<1>9. ASSUME NEW n \in ScopeNames \cup {Id, ItemName}
      PROVE  res.inputs[n] = IF Keys(inputs) = {} THEN filtered[n]
                             ELSE IF inputs[n] # Absent /\ filtered[n] # Absent THEN filtered[n]
                             ELSE inputs[n]
  <2>1. n \in Names
    BY ScopeNamesAre, NamesAssumption
  <2>2. ToSDK(filtered)[n] = filtered[n]
    BY <1>3
  <2> DEFINE sdk == ToSDK(filtered)
  <2> HIDE DEF sdk
  <2>3. ReadInputs(inputs) = IF Keys(inputs) = {} THEN sdk
         ELSE [k \in Names |-> IF inputs[k] # Absent /\ sdk[k] # Absent
                               THEN sdk[k] ELSE inputs[k]]
    BY <1>12 DEF sdk
  <2>4. sdk[n] = filtered[n]
    BY <2>2 DEF sdk
  <2> QED BY <1>5, <2>1, <2>3, <2>4
<1>10. res.inputs[Id] = Absent /\ res.inputs[ItemName] \in {Absent, i}
  BY <1>4, <1>6, <1>9
<1>11. ASSUME ~api.echoScope, NEW p \in ScopeParams
       PROVE  res.inputs[N(p)] = cloud[i].scope[p]
  <2>1. filtered[N(p)] = Absent
    BY <1>4, <1>6, <1>11
  <2>2. Keys(inputs) # {}
    BY <1>11, ScopeNamesAre DEF Keys
  <2> QED BY <1>9, <1>11, <2>1, <2>2, ScopeNamesAre
<1> QED BY <1>5, <1>6, <1>7, <1>8, <1>10, <1>11 DEF TracksIn, N, res

-----------------------------------------------------------------------------
(* OwnInv is inductive. *)

InFlight ==
    CreateInFlight /\ ReadInFlight /\ ImportInFlight /\ UpdateInFlight /\ ItemInFlight

LEMMA OwnInit == Circumstances /\ Init => OwnInv
<1> SUFFICES ASSUME Circumstances, Init PROVE OwnInv
  OBVIOUS
<1>1. Started /\ cur = NoResource /\ old = NoResource /\ rpc.op = "none"
  BY DEF Init, Idle, Started
<1>2. \A i \in Ids : cloud[i].state = "none"
  BY DEF Init, NoObject
<1> QED BY <1>1, <1>2 DEF OwnInv, ScopesFull, CreateInFlight, ReadInFlight, ImportInFlight,
        UpdateInFlight, ItemInFlight

\* Only Configure changes the engine.
LEMMA EngineStays ==
    ASSUME Started, [Next]_vars
    PROVE  Started'
<1>s. ASSUME engineSendsOldInputs' = engineSendsOldInputs,
             engineSendsOldInputsOnDelete' = engineSendsOldInputsOnDelete
      PROVE  Started'
  BY <1>s DEF Started
<1>1. CASE Engine
  <2>1. ASSUME NEW engine \in Engines, Configure(engine) PROVE Started'
    BY <2>1 DEF Configure, Started
  <2> QED BY <1>s, <1>1, <2>1 DEF Engine, DeployCreate, DeploySame, DeployUpdate, DeployReplace,
     StartRead, StartImport, StartDelete, DropUndeletable, config
<1>2. CASE Cloud
  BY <1>s, <1>2 DEF Cloud, CloudCreate, CloudUpdate, CloudRead, CloudDelete,
     ForeignCreate, ForeignDelete, ForeignEdit, config
<1>3. CASE Handlers
  BY <1>s, <1>3 DEF Handlers, FinishCreate, FinishRead, FinishImport, FinishUpdate, FinishDelete,
     RequestFails, AnswerLost, config
<1>4. CASE UNCHANGED vars
  BY <1>s, <1>4 DEF vars
<1> QED BY <1>1, <1>2, <1>3, <1>4 DEF Next

LEMMA CheckpointStays ==
    ASSUME TypeInv, OwnInv, [Next]_vars
    PROVE  /\ cur # NoResource => TracksIn(cur, cloud', api'.echoScope)
           /\ old # NoResource => TracksIn(old, cloud', api'.echoScope)
<1>1. Kept(cloud, cloud') /\ api' = api
  BY NextKeepsObjects
<1>2. /\ cur # NoResource => cur.id \in Ids /\ TracksIn(cur, cloud, api.echoScope)
      /\ old # NoResource => old.id \in Ids /\ TracksIn(old, cloud, api.echoScope)
  BY DEF OwnInv, Tracks, TypeInv, TypeOK, Resources
<1> QED BY <1>1, <1>2, TracksStays

LEMMA ScopesStay ==
    ASSUME TypeInv, OwnInv, [Next]_vars
    PROVE  ScopesFull'
<1>0. /\ cloud \in [Ids -> Objects]
      /\ Kept(cloud, cloud') /\ ScopesFull
  BY NextKeepsObjects DEF TypeInv, TypeOK, OwnInv
<1>s. ASSUME \A i \in Ids : \/ cloud[i].state # "none" \/ cloud'[i].state = "none"
                            \/ \A p \in ScopeParams : cloud'[i].scope[p] # Absent
      PROVE  ScopesFull'
  BY <1>0, <1>s DEF ScopesFull, Kept
<1>1. ASSUME cloud' = cloud PROVE ScopesFull'
  BY <1>0, <1>1 DEF ScopesFull
<1>2. ASSUME NEW i \in Ids, cloud[i].state # "none", NEW o, cloud' = [cloud EXCEPT ![i] = o]
      PROVE  ScopesFull'
  BY <1>0, <1>2, <1>s
<1>3. ASSUME NEW i \in Ids, CloudCreate(i) PROVE ScopesFull'
  <2>1. \A p \in ScopeParams : rpc.target[p] # Absent
    BY <1>3 DEF CloudCreate, OwnInv, CreateInFlight
  <2>2. PICK body : cloud' = [cloud EXCEPT ![i] =
            [state |-> "live", scope |-> [p \in ScopeParams |-> rpc.target[p]], body |-> body]]
    BY <1>3 DEF CloudCreate
  <2> QED BY <1>0, <1>s, <2>1, <2>2
<1>4. ASSUME NEW i \in Ids, NEW program \in Programs, ForeignCreate(i, program) PROVE ScopesFull'
  <2>1. DOMAIN CreateTarget(program) = ScopeParams
    BY DEF CreateTarget, PathParamsMap
  <2>2. \A p \in ScopeParams : CreateTarget(program)[p] # Absent
    BY <1>4, <2>1 DEF ForeignCreate, AllFound
  <2>3. PICK body : cloud' = [cloud EXCEPT ![i] =
            [state |-> "live", scope |-> CreateTarget(program), body |-> body]]
    BY <1>4 DEF ForeignCreate
  <2> HIDE DEF CreateTarget
  <2> QED BY <1>0, <1>s, <2>2, <2>3
<1>5. CASE Engine
  BY <1>1, <1>5 DEF Engine, DeployCreate, DeploySame, DeployUpdate, DeployReplace, StartRead,
     StartImport, StartDelete, DropUndeletable, Configure
<1>6. ASSUME NEW i \in Ids, CloudUpdate(i) \/ CloudRead(i) \/ CloudDelete(i) \/ ForeignDelete(i)
      PROVE  ScopesFull'
  BY <1>1, <1>2, <1>6 DEF CloudUpdate, CloudRead, CloudDelete, ForeignDelete, Found
<1>7. ASSUME NEW i \in Ids, NEW n, NEW v, ForeignEdit(i, n, v) PROVE ScopesFull'
  BY <1>2, <1>7 DEF ForeignEdit
<1>8. CASE Cloud
  BY <1>3, <1>4, <1>6, <1>7, <1>8 DEF Cloud
<1>9. CASE Handlers
  BY <1>1, <1>9 DEF Handlers, FinishCreate, FinishRead, FinishImport, FinishUpdate, FinishDelete,
     RequestFails, AnswerLost
<1>10. CASE UNCHANGED vars
  BY <1>1, <1>10 DEF vars
<1> QED BY <1>5, <1>8, <1>9, <1>10 DEF Next

\* What is left to show of a step: the new call in flight and the resources
\* it writes.
LEMMA OwnStep ==
    ASSUME Circumstances, TypeInv, OwnInv, [Next]_vars, InFlight',
           cur' # cur => cur' = NoResource \/ TracksIn(cur', cloud', api'.echoScope),
           old' # old => old' = NoResource \/ old' = cur
    PROVE  OwnInv'
<1>1. Started' /\ ScopesFull'
  BY EngineStays, ScopesStay DEF OwnInv
<1>2. /\ cur' # NoResource => TracksIn(cur', cloud', api'.echoScope)
      /\ old' # NoResource => TracksIn(old', cloud', api'.echoScope)
  BY CheckpointStays
<1> QED BY <1>1, <1>2 DEF OwnInv, InFlight, Tracks

\* No call in flight: nothing to show about it.
LEMMA NothingInFlight ==
    ASSUME rpc'.op = "none" PROVE InFlight'
BY DEF InFlight, CreateInFlight, ReadInFlight, ImportInFlight, UpdateInFlight, ItemInFlight

\* The call in flight after a step of the cloud, which answers it or not.
LEMMA CallStays ==
    ASSUME TypeInv, OwnInv, Kept(cloud, cloud'), api' = api, cur' = cur, old' = old,
           rpc'.op = rpc.op, rpc'.on = rpc.on, rpc'.target = rpc.target,
           rpc'.news = rpc.news, rpc'.state = rpc.state,
           rpc'.phase # "answered" => rpc'.phase = rpc.phase,
           rpc'.phase = "answered" /\ rpc.op \in {"read", "import", "update"} =>
              \/ rpc.phase = "answered" /\ rpc'.reply = rpc.reply
              \/ AboutIn(rpc'.reply, rpc.target[ItemParam], cloud', api.echoScope),
           rpc'.phase = "answered" /\ rpc.op \in {"create", "replace"} =>
              \/ rpc.phase = "answered" /\ rpc'.reply = rpc.reply
              \/ /\ AboutIn(rpc'.reply, rpc'.reply[Id], cloud', api.echoScope)
                 /\ \A p \in ScopeParams :
                       cloud'[rpc'.reply[Id]].scope[p] = rpc.news[PathParamNameMap[p]]
    PROVE  InFlight'
<1>0. rpc.target \in Targets /\ (rpc.phase = "answered" => rpc.reply[Id] \in Ids)
  BY DEF TypeInv, TypeOK, RPCs, InFlightOK
<1>1. ItemInFlight'
  <2> SUFFICES ASSUME rpc.op \in {"read", "update", "delete"}
               PROVE  Slot(rpc.on)' # NoResource /\ rpc.target = OwnTarget(Slot(rpc.on))'
    BY DEF ItemInFlight
  <2>1. Slot(rpc.on) # NoResource /\ rpc.target = OwnTarget(Slot(rpc.on))
    BY DEF OwnInv, ItemInFlight
  <2>2. Slot(rpc.on)' = Slot(rpc.on)
    BY DEF Slot
  <2>3. Slot(rpc.on).id \in Ids /\ cloud[Slot(rpc.on).id].state # "none"
    BY <2>1 DEF Slot, TypeInv, TypeOK, Resources, OwnInv, Tracks, TracksIn
  <2>4. cloud'[Slot(rpc.on).id].scope = cloud[Slot(rpc.on).id].scope
    BY <2>3 DEF Kept
  <2>5. OwnTarget(Slot(rpc.on))' = OwnTarget(Slot(rpc.on))
    BY <2>2, <2>4 DEF OwnTarget
  <2> QED BY <2>1, <2>2, <2>5
<1>2. ASSUME rpc.op \in {"read", "update"}
      PROVE  /\ rpc.on = "cur" /\ rpc.target[ItemParam] = cur.id /\ cur.id \in Ids
             /\ rpc'.phase = "answered" => AboutIn(rpc'.reply, cur.id, cloud', api'.echoScope)
  <2>1. rpc.on = "cur" /\ (rpc.phase = "answered" => AboutIn(rpc.reply, cur.id, cloud, api.echoScope))
    BY <1>2 DEF OwnInv, ReadInFlight, UpdateInFlight, ReplyAbout
  <2>2. cur # NoResource /\ rpc.target = OwnTarget(cur)
    BY <1>2, <2>1 DEF OwnInv, ItemInFlight, Slot
  <2>3. cur.id \in Ids /\ rpc.target[ItemParam] = cur.id
    BY <2>2, ParamNames DEF TypeInv, TypeOK, Resources, OwnTarget
  <2> QED BY <1>2, <2>1, <2>3, AboutStays
<1>3. ReadInFlight' /\ UpdateInFlight'
  <2>1. CurrentState(cur)' = CurrentState(cur)
    BY DEF CurrentState
  <2> QED BY <1>2, <2>1 DEF ReadInFlight, UpdateInFlight, ReplyAbout, OwnInv
<1>4. ImportInFlight'
  <2> SUFFICES ASSUME rpc.op = "import" PROVE ImportInFlight'
    BY DEF ImportInFlight
  <2>1. /\ api.importable /\ rpc.state[ItemName] \in {Absent, rpc.target[ItemParam]}
        /\ rpc.phase = "answered" => AboutIn(rpc.reply, rpc.target[ItemParam], cloud, api.echoScope)
    BY DEF OwnInv, ImportInFlight, ReplyAbout
  <2>2. rpc.phase = "answered" => rpc.target[ItemParam] \in Ids
    BY <1>0, <2>1 DEF AboutIn
  <2>3. rpc'.phase = "answered" => AboutIn(rpc'.reply, rpc.target[ItemParam], cloud', api'.echoScope)
    BY <2>1, <2>2, AboutStays
  <2> QED BY <2>1, <2>3 DEF ImportInFlight, ReplyAbout
<1>5. CreateInFlight'
  <2> SUFFICES ASSUME rpc.op \in {"create", "replace"} PROVE CreateInFlight'
    BY DEF CreateInFlight
  <2>1. CreateInFlight
    BY DEF OwnInv
  <2>2. rpc'.phase = "answered" =>
          /\ AboutIn(rpc'.reply, rpc'.reply[Id], cloud', api'.echoScope)
          /\ \A p \in ScopeParams : cloud'[rpc'.reply[Id]].scope[p] = rpc.news[PathParamNameMap[p]]
    <3>1. CASE rpc.phase = "answered" /\ rpc'.reply = rpc.reply
      <4>1. /\ AboutIn(rpc.reply, rpc.reply[Id], cloud, api.echoScope)
            /\ \A p \in ScopeParams : cloud[rpc.reply[Id]].scope[p] = rpc.news[PathParamNameMap[p]]
        BY <2>1, <3>1 DEF CreateInFlight, ReplyAbout
      <4>2. cloud'[rpc.reply[Id]].scope = cloud[rpc.reply[Id]].scope
        BY <1>0, <3>1, <4>1 DEF AboutIn, Kept
      <4> QED BY <1>0, <3>1, <4>1, <4>2, AboutStays
    <3> QED BY <3>1
  <2> QED BY <2>1, <2>2 DEF CreateInFlight, ReplyAbout
<1> QED BY <1>1, <1>3, <1>4, <1>5 DEF InFlight

\* The engine's steps.
LEMMA OwnEngine ==
    ASSUME Circumstances, TypeInv, OwnInv, Engine PROVE OwnInv'
<1>0. /\ [Next]_vars /\ PlainPathNames /\ CompletePrograms /\ NotOnlyPaths /\ WellShaped(api)
      /\ api \in APIType /\ Started /\ ScopesFull
  BY ProviderAssumption DEF Next, Circumstances, OwnInv, TypeInv, TypeOK
<1>r. ASSUME NEW r \in {cur, old}, r # NoResource
      PROVE  r \in Resources /\ r.id \in Ids /\ Tracks(r)
  BY <1>r DEF OwnInv, TypeInv, TypeOK, Resources
<1>c. ASSUME NEW program \in Programs, NEW op \in {"create", "replace"},
             \E news \in CheckedInputs(program, Empty) : SendCreate(op, news),
             UNCHANGED <<config, cur, old, cloud, history>>
      PROVE  OwnInv'
  <2>1. PICK news \in CheckedInputs(program, Empty) : SendCreate(op, news)
    BY <1>c
  <2>2. /\ news[Id] = Absent /\ news[ItemName] = Absent
        /\ \A p \in ScopeParams : news[N(p)] # Absent
        /\ \A n \in ScopeNames : news[n] # Absent
    BY <1>0, CheckedPath, ScopeNamesAre
  <2>3. \A p \in ScopeParams : CreateTarget(news)[p] = news[N(p)]
    BY <2>2, CreateTargetIsNews
  <2> DEFINE target == [p \in ItemParams |-> IF p \in ScopeParams THEN CreateTarget(news)[p] ELSE Absent]
  <2>4. \A p \in ScopeParams : target[p] = news[N(p)] /\ target[p] # Absent
    BY <2>2, <2>3, ParamNames
  <2>5. /\ rpc'.op = op /\ rpc'.phase = "sent" /\ rpc'.news = news /\ rpc'.target = target
    BY <2>1 DEF SendCreate, Send, Idle
  <2> HIDE DEF target
  <2>6. InFlight'
    BY <2>2, <2>4, <2>5 DEF InFlight, CreateInFlight, ReadInFlight, ImportInFlight,
       UpdateInFlight, ItemInFlight, N
  <2> QED BY <1>0, <1>c, <2>6, OwnStep
<1>1. ASSUME NEW program \in Programs, DeployCreate(program)
      PROVE  OwnInv'
  BY <1>1, <1>c DEF DeployCreate
<1>2. ASSUME NEW program \in Programs, DeployReplace(program)
      PROVE  OwnInv'
  BY <1>2, <1>c DEF DeployReplace
<1>3. ASSUME NEW program \in Programs, DeploySame(program)
      PROVE  OwnInv'
  <2>1. /\ cur # NoResource /\ rpc.op = "none" /\ rpc' = rpc /\ cloud' = cloud /\ api' = api
        /\ old' = old
    BY <1>3 DEF DeploySame, ReadyToDeploy, config
  <2>2. PICK news \in CheckedInputs(program, cur.inputs) :
            "none" \in Diff(cur, news) /\ cur' = [cur EXCEPT !.inputs = news]
    BY <1>3 DEF DeploySame
  <2>3. cur \in Resources /\ cur.id \in Ids /\ TracksIn(cur, cloud, api.echoScope)
    BY <1>r, <2>1 DEF Tracks
  <2>4. /\ cur'.id = cur.id /\ cur'.inputs = news /\ cur'.outputs = cur.outputs
        /\ cur'.stash = cur.stash
    BY <2>2, <2>3 DEF Resources
  <2>5. /\ news[Id] = Absent /\ news[ItemName] = Absent
        /\ \A p \in ScopeParams : news[N(p)] # Absent
    BY <1>0, CheckedPath, ScopeNamesAre
  <2>6. ASSUME ~api.echoScope, NEW p \in ScopeParams
        PROVE  news[N(p)] = cur.inputs[N(p)]
    <3>1. cur.inputs[N(p)] # Absent
      BY <1>0, <2>3, <2>6 DEF TracksIn, ScopesFull, N
    <3>2. ReplacesAtLeast(api)
      BY <1>0, <2>6 DEF WellShaped
    <3> QED BY <1>0, <2>2, <2>5, <3>1, <3>2, DiffKeepsScope, ScopeNamesAre
  <2>7. TracksIn(cur', cloud', api'.echoScope)
    BY <2>1, <2>3, <2>4, <2>5, <2>6 DEF TracksIn, N
  <2>8. InFlight'
    BY <2>1, NothingInFlight
  <2> QED BY <1>0, <2>1, <2>7, <2>8, OwnStep
<1>4. ASSUME NEW program \in Programs, DeployUpdate(program)
      PROVE  OwnInv'
  <2>1. /\ cur # NoResource /\ cur' = cur /\ cloud' = cloud /\ api' = api /\ old' = old
    BY <1>4 DEF DeployUpdate, ReadyToDeploy, config
  <2>2. PICK news \in CheckedInputs(program, cur.inputs) :
            /\ "update" \in Diff(cur, news)
            /\ UpdateBuildable(cur, UpdateBody(cur, news))
            /\ Send("update", "cur", UpdateTarget(cur), UpdateBody(cur, news), Empty, news)
    BY <1>4 DEF DeployUpdate
  <2>3. cur \in Resources /\ cur.id \in Ids /\ TracksIn(cur, cloud, api.echoScope) /\ Tracks(cur)
    BY <1>r, <2>1 DEF Tracks
  <2>4. UpdateTarget(cur) = OwnTarget(cur)
    BY <1>0, <2>2, <2>3, RequestsAreOwn DEF UpdateBuildable
  <2>5. /\ news[Id] = Absent /\ news[ItemName] = Absent
        /\ \A p \in ScopeParams : news[N(p)] # Absent
    BY <1>0, CheckedPath, ScopeNamesAre
  <2>6. ASSUME ~api.echoScope, NEW p \in ScopeParams
        PROVE  news[N(p)] = cur.inputs[N(p)]
    <3>1. cur.inputs[N(p)] # Absent
      BY <1>0, <2>3, <2>6 DEF TracksIn, ScopesFull, N
    <3>2. ReplacesAtLeast(api)
      BY <1>0, <2>6 DEF WellShaped
    <3> QED BY <1>0, <2>2, <2>5, <3>1, <3>2, DiffKeepsScope, ScopeNamesAre
  <2>7. /\ rpc'.op = "update" /\ rpc'.phase = "sent" /\ rpc'.news = news /\ rpc'.on = "cur"
        /\ rpc'.target = UpdateTarget(cur)
    BY <2>2 DEF Send, Idle
  <2>8. OwnTarget(Slot(rpc.on))' = OwnTarget(cur) /\ Slot(rpc.on)' = cur
    BY <2>1, <2>7 DEF OwnTarget, Slot
  <2>9. InFlight'
    BY <2>1, <2>4, <2>5, <2>6, <2>7, <2>8 DEF InFlight, CreateInFlight, ReadInFlight,
       ImportInFlight, UpdateInFlight, ItemInFlight, N
  <2> QED BY <1>0, <2>1, <2>9, OwnStep
<1>5. ASSUME StartRead
      PROVE  OwnInv'
  <2>1. /\ cur # NoResource /\ cur' = cur /\ cloud' = cloud /\ api' = api /\ old' = old
    BY <1>5 DEF StartRead, config
  <2>2. cur \in Resources /\ Tracks(cur)
    BY <1>r, <2>1
  <2>3. ReadTarget(cur) = OwnTarget(cur)
    BY <1>0, <1>5, <2>2, RequestsAreOwn DEF StartRead
  <2>4. /\ rpc'.op = "read" /\ rpc'.phase = "sent" /\ rpc'.on = "cur"
        /\ rpc'.target = ReadTarget(cur) /\ rpc'.state = CurrentState(cur)
    BY <1>5 DEF StartRead, Send, Idle
  <2>5. /\ OwnTarget(Slot(rpc.on))' = OwnTarget(cur) /\ Slot(rpc.on)' = cur
        /\ CurrentState(cur)' = CurrentState(cur)
    BY <2>1, <2>4 DEF OwnTarget, Slot, CurrentState
  <2>6. InFlight'
    BY <2>1, <2>3, <2>4, <2>5 DEF InFlight, CreateInFlight, ReadInFlight, ImportInFlight,
       UpdateInFlight, ItemInFlight
  <2> QED BY <1>0, <2>1, <2>6, OwnStep
<1>6. ASSUME NEW i \in Ids, StartImport(i)
      PROVE  OwnInv'
  <2>1. /\ cur' = cur /\ cloud' = cloud /\ api' = api /\ old' = old /\ api.importable
    BY <1>6 DEF StartImport, config
  <2> DEFINE state == ImportedPathParams(cloud[i].scope, i)
             target == PathParamsMap(ItemParams, state, Empty, api.global, Empty)
  <2>2. Send("import", "cur", target, Empty, state, Empty)
    BY <1>6 DEF StartImport
  <2> HIDE DEF target
  <2>3. i # Absent
    BY ProviderAssumption
  <2>4. state[ItemName] \in {Absent, i}
    BY <2>3, ImportState
  <2>5. target[ItemParam] = i
    BY <2>3, ImportState DEF target
  <2> HIDE DEF state
  <2>6. rpc'.op = "import" /\ rpc'.phase = "sent" /\ rpc'.target = target /\ rpc'.state = state
    BY <2>2 DEF Send, Idle
  <2>7. InFlight'
    BY <2>1, <2>4, <2>5, <2>6 DEF InFlight, CreateInFlight, ReadInFlight, ImportInFlight,
       UpdateInFlight, ItemInFlight
  <2> QED BY <1>0, <2>1, <2>7, OwnStep
<1>7. ASSUME NEW on \in {"cur", "old"}, StartDelete(on)
      PROVE  OwnInv'
  <2>1. /\ Slot(on) # NoResource /\ cur' = cur /\ cloud' = cloud /\ api' = api /\ old' = old
    BY <1>7 DEF StartDelete, config
  <2>2. Slot(on) \in Resources /\ Tracks(Slot(on))
    BY <1>r, <2>1 DEF Slot
  <2>3. DeleteTarget(Slot(on)) = OwnTarget(Slot(on))
    BY <1>0, <1>7, <2>2, RequestsAreOwn DEF StartDelete
  <2>4. /\ rpc'.op = "delete" /\ rpc'.phase = "sent" /\ rpc'.on = on
        /\ rpc'.target = DeleteTarget(Slot(on))
    BY <1>7 DEF StartDelete, Send, Idle
  <2>5. Slot(rpc.on)' = Slot(on)
    BY <2>1, <2>4 DEF Slot
  <2>6. OwnTarget(Slot(rpc.on))' = OwnTarget(Slot(on))
    BY <2>1, <2>5 DEF OwnTarget
  <2>7. InFlight'
    BY <2>1, <2>3, <2>4, <2>5, <2>6 DEF InFlight, CreateInFlight, ReadInFlight, ImportInFlight,
       UpdateInFlight, ItemInFlight
  <2> QED BY <1>0, <2>1, <2>7, OwnStep
<1>8. ASSUME NEW on \in {"cur", "old"}, DropUndeletable(on)
      PROVE  OwnInv'
  <2>1. /\ rpc'.op = "none" /\ (cur' # cur => cur' = NoResource) /\ (old' # old => old' = NoResource)
    BY <1>8 DEF DropUndeletable, Forget
  <2> QED BY <1>0, <2>1, NothingInFlight, OwnStep
<1>9. ASSUME NEW engine \in Engines, Configure(engine)
      PROVE  OwnInv'
  <2>1. rpc'.op = "none" /\ cur' = cur /\ old' = old
    BY <1>9 DEF Configure
  <2> QED BY <1>0, <2>1, NothingInFlight, OwnStep
<1> QED BY <1>1, <1>2, <1>3, <1>4, <1>5, <1>6, <1>7, <1>8, <1>9 DEF Engine

\* The cloud's steps: only answers, and objects that come, go and change.
LEMMA OwnCloud ==
    ASSUME Circumstances, TypeInv, OwnInv, Cloud PROVE OwnInv'
<1>0. /\ [Next]_vars /\ PlainPathNames /\ WellShaped(api) /\ api' = api /\ Kept(cloud, cloud')
      /\ cloud \in [Ids -> Objects] /\ rpc \in RPCs
  BY NextKeepsObjects DEF Next, Circumstances, TypeInv, TypeOK
<1>a. ASSUME NEW i \in Ids, NEW o, NEW fresh \in BOOLEAN, Answer(i, o, fresh)
      PROVE  /\ rpc' = [rpc EXCEPT !.phase = "answered", !.reply = Reply(i, o, fresh)]
             /\ rpc'.phase = "answered" /\ rpc'.reply = Reply(i, o, fresh)
             /\ rpc'.op = rpc.op /\ rpc'.on = rpc.on /\ rpc'.target = rpc.target
             /\ rpc'.news = rpc.news /\ rpc'.state = rpc.state
  BY <1>0, <1>a DEF Answer, RPCs
<1>b. ASSUME NEW i \in Ids, NEW o, NEW fresh \in BOOLEAN,
             cloud'[i].state # "none", cloud'[i].scope = o.scope
      PROVE  AboutIn(Reply(i, o, fresh), i, cloud', api.echoScope)
  BY <1>0, <1>b, ReplyTellsThePath DEF AboutIn, N
<1>c. ASSUME NEW i \in Ids, Found(i), NEW o, o.scope = cloud[i].scope, Answer(i, o, FALSE),
             rpc.op \notin {"create", "replace"}, cur' = cur, old' = old
      PROVE  OwnInv'
  <2>1. cloud'[i].state # "none" /\ cloud'[i].scope = o.scope
    BY <1>0, <1>c DEF Found, Kept
  <2>2. rpc.target[ItemParam] = i
    BY <1>c DEF Found
  <2>3. AboutIn(Reply(i, o, FALSE), i, cloud', api.echoScope)
    BY <1>b, <2>1
  <2>4. InFlight'
    BY <1>0, <1>a, <1>c, <2>2, <2>3, CallStays
  <2> QED BY <1>0, <1>c, <2>4, OwnStep
<1>d. ASSUME rpc'.op = rpc.op, rpc'.on = rpc.on, rpc'.target = rpc.target, rpc'.news = rpc.news,
             rpc'.state = rpc.state, rpc'.phase = rpc.phase, rpc'.reply = rpc.reply,
             cur' = cur, old' = old
      PROVE  OwnInv'
  <2>1. InFlight'
    BY <1>0, <1>d, CallStays
  <2> QED BY <1>0, <1>d, <2>1, OwnStep
<1>1. ASSUME NEW i \in Ids, CloudCreate(i)
      PROVE  OwnInv'
  <2> DEFINE o == [state |-> "live", scope |-> [p \in ScopeParams |-> rpc.target[p]],
                   body |-> WithDefaults(rpc.body)]
  <2>1. /\ cloud' = [cloud EXCEPT ![i] = o] /\ Answer(i, o, TRUE) /\ cur' = cur /\ old' = old
        /\ rpc.op \in {"create", "replace"} /\ rpc.phase = "sent"
    BY <1>1 DEF CloudCreate
  <2>2. o.state = "live" /\ \A p \in ScopeParams : o.scope[p] = rpc.target[p]
    OBVIOUS
  <2> HIDE DEF o
  <2>3. cloud'[i] = o
    BY <1>0, <2>1
  <2>4. AboutIn(Reply(i, o, TRUE), i, cloud', api.echoScope)
    BY <1>b, <2>2, <2>3
  <2>5. Reply(i, o, TRUE)[Id] = i
    BY <2>4 DEF AboutIn
  <2>6. \A p \in ScopeParams : cloud'[i].scope[p] = rpc.news[PathParamNameMap[p]]
    BY <2>1, <2>2, <2>3 DEF OwnInv, CreateInFlight
  <2>7. rpc'.reply = Reply(i, o, TRUE) /\ rpc'.phase = "answered" /\ rpc'.op = rpc.op
        /\ rpc'.on = rpc.on /\ rpc'.target = rpc.target
        /\ rpc'.news = rpc.news /\ rpc'.state = rpc.state
    BY <1>a, <2>1
  <2>8. InFlight'
    BY <1>0, <2>1, <2>4, <2>5, <2>6, <2>7, CallStays
  <2> QED BY <1>0, <2>1, <2>8, OwnStep
<1>2. ASSUME NEW i \in Ids, CloudUpdate(i)
      PROVE  OwnInv'
  <2> DEFINE body == IF api.update = "PATCH" THEN MergePatch(cloud[i].body, rpc.body)
                     ELSE WithDefaults(rpc.body)
             o == [cloud[i] EXCEPT !.body = body]
  <2>1. /\ Answer(i, o, FALSE) /\ Found(i) /\ rpc.op = "update" /\ cur' = cur /\ old' = old
    BY <1>2 DEF CloudUpdate
  <2> HIDE DEF body
  <2>2. o.scope = cloud[i].scope
    BY <1>0 DEF Objects
  <2> HIDE DEF o
  <2> QED BY <1>c, <2>1, <2>2
<1>3. ASSUME NEW i \in Ids, CloudRead(i) \/ CloudDelete(i)
      PROVE  OwnInv'
  <2>1. /\ Answer(i, cloud[i], FALSE) /\ Found(i) /\ rpc.op \in {"read", "import", "delete"}
        /\ cur' = cur /\ old' = old
    BY <1>3 DEF CloudRead, CloudDelete
  <2> QED BY <1>c, <2>1
<1>4. ASSUME NEW i \in Ids, NEW program, ForeignCreate(i, program)
      PROVE  OwnInv'
  BY <1>4, <1>d DEF ForeignCreate
<1>5. ASSUME NEW i \in Ids, ForeignDelete(i)
      PROVE  OwnInv'
  BY <1>5, <1>d DEF ForeignDelete
<1>6. ASSUME NEW i \in Ids, NEW n, NEW v, ForeignEdit(i, n, v)
      PROVE  OwnInv'
  <2>1. \/ rpc' = rpc
        \/ rpc' = [rpc EXCEPT !.since = rpc.since \cup {n}]
    BY <1>6 DEF ForeignEdit
  <2>2. /\ rpc'.op = rpc.op /\ rpc'.on = rpc.on /\ rpc'.target = rpc.target
        /\ rpc'.news = rpc.news /\ rpc'.state = rpc.state /\ rpc'.phase = rpc.phase
        /\ rpc'.reply = rpc.reply
    BY <1>0, <2>1 DEF RPCs
  <2>3. cur' = cur /\ old' = old
    BY <1>6 DEF ForeignEdit
  <2> QED BY <1>d, <2>2, <2>3
<1> QED BY <1>1, <1>2, <1>3, <1>4, <1>5, <1>6 DEF Cloud

\* The second halves of the handlers: what they return is tracked.
LEMMA OwnHandlers ==
    ASSUME Circumstances, TypeInv, OwnInv, Handlers PROVE OwnInv'
<1>0. [Next]_vars
  BY DEF Next
<1>i. ASSUME rpc' = Idle PROVE InFlight'
  BY <1>i, NothingInFlight DEF Idle
<1>1. CASE FinishCreate
  <2>1. TracksIn(CreatedResource, cloud, api.echoScope)
    BY <1>1, CreatedTracks DEF FinishCreate
  <2>2. cur' = CreatedResource /\ cloud' = cloud /\ api' = api /\ (old' = cur \/ old' = old)
        /\ rpc' = Idle
    BY <1>1 DEF FinishCreate, config
  <2>3. TracksIn(cur', cloud', api'.echoScope)
    BY <2>1, <2>2
  <2> QED BY <1>0, <1>i, <2>2, <2>3, OwnStep
<1>2. CASE FinishRead
  <2>1. /\ rpc.op = "read" /\ rpc.phase = "answered" /\ cur' = ReadResource(cur.inputs, cur.stash)
        /\ cloud' = cloud /\ api' = api /\ old' = old /\ rpc' = Idle
    BY <1>2 DEF FinishRead, config
  <2>2. /\ rpc.state = CurrentState(cur) /\ ReplyAbout(cur.id) /\ cur # NoResource
    BY <2>1 DEF OwnInv, ReadInFlight, ItemInFlight, Slot
  <2>3. cur \in Resources /\ cur.id \in Ids /\ cur.inputs \in PropMaps
        /\ TracksIn(cur, cloud, api.echoScope) /\ Tracks(cur)
    BY <2>2 DEF OwnInv, TypeInv, TypeOK, Resources, Tracks
  <2>4. rpc.state = cur.outputs
    BY <2>2, <2>3, RequestsAreOwn DEF Circumstances, OwnInv, TypeInv, TypeOK
  <2>5. ~api.echoScope => \A p \in ScopeParams :
           /\ rpc.state[N(p)] = Absent
           /\ cur.inputs[N(p)] # Absent
           /\ cur.inputs[N(p)] = cloud[cur.id].scope[p]
    BY <2>3, <2>4 DEF TracksIn, N, OwnInv, ScopesFull
  <2>6. /\ cur.inputs[Id] = Absent /\ cur.inputs[ItemName] \in {Absent, cur.id}
        /\ cur.stash[ItemName] \in {Absent, cur.id}
        /\ rpc.state[ItemName] \in {Absent, cur.id}
        /\ ~api.echoScope /\ (Keys(cur.stash) # {} \/ OldEngines) =>
              \A p \in ScopeParams : cur.stash[N(p)] = cloud[cur.id].scope[p]
    BY <2>3, <2>4 DEF TracksIn, N
  <2>7. TracksIn(ReadResource(cur.inputs, cur.stash), cloud, api.echoScope)
    BY <2>1, <2>2, <2>3, <2>5, <2>6, ReadTracks
  <2>8. TracksIn(cur', cloud', api'.echoScope)
    BY <2>1, <2>6, <2>7
  <2> QED BY <1>0, <1>i, <2>1, <2>8, OwnStep
<1>3. CASE FinishImport
  <2>1. /\ rpc.op = "import" /\ rpc.phase = "answered" /\ cur' = ReadResource(Empty, Empty)
        /\ cloud' = cloud /\ api' = api /\ old' = old /\ rpc' = Idle
    BY <1>3 DEF FinishImport, config
  <2> DEFINE i == rpc.target[ItemParam]
  <2>2. ReplyAbout(i) /\ rpc.state[ItemName] \in {Absent, i} /\ api.importable
    BY <2>1 DEF OwnInv, ImportInFlight
  <2>3. i \in Ids
    BY <2>1, <2>2 DEF TypeInv, InFlightOK, ReplyAbout, AboutIn
  <2>4. api.echoScope
    BY <2>2 DEF Circumstances, WellShaped, TypeInv, TypeOK
  <2>s. /\ ~api.echoScope => \A p \in ScopeParams :
                /\ rpc.state[N(p)] = Absent
                /\ Empty[N(p)] # Absent
                /\ Empty[N(p)] = cloud[i].scope[p]
        /\ ~api.echoScope /\ (Keys(Empty) # {} \/ OldEngines) =>
                \A p \in ScopeParams : Empty[N(p)] = cloud[i].scope[p]
    BY <2>4
  <2>5. Empty[Id] = Absent /\ Empty[ItemName] \in {Absent, i} /\ Empty \in PropMaps
    BY ScopeNamesAre, NamesAssumption, EmptyType DEF Empty
  <2> HIDE DEF i
  <2>6. TracksIn(ReadResource(Empty, Empty), cloud, api.echoScope)
    BY <2>1, <2>2, <2>3, <2>s, <2>5, ReadTracks
  <2>7. TracksIn(cur', cloud', api'.echoScope)
    BY <2>1, <2>6
  <2> QED BY <1>0, <1>i, <2>1, <2>7, OwnStep
<1>4. CASE FinishUpdate
  <2>1. TracksIn(cur', cloud, api.echoScope)
    BY <1>4, UpdatedTracks
  <2>2. cloud' = cloud /\ api' = api /\ old' = old /\ rpc' = Idle
    BY <1>4 DEF FinishUpdate, config
  <2> QED BY <1>0, <1>i, <2>1, <2>2, OwnStep
<1>5. CASE FinishDelete
  <2>1. (cur' # cur => cur' = NoResource) /\ (old' # old => old' = NoResource) /\ rpc' = Idle
    BY <1>5 DEF FinishDelete, Forget
  <2> QED BY <1>0, <1>i, <2>1, OwnStep
<1>6. CASE RequestFails \/ AnswerLost
  <2>1. cur' = cur /\ old' = old /\ rpc' = Idle
    BY <1>6 DEF RequestFails, AnswerLost
  <2> QED BY <1>0, <1>i, <2>1, OwnStep
<1> QED BY <1>1, <1>2, <1>3, <1>4, <1>5, <1>6 DEF Handlers

LEMMA OwnStutters == OwnInv /\ UNCHANGED vars => OwnInv'
BY DEF vars, OwnInv, Started, Tracks, TracksIn, ScopesFull, CreateInFlight, ReadInFlight, ImportInFlight,
   UpdateInFlight, ItemInFlight, ReplyAbout, AboutIn, OwnTarget, Slot, CurrentState

LEMMA OwnIsInductive == Circumstances /\ TypeInv /\ OwnInv /\ [Next]_vars => OwnInv'
BY OwnEngine, OwnCloud, OwnHandlers, OwnStutters DEF Next

\* In the circumstances of ProviderInv, OwnInv holds in every reachable state:
\* a tracked resource's outputs and inputs keep saying where its object is.
THEOREM OwnInvariant == Circumstances => (Spec => []OwnInv)
<1> SUFFICES ASSUME Circumstances PROVE Spec => []OwnInv
  OBVIOUS
<1>1. Init => OwnInv
  BY OwnInit
<1>2. TypeInv /\ OwnInv /\ [Next]_vars => OwnInv'
  BY OwnIsInductive
<1> QED BY <1>1, <1>2, TypeInvariant, PTL DEF Spec

\* A GET, PATCH, PUT or DELETE names the very object the checkpoint tracks,
\* whatever failed, was edited, refreshed, imported or replaced before
\* (getPathParamsMap, and Read, Update and Delete in provider.go).
THEOREM TargetsOwnObject == Circumstances => (Spec => []TargetsOwn)
<1> SUFFICES ASSUME Circumstances PROVE Spec => []TargetsOwn
  OBVIOUS
<1>1. OwnInv => TargetsOwn
  BY DEF OwnInv, ItemInFlight, TargetsOwn
<1> QED BY <1>1, OwnInvariant, PTL

\* Engines that never send the old inputs need nothing but what they had the
\* provider stash: Delete can always build its request for each resource of
\* the checkpoint, and names the resource's object (GetResourceState).
THEOREM StashIsEnough ==
    Circumstances /\ OldEngines =>
        (Spec => [](\A r \in {cur, old} \ {NoResource} : DeleteTarget(r) = OwnTarget(r)))
<1> SUFFICES ASSUME Circumstances, OldEngines
             PROVE  Spec => [](\A r \in {cur, old} \ {NoResource} : DeleteTarget(r) = OwnTarget(r))
  OBVIOUS
<1>1. ASSUME TypeInv, OwnInv, NEW r \in {cur, old} \ {NoResource}
      PROVE  DeleteTarget(r) = OwnTarget(r)
  <2>1. r \in Resources /\ Tracks(r) /\ WellShaped(api) /\ ScopesFull /\ ~engineSendsOldInputs
    BY <1>1 DEF TypeInv, TypeOK, OwnInv, Started, OldEngines, Circumstances
  <2> QED BY <2>1, RequestsAreOwn
<1>2. TypeInv /\ OwnInv => \A r \in {cur, old} \ {NoResource} : DeleteTarget(r) = OwnTarget(r)
  BY <1>1
<1> QED BY <1>2, TypeInvariant, OwnInvariant, PTL

-----------------------------------------------------------------------------
(* Addressable, for engines of both kinds. *)

\* In every state between calls, Delete can still build its request for each
\* resource of the checkpoint, and that request names the resource's object,
\* whichever engine stored it and whichever asks (StashOf, DeleteTarget).
THEOREM AlwaysAddressable == Circumstances /\ OldInputsToDelete => (Spec => []Addressable)
<1> SUFFICES ASSUME Circumstances, OldInputsToDelete PROVE Spec => []Addressable
  OBVIOUS
<1>1. ASSUME TypeInv, OwnInv PROVE Addressable
  <2>0. engineSendsOldInputs => engineSendsOldInputsOnDelete
    BY <1>1 DEF OwnInv, Started, OldInputsToDelete
  <2>1. ASSUME NEW r \in {cur, old} \ {NoResource},
               engineSendsOldInputs \/ Keys(r.stash) # {}
        PROVE  DeleteTarget(r) = OwnTarget(r)
    <3>1. r \in Resources /\ Tracks(r) /\ WellShaped(api) /\ ScopesFull
      BY <1>1, <2>1 DEF TypeInv, TypeOK, OwnInv, Circumstances
    <3> QED BY <2>0, <2>1, <3>1, RequestsAreOwn
  <2> QED BY <2>1 DEF Addressable
<1> QED BY <1>1, TypeInvariant, OwnInvariant, PTL

=============================================================================
