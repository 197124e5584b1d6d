-------------------------- MODULE ProviderDiffProofs -------------------------
(***************************************************************************)
(* What Diff and Read promise: Diff has an answer, Read keeps the outputs, *)
(* and an update or a replacement has a cause.  The first deployment after *)
(* an import is what makes the last one hard: the imported inputs lack     *)
(* what the answer did not have, and Diff must not take the path           *)
(* parameters a program adds for a change.                                 *)
(***************************************************************************)
EXTENDS ProviderProofs

-----------------------------------------------------------------------------
(* Diff. *)

\* The path parameters Diff looks for are those of the creation and the id.
LEMMA DiffTargetFound ==
    ASSUME DiffHasPaths, api \in APIs, NEW r, r.id # Absent, NEW news \in PropMaps,
           AllFound(CreateTarget(news))
    PROVE  ~PathParamsError(DiffTarget(r, news))
<1>1. \A p \in ScopeParams : PathParam(p, news, Empty, api.global, Empty) # Absent
  BY DEF AllFound, CreateTarget, PathParamsMap
<1>2. CASE api.update = "none"
  <2>1. DiffTarget(r, news) = CreateTarget(news) /\ ScopeParams # {}
    BY <1>2 DEF DiffTarget, CreateTarget, DiffHasPaths
  <2>2. DOMAIN CreateTarget(news) = ScopeParams
    BY DEF CreateTarget, PathParamsMap
  <2> QED BY <2>1, <2>2 DEF PathParamsError
<1>3. CASE api.update # "none"
  <2> DEFINE props == IF news[Id] = Absent THEN [news EXCEPT ![Id] = r.id] ELSE news
  <2>1. DiffTarget(r, news) = [p \in ItemParams |-> PathParam(p, props, Empty, api.global, Empty)]
    BY <1>3 DEF DiffTarget, PathParamsMap
  <2>2. props[Id] # Absent /\ \A n \in Names \ {Id} : props[n] = news[n]
    BY IdIsKept DEF PropMaps
  <2> HIDE DEF props
  <2>3. ASSUME NEW p \in ScopeParams PROVE PathParam(p, props, Empty, api.global, Empty) # Absent
    <3>1. PathParamNameMap[p] \in Names \ {Id} /\ p # ItemParam
      BY ParamsAssumption
    <3>2. PathParam(p, props, Empty, api.global, Empty) = PathParam(p, news, Empty, api.global, Empty)
      BY <2>2, <3>1 DEF PathParam, LookupName
    <3> QED BY <1>1, <3>2
  <2>4. PathParam(ItemParam, props, Empty, api.global, Empty) # Absent
    <3>1. Empty[PathParamNameMap[ItemParam]] = Absent
      BY ParamNames DEF Empty
    <3>2. props[LookupName(ItemParam, props, Empty)] # Absent
      BY <2>2, <3>1 DEF LookupName
    <3> QED BY <3>2 DEF PathParam, Else
  <2>5. DOMAIN DiffTarget(r, news) = ItemParams
    BY <2>1
  <2> QED BY <2>1, <2>3, <2>4, <2>5, ParamNames DEF PathParamsError, AllFound, ItemParams
<1> QED BY <1>2, <1>3

\* In every state between calls Diff has an answer for every program that has
\* the collection's path parameters ("if there is no PATCH or PUT endpoint ...
\* we'll need to trigger a replacement", provider.go 440).
THEOREM DiffAlwaysAnswers == DiffHasPaths => (Spec => []DiffAnswers)
<1> SUFFICES ASSUME DiffHasPaths PROVE Spec => []DiffAnswers
  OBVIOUS
<1>1. ASSUME TypeInv PROVE DiffAnswers
  <2> SUFFICES ASSUME cur # NoResource, NEW program \in Programs,
                      NEW news \in CheckedInputs(program, cur.inputs), AllFound(CreateTarget(news))
               PROVE  "error" \notin Diff(cur, news)
    BY DEF DiffAnswers
  <2>1. /\ cur \in Resources /\ cur.id \in Ids /\ cur.inputs \in PropMaps
        /\ api \in APIs /\ api \in APIType
    BY <1>1, ProviderAssumption DEF TypeInv, TypeOK, Resources
  <2>2. news \in PropMaps
    BY <2>1, CheckedInputsType
  <2>3. ~PathParamsError(DiffTarget(cur, news))
    BY <2>1, <2>2, DiffTargetFound, ProviderAssumption
  <2>4. "error" \notin AnswersAbout(SentOldInputs(cur), news)
    BY <2>1 DEF AnswersAbout, APIType
  <2> QED BY <2>3, <2>4 DEF Diff
<1> QED BY <1>1, TypeInvariant, PTL

-----------------------------------------------------------------------------
(* Read. *)

\* Outputs have SDK names only.
InSDKNames(r) == \A n \in Keys(r.outputs) : APIToSDKNameMap[n] = n

\* A Read works on the state the checkpoint still has.
ReadFromCheckpoint == rpc.op = "read" => rpc.state = CurrentState(cur)

OutputsInv ==
    /\ \A r \in {cur, old} \ {NoResource} : InSDKNames(r)
    /\ ReadFromCheckpoint

LEMMA ToSDKNames ==
    ASSUME NEW m, NEW n \in Keys(ToSDK(m))
    PROVE  APIToSDKNameMap[n] = n
<1>1. n \in Names /\ TransformBody(m, APIToSDKNameMap)[n] # Absent
  BY DEF ToSDK, Keys
<1>2. CASE MovedTo(m, APIToSDKNameMap, n) # {}
  BY <1>2, RenamingAssumption DEF MovedTo, Keys
<1>3. CASE MovedTo(m, APIToSDKNameMap, n) = {}
  BY <1>1, <1>3 DEF TransformBody
<1> QED BY <1>2, <1>3

\* A property that already has its SDK name is there after the renaming: it
\* may be overwritten, never dropped.
LEMMA ToSDKDropsNothing ==
    ASSUME NEW m, NEW n \in Names, m[n] # Absent, APIToSDKNameMap[n] = n
    PROVE  n \in Keys(ToSDK(m))
<1>1. CASE MovedTo(m, APIToSDKNameMap, n) # {}
  <2>1. (CHOOSE k \in MovedTo(m, APIToSDKNameMap, n) : TRUE) \in MovedTo(m, APIToSDKNameMap, n)
    BY <1>1
  <2>2. m[CHOOSE k \in MovedTo(m, APIToSDKNameMap, n) : TRUE] # Absent
    BY <2>1 DEF MovedTo, Keys
  <2> QED BY <1>1, <2>2 DEF ToSDK, TransformBody, Keys
<1>2. CASE MovedTo(m, APIToSDKNameMap, n) = {}
  BY <1>2 DEF ToSDK, TransformBody, Keys
<1> QED BY <1>1, <1>2

LEMMA EmptyInSDKNames == Keys(Empty) = {}
BY DEF Keys, Empty

LEMMA ReadOutputs ==
    ASSUME NEW inputs, NEW stash
    PROVE  ReadResource(inputs, stash).outputs = ToSDK(ApplyDiffFromCloudProvider(rpc.reply, rpc.state))
BY DEF ReadResource

LEMMA OutputsStep ==
    ASSUME TypeInv, OutputsInv, [Next]_vars
    PROVE  OutputsInv'
<1>0. /\ rpc \in RPCs /\ cur \in Resources \cup {NoResource} /\ NoResource \notin Resources
  BY ProviderAssumption DEF TypeInv, TypeOK, Resources
<1>i. ASSUME rpc'.op # "read", \A r \in {cur', old'} \ {NoResource} : InSDKNames(r)
      PROVE  OutputsInv'
  BY <1>i DEF OutputsInv, ReadFromCheckpoint, InSDKNames
<1>k. ASSUME cur' \in {cur, NoResource}, old' \in {old, cur, NoResource}
      PROVE  \A r \in {cur', old'} \ {NoResource} : InSDKNames(r)
  BY <1>k DEF OutputsInv
<1>s. ASSUME NEW op, NEW on, NEW target, NEW body, NEW state, NEW news,
             Send(op, on, target, body, state, news)
      PROVE  rpc'.op = op /\ rpc'.state = state
  BY <1>s DEF Send, Idle
<1>1. CASE Engine
  <2>1. ASSUME NEW program, DeployCreate(program) \/ DeployReplace(program) \/ DeployUpdate(program)
        PROVE  OutputsInv'
    <3>1. rpc'.op \in {"create", "replace", "update"} /\ cur' = cur /\ old' = old
      BY <1>s, <2>1 DEF DeployCreate, DeployReplace, DeployUpdate, SendCreate
    <3> QED BY <1>i, <1>k, <3>1
  <2>2. ASSUME NEW program \in Programs, DeploySame(program)
        PROVE  OutputsInv'
    <3>1. cur \in Resources /\ rpc' = rpc /\ rpc.op = "none" /\ old' = old /\ cur # NoResource
      BY <1>0, <2>2 DEF DeploySame, ReadyToDeploy
    <3>2. PICK news : cur' = [cur EXCEPT !.inputs = news]
      BY <2>2 DEF DeploySame
    <3>3. cur'.outputs = cur.outputs
      BY <3>1, <3>2 DEF Resources
    <3> QED BY <1>i, <3>1, <3>3 DEF OutputsInv, InSDKNames
  <2>3. ASSUME StartRead PROVE OutputsInv'
    <3>1. cur' = cur /\ old' = old /\ rpc'.op = "read" /\ rpc'.state = CurrentState(cur)
      BY <1>s, <2>3 DEF StartRead
    <3>2. CurrentState(cur)' = CurrentState(cur)
      BY <3>1 DEF CurrentState
    <3> QED BY <1>k, <3>1, <3>2 DEF OutputsInv, ReadFromCheckpoint, InSDKNames
  <2>4. ASSUME (\E i \in Ids : StartImport(i)) \/ (\E on \in {"cur", "old"} : StartDelete(on))
        PROVE  OutputsInv'
    <3>1. rpc'.op \in {"import", "delete"} /\ cur' = cur /\ old' = old
      BY <1>s, <2>4 DEF StartImport, StartDelete
    <3> QED BY <1>i, <1>k, <3>1
  <2>5. ASSUME NEW on, DropUndeletable(on) PROVE OutputsInv'
    BY <1>i, <1>k, <2>5 DEF DropUndeletable, Forget
  <2>6. ASSUME NEW engine, Configure(engine) PROVE OutputsInv'
    BY <1>i, <1>k, <2>6 DEF Configure
  <2> QED BY <1>1, <2>1, <2>2, <2>3, <2>4, <2>5, <2>6 DEF Engine
<1>2. CASE Cloud
  <2>1. cur' = cur /\ old' = old /\ rpc'.op = rpc.op /\ rpc'.state = rpc.state
    <3>1. ASSUME NEW i, NEW o, NEW fresh, Answer(i, o, fresh)
          PROVE  rpc'.op = rpc.op /\ rpc'.state = rpc.state
      BY <1>0, <3>1 DEF Answer, RPCs
    <3>2. ASSUME NEW i \in Ids, NEW n, NEW v, ForeignEdit(i, n, v)
          PROVE  cur' = cur /\ old' = old /\ rpc'.op = rpc.op /\ rpc'.state = rpc.state
      BY <1>0, <3>2 DEF ForeignEdit, RPCs
    <3>3. ASSUME NEW i \in Ids, NEW program, ForeignCreate(i, program) \/ ForeignDelete(i)
          PROVE  cur' = cur /\ old' = old /\ rpc'.op = rpc.op /\ rpc'.state = rpc.state
      BY <3>3 DEF ForeignCreate, ForeignDelete
    <3>4. ASSUME NEW i \in Ids, CloudCreate(i) \/ CloudUpdate(i) \/ CloudRead(i) \/ CloudDelete(i)
          PROVE  cur' = cur /\ old' = old /\ rpc'.op = rpc.op /\ rpc'.state = rpc.state
      BY <3>1, <3>4 DEF CloudCreate, CloudUpdate, CloudRead, CloudDelete
    <3>5. ASSUME NEW i \in Ids, ForeignDelete(i)
          PROVE  cur' = cur /\ old' = old /\ rpc'.op = rpc.op /\ rpc'.state = rpc.state
      BY <3>5 DEF ForeignDelete
    <3> QED BY <1>2, <3>2, <3>3, <3>4, <3>5 DEF Cloud
  <2>2. CurrentState(cur)' = CurrentState(cur)
    BY <2>1 DEF CurrentState
  <2> QED BY <2>1, <2>2 DEF OutputsInv, ReadFromCheckpoint, InSDKNames
<1>3. CASE Handlers
  <2>0. rpc'.op = "none"
    BY <1>3 DEF Handlers, FinishCreate, FinishRead, FinishImport, FinishUpdate, FinishDelete,
       RequestFails, AnswerLost, Idle
  <2>1. CASE FinishCreate
    <3>1. cur' = CreatedResource /\ old' \in {old, cur}
      BY <2>1 DEF FinishCreate
    <3>2. InSDKNames(CreatedResource)
      BY ToSDKNames DEF InSDKNames, CreatedResource
    <3> QED BY <1>i, <2>0, <3>1, <3>2 DEF OutputsInv
  <2>2. CASE FinishRead \/ FinishImport
    <3>1. old' = old /\ \E inputs, stash : cur' = ReadResource(inputs, stash)
      BY <2>2 DEF FinishRead, FinishImport
    <3>2. ASSUME NEW inputs, NEW stash PROVE InSDKNames(ReadResource(inputs, stash))
      BY ReadOutputs, ToSDKNames DEF InSDKNames
    <3> QED BY <1>i, <2>0, <3>1, <3>2 DEF OutputsInv
  <2>3. CASE FinishUpdate
    <3>1. cur \in Resources /\ old' = old
      BY <2>3 DEF FinishUpdate, TypeInv, InFlightOK
    <3>2. cur'.outputs = Empty \/ cur'.outputs = ToSDK(rpc.reply)
      <4> DEFINE outputs == IF api.noContent THEN Empty ELSE ToSDK(rpc.reply)
                 stash   == IF api.noContent THEN Empty ELSE StashOf(rpc.news, Empty)
      <4>1. cur' = [cur EXCEPT !.inputs = rpc.news, !.outputs = outputs, !.stash = stash]
        BY <2>3 DEF FinishUpdate
      <4>2. outputs = Empty \/ outputs = ToSDK(rpc.reply)
        OBVIOUS
      <4> HIDE DEF outputs, stash
      <4> QED BY <3>1, <4>1, <4>2 DEF Resources
    <3>3. \A n \in Keys(cur'.outputs) : APIToSDKNameMap[n] = n
      BY <3>2, ToSDKNames, EmptyInSDKNames
    <3> QED BY <1>i, <2>0, <3>1, <3>3 DEF OutputsInv, InSDKNames
  <2>4. CASE FinishDelete \/ RequestFails \/ AnswerLost
    <3>1. cur' \in {cur, NoResource} /\ old' \in {old, NoResource}
      BY <2>4 DEF FinishDelete, Forget, RequestFails, AnswerLost
    <3> QED BY <1>i, <1>k, <2>0, <3>1
  <2> QED BY <1>3, <2>1, <2>2, <2>3, <2>4 DEF Handlers
<1>4. CASE UNCHANGED vars
  BY <1>4 DEF vars, OutputsInv, InSDKNames, ReadFromCheckpoint, CurrentState
<1> QED BY <1>1, <1>2, <1>3, <1>4 DEF Next

LEMMA OutputsInvariant == Spec => []OutputsInv
<1>1. Init => OutputsInv
  BY DEF Init, OutputsInv, ReadFromCheckpoint, Idle
<1> QED BY <1>1, OutputsStep, TypeInvariant, PTL DEF Spec

\* A step of a call of Read leaves the resource alone, or is its end.
LEMMA OnlyFinishReadWrites ==
    ASSUME rpc.op = "read", [Next]_vars
    PROVE  cur' = cur \/ FinishRead
<1>1. CASE Engine
  BY <1>1 DEF Engine, DeployCreate, DeploySame, DeployUpdate, DeployReplace, StartRead,
     StartImport, StartDelete, DropUndeletable, Configure, ReadyToDeploy
<1>2. CASE Cloud
  BY <1>2 DEF Cloud, CloudCreate, CloudUpdate, CloudRead, CloudDelete,
     ForeignCreate, ForeignDelete, ForeignEdit
<1>3. CASE Handlers
  BY <1>3 DEF Handlers, FinishCreate, FinishRead, FinishImport, FinishUpdate, FinishDelete,
     RequestFails, AnswerLost
<1>4. CASE UNCHANGED vars
  BY <1>4 DEF vars
<1> QED BY <1>1, <1>2, <1>3, <1>4 DEF Next

\* A refresh never loses an output, for every API, engine and history: what
\* the answer does not repeat stays in the state, and the renaming drops
\* nothing that has its SDK name (Read: "make sure that the original output
\* properties still remain in the state").
THEOREM RefreshKeeps == Spec => RefreshKeepsOutputs
<1>1. ASSUME TypeInv, OutputsInv, [Next]_vars, rpc.op = "read"
      PROVE  Keys(cur.outputs) \subseteq Keys(cur'.outputs)
  <2>1. CASE cur' = cur
    BY <2>1
  <2>2. CASE FinishRead
    <3> SUFFICES ASSUME NEW n \in Keys(cur.outputs) PROVE n \in Keys(cur'.outputs)
      OBVIOUS
    <3> DEFINE merged == ApplyDiffFromCloudProvider(rpc.reply, rpc.state)
    <3>1. n \in Names /\ cur.outputs[n] # Absent /\ Keys(cur.outputs) # {}
      BY DEF Keys
    <3>2. cur \in Resources /\ cur # NoResource /\ cur.outputs \in PropMaps
      BY <1>1, <2>2, ProviderAssumption DEF FinishRead, TypeInv, InFlightOK, Resources
    <3>3. APIToSDKNameMap[n] = n
      BY <1>1, <3>2 DEF OutputsInv, InSDKNames
    <3>4. rpc.state[n] # Absent
      <4>1. rpc.state = CurrentState(cur)
        BY <1>1 DEF OutputsInv, ReadFromCheckpoint
      <4>2. cur.id # Absent
        BY <3>2, ProviderAssumption DEF Resources
      <4> QED BY <3>1, <3>2, <4>1, <4>2 DEF CurrentState, PropMaps
    <3>5. merged[n] # Absent
      BY <3>1, <3>4, ApplyDiffIsOverwrite
    <3> HIDE DEF merged
    <3>6. n \in Keys(ToSDK(merged))
      BY <3>1, <3>3, <3>5, ToSDKDropsNothing
    <3>7. cur'.outputs = ToSDK(merged)
      BY <2>2, ReadOutputs DEF FinishRead, merged
    <3> QED BY <3>6, <3>7
  <2> QED BY <1>1, <2>1, <2>2, OnlyFinishReadWrites
<1>2. TypeInv /\ OutputsInv /\ [Next]_vars
         => [rpc.op = "read" => Keys(cur.outputs) \subseteq Keys(cur'.outputs)]_vars
  BY <1>1
<1> QED BY <1>2, TypeInvariant, OutputsInvariant, PTL DEF Spec, RefreshKeepsOutputs

-----------------------------------------------------------------------------
(* The inputs and their names. *)

\* The checkpoint has no other inputs: what is not there cannot be missed.
InputsInv ==
    /\ \A r \in {cur, old} \ {NoResource} : Keys(r.inputs) \subseteq InputNames
    /\ Keys(rpc.news) \subseteq InputNames

-----------------------------------------------------------------------------
(* Check, Read and the inputs they leave. *)

\* Check leaves a program's properties alone but the one it names itself.
CheckedValue(program, olds, n, value) ==
    IF n = api.autoName /\ program[n] = Absent
    THEN value \in IF olds[n] # Absent THEN {olds[n]} ELSE Values
    ELSE value = program[n]

LEMMA CheckedNames ==
    ASSUME GivesInputs(api), api \in APIs, NEW program \in Programs, NEW olds \in PropMaps,
           NEW news \in CheckedInputs(program, olds)
    PROVE  /\ Keys(news) \subseteq InputNames
           /\ \A n \in Names : CheckedValue(program, olds, n, news[n])
<1>1. /\ program \in [Names -> Values \cup {Absent}]
      /\ Keys(program) \subseteq InputNames /\ Absent \notin Names
  BY ProviderAssumption, NamesAssumption DEF InputNames
<1>2. api.autoName \in BodyNames \cup {Absent}
  BY DEF GivesInputs
<1>3. CASE api.autoName = Absent \/ program[api.autoName] # Absent
  <2>1. news = program
    BY <1>3 DEF CheckedInputs
  <2>2. ASSUME NEW n \in Names, n = api.autoName PROVE program[n] # Absent
    BY <1>1, <1>3, <2>2
  <2> QED BY <1>1, <2>1, <2>2 DEF CheckedValue
<1>4. CASE api.autoName # Absent /\ program[api.autoName] = Absent
  <2>1. api.autoName \in BodyNames /\ api.autoName \in Names
    BY <1>2, <1>4, ProviderAssumption
  <2>2. PICK name \in IF olds[api.autoName] # Absent THEN {olds[api.autoName]} ELSE Values :
              news = [program EXCEPT ![api.autoName] = name]
    BY <1>4 DEF CheckedInputs
  <2>3. /\ news[api.autoName] = name
        /\ \A n \in Names \ {api.autoName} : news[n] = program[n]
    BY <1>1, <2>1, <2>2
  <2>4. Keys(news) \subseteq InputNames
    BY <1>1, <2>1, <2>3 DEF Keys, InputNames
  <2> QED BY <1>4, <2>1, <2>2, <2>3, <2>4 DEF CheckedValue
<1> QED BY <1>3, <1>4

LEMMA ReadInputNames ==
    ASSUME GivesInputs(api), api \in APIs, NEW inputs, Keys(inputs) \subseteq InputNames
    PROVE  Keys(ReadInputs(inputs)) \subseteq InputNames
<1> DEFINE writable == FilterReadOnlyProperties(rpc.reply, api.createSchema)
           newState == ToSDK(writable)
<1>1. CASE Keys(inputs) # {}
  BY <1>1 DEF ReadInputs, Keys
<1>2. CASE Keys(inputs) = {}
  <2>1. ReadInputs(inputs) = newState
    BY <1>2 DEF ReadInputs
  <2>2. ASSUME NEW k \in Names, writable[k] # Absent
        PROVE  APIToSDKNameMap[k] \in InputNames
    BY <2>2 DEF FilterReadOnlyProperties, GivesInputs
  <2> HIDE DEF writable
  <2>3. ASSUME NEW n \in Keys(newState) PROVE n \in InputNames
    <3>1. n \in Names /\ newState[n] # Absent
      BY DEF Keys
    <3>2. CASE MovedTo(writable, APIToSDKNameMap, n) # {}
      BY <2>2, <3>2 DEF MovedTo, Keys
    <3>3. CASE MovedTo(writable, APIToSDKNameMap, n) = {}
      <4>1. APIToSDKNameMap[n] = n /\ writable[n] # Absent
        BY <3>1, <3>3 DEF ToSDK, TransformBody
      <4> QED BY <2>2, <3>1, <4>1
    <3> QED BY <3>2, <3>3
  <2> QED BY <2>1, <2>3
<1> QED BY <1>1, <1>2

-----------------------------------------------------------------------------
(* Diff. *)

\* Diff asks for an update or a replacement only if a body property or a path
\* parameter that the inputs have differs.
LEMMA DiffHasCause ==
    ASSUME engineSendsOldInputs, NEW r, NEW news,
           Keys(r.inputs) \subseteq InputNames, Keys(news) \subseteq InputNames,
           Diff(r, news) \cap {"update", "replace"} # {}
    PROVE  \/ \E n \in BodyNames : news[n] # r.inputs[n]
           \/ \E n \in ScopeNames : r.inputs[n] \notin {Absent, news[n]}
<1> SUFFICES ASSUME \A n \in BodyNames : news[n] = r.inputs[n],
                    \A n \in ScopeNames : r.inputs[n] \in {Absent, news[n]}
             PROVE  FALSE
  OBVIOUS
<1>1. SentOldInputs(r) = r.inputs
  BY DEF SentOldInputs
<1>2. Deletes(r.inputs, news) \cup Updates(r.inputs, news) = {}
  <2>1. ASSUME NEW n \in Deletes(r.inputs, news) \cup Updates(r.inputs, news) PROVE FALSE
    <3>1. n \in Names /\ r.inputs[n] # Absent /\ news[n] # r.inputs[n] /\ n \in Keys(r.inputs)
      BY <2>1 DEF Deletes, Updates, Keys
    <3>2. n \in BodyNames \/ n \in ScopeNames
      BY <3>1 DEF InputNames
    <3> QED BY <3>1, <3>2
  <2> QED BY <2>1
<1>3. OnlyAdditions(r.inputs, news)
  BY <1>2 DEF OnlyAdditions
<1>4. ASSUME NEW n \in Adds(r.inputs, news)
      PROVE  n \in {PathParamNameMap[p] : p \in DOMAIN DiffTarget(r, news)}
  <2>1. n \in Names /\ news[n] # Absent /\ r.inputs[n] = Absent /\ n \in Keys(news)
    BY DEF Adds, Keys
  <2>2. n \in ScopeNames
    BY <2>1 DEF InputNames
  <2>3. PICK p \in ScopeParams : n = PathParamNameMap[p]
    BY <2>2 DEF ScopeNames
  <2>4. ScopeParams \subseteq DOMAIN DiffTarget(r, news)
    BY DEF DiffTarget, PathParamsMap, ItemParams
  <2> QED BY <2>3, <2>4
<1>5. AdditionsArePathParams(r, r.inputs, news)
  BY <1>3, <1>4 DEF AdditionsArePathParams
<1>6. Diff(r, news) \subseteq {"none", "error"}
  BY <1>1, <1>5 DEF Diff
<1> QED BY <1>6

-----------------------------------------------------------------------------
(* The invariant. *)

LEMMA InputsInit == Init => InputsInv
BY DEF Init, InputsInv, Idle, Keys, Empty

\* What a step of the engine puts in flight.
LEMMA SentNews ==
    ASSUME NEW op, NEW on, NEW target, NEW body, NEW state, NEW news,
           Send(op, on, target, body, state, news)
    PROVE  rpc'.op = op /\ rpc'.news = news
BY DEF Send, Idle

LEMMA NoNews == Keys(Empty) = {} /\ Keys(Idle.news) = {}
BY DEF Keys, Empty, Idle

LEMMA InputsStep ==
    ASSUME \A a \in APIs : GivesInputs(a), TypeInv, InputsInv, [Next]_vars
    PROVE  InputsInv'
<1>0. /\ api \in APIs /\ api \in APIType /\ rpc \in RPCs
      /\ cur \in Resources \cup {NoResource} /\ NoResource \notin Resources
      /\ GivesInputs(api) /\ Empty \in PropMaps
  BY ProviderAssumption, EmptyType DEF TypeInv, TypeOK, InputsInv, Resources
<1>k. ASSUME Keys(rpc'.news) \subseteq InputNames,
             cur' \in {cur, NoResource}, old' \in {old, cur, NoResource}
      PROVE  InputsInv'
  BY <1>k DEF InputsInv
<1>1. CASE Engine
  <2>1. ASSUME NEW program \in Programs, NEW olds \in PropMaps, NEW op, NEW news, NEW on, NEW target,
               NEW body, NEW state,
               news \in CheckedInputs(program, olds), Send(op, on, target, body, state, news),
               UNCHANGED <<config, cur, old>>
        PROVE  InputsInv'
    <3>1. Keys(rpc'.news) \subseteq InputNames
      BY <1>0, <2>1, SentNews, CheckedNames
    <3> QED BY <1>0, <1>k, <2>1, <3>1 DEF config
  <2>2. ASSUME NEW program \in Programs, DeployCreate(program) \/ DeployReplace(program)
        PROVE  InputsInv'
    <3>1. PICK news \in CheckedInputs(program, Empty), op \in {"create", "replace"} : SendCreate(op, news)
      BY <2>2 DEF DeployCreate, DeployReplace
    <3>2. UNCHANGED <<config, cur, old>>
      BY <2>2 DEF DeployCreate, DeployReplace
    <3> QED BY <1>0, <2>1, <3>1, <3>2 DEF SendCreate
  <2>3. ASSUME NEW program \in Programs, DeployUpdate(program) PROVE InputsInv'
    <3>1. cur \in Resources /\ cur.inputs \in PropMaps
      BY <1>0, <2>3 DEF DeployUpdate, ReadyToDeploy, Resources
    <3>2. UNCHANGED <<config, cur, old>>
      BY <2>3 DEF DeployUpdate
    <3>3. PICK news \in CheckedInputs(program, cur.inputs) :
              Send("update", "cur", UpdateTarget(cur), UpdateBody(cur, news), Empty, news)
      BY <2>3 DEF DeployUpdate
    <3> QED BY <2>1, <3>1, <3>2, <3>3
  <2>4. ASSUME NEW program \in Programs, DeploySame(program) PROVE InputsInv'
    <3>1. /\ cur \in Resources /\ cur.inputs \in PropMaps /\ cur # NoResource
          /\ UNCHANGED <<config, old, rpc>>
      BY <1>0, <2>4 DEF DeploySame, ReadyToDeploy, Resources
    <3>2. PICK news \in CheckedInputs(program, cur.inputs) : cur' = [cur EXCEPT !.inputs = news]
      BY <2>4 DEF DeploySame
    <3>3. cur'.inputs = news
      BY <3>1, <3>2 DEF Resources
    <3>4. Keys(news) \subseteq InputNames
      BY <1>0, <3>1, CheckedNames
    <3> QED BY <1>0, <3>1, <3>3, <3>4 DEF InputsInv, config
  <2>5. ASSUME StartRead \/ (\E i \in Ids : StartImport(i))
               \/ (\E on \in {"cur", "old"} : StartDelete(on))
        PROVE  InputsInv'
    <3>1. UNCHANGED <<config, cur, old>> /\ rpc'.news = Empty
      BY <2>5, SentNews DEF StartRead, StartImport, StartDelete
    <3> QED BY <1>0, <1>k, <3>1, NoNews DEF config
  <2>6. ASSUME NEW on, DropUndeletable(on) PROVE InputsInv'
    BY <1>0, <1>k, <2>6 DEF DropUndeletable, Forget, config, InputsInv
  <2>7. ASSUME NEW engine \in Engines, Configure(engine) PROVE InputsInv'
    BY <1>k, <2>7 DEF Configure, InputsInv
  <2> QED BY <1>1, <2>2, <2>3, <2>4, <2>5, <2>6, <2>7 DEF Engine
<1>2. CASE Cloud
  <2>1. UNCHANGED <<config, cur, old>> /\ rpc'.news = rpc.news
    <3>1. ASSUME NEW i, NEW o, NEW fresh, Answer(i, o, fresh) PROVE rpc'.news = rpc.news
      BY <1>0, <3>1 DEF Answer, RPCs
    <3>2. ASSUME NEW i \in Ids, NEW n, NEW v, ForeignEdit(i, n, v)
          PROVE  UNCHANGED <<config, cur, old>> /\ rpc'.news = rpc.news
      BY <1>0, <3>2 DEF ForeignEdit, RPCs
    <3>3. ASSUME NEW i \in Ids, NEW program, ForeignCreate(i, program)
          PROVE  UNCHANGED <<config, cur, old>> /\ rpc'.news = rpc.news
      BY <3>3 DEF ForeignCreate
    <3>4. ASSUME NEW i \in Ids, CloudCreate(i) \/ CloudUpdate(i) \/ CloudRead(i) \/ CloudDelete(i)
          PROVE  UNCHANGED <<config, cur, old>> /\ rpc'.news = rpc.news
      BY <3>1, <3>4 DEF CloudCreate, CloudUpdate, CloudRead, CloudDelete
    <3>5. ASSUME NEW i \in Ids, ForeignDelete(i)
          PROVE  UNCHANGED <<config, cur, old>> /\ rpc'.news = rpc.news
      BY <3>5 DEF ForeignDelete
    <3> QED BY <1>2, <3>2, <3>3, <3>4, <3>5 DEF Cloud
  <2> QED BY <1>0, <1>k, <2>1 DEF InputsInv, config
<1>3. CASE Handlers
  <2>0. Keys(rpc'.news) \subseteq InputNames
    BY <1>0, <1>3, NoNews DEF Handlers, FinishCreate, FinishRead, FinishImport, FinishUpdate,
       FinishDelete, RequestFails, AnswerLost, config
  <2>i. ASSUME Keys(cur'.inputs) \subseteq InputNames, old' \in {old, cur} PROVE InputsInv'
    BY <2>0, <2>i DEF InputsInv
  <2>1. CASE FinishCreate
    <3>1. cur' = CreatedResource /\ old' \in {old, cur}
      BY <2>1 DEF FinishCreate
    <3> QED BY <2>i, <3>1 DEF CreatedResource, InputsInv
  <2>2. CASE FinishRead \/ FinishImport
    <3>1. PICK inputs, stash : cur' = ReadResource(inputs, stash) /\ Keys(inputs) \subseteq InputNames
      <4>1. CASE FinishRead
        <5>1. cur \in Resources /\ cur # NoResource
          BY <4>1, <1>0 DEF FinishRead, TypeInv, InFlightOK
        <5> QED BY <4>1, <5>1 DEF FinishRead, InputsInv
      <4>2. CASE FinishImport
        BY <4>2, NoNews DEF FinishImport
      <4> QED BY <2>2, <4>1, <4>2
    <3>2. cur'.inputs = ReadInputs(inputs)
      BY <3>1 DEF ReadResource
    <3>3. Keys(ReadInputs(inputs)) \subseteq InputNames
      BY <1>0, <3>1, ReadInputNames
    <3> QED BY <2>i, <2>2, <3>2, <3>3 DEF FinishRead, FinishImport
  <2>3. CASE FinishUpdate
    <3>1. cur \in Resources /\ old' = old
      BY <2>3 DEF FinishUpdate, TypeInv, InFlightOK
    <3>2. cur'.inputs = rpc.news
      BY <2>3, <3>1 DEF FinishUpdate, Resources
    <3> QED BY <2>i, <3>1, <3>2 DEF InputsInv
  <2>4. CASE FinishDelete \/ RequestFails \/ AnswerLost
    <3>1. cur' \in {cur, NoResource} /\ old' \in {old, NoResource}
      BY <2>4 DEF FinishDelete, Forget, RequestFails, AnswerLost
    <3> QED BY <1>k, <2>0, <3>1
  <2> QED BY <1>3, <2>1, <2>2, <2>3, <2>4 DEF Handlers
<1>4. CASE UNCHANGED vars
  BY <1>4 DEF vars, InputsInv
<1> QED BY <1>1, <1>2, <1>3, <1>4 DEF Next

LEMMA InputsInvariant == (\A a \in APIs : GivesInputs(a)) => (Spec => []InputsInv)
<1> SUFFICES ASSUME \A a \in APIs : GivesInputs(a) PROVE Spec => []InputsInv
  OBVIOUS
<1>1. Init => InputsInv
  BY InputsInit
<1>2. TypeInv /\ InputsInv /\ [Next]_vars => InputsInv'
  BY InputsStep
<1> QED BY <1>1, <1>2, TypeInvariant, PTL DEF Spec

LEMMA OnlyConfigures ==
    ASSUME [Next]_vars
    PROVE  (\E engine \in Engines : Configure(engine)) \/ UNCHANGED engineSendsOldInputs
<1>1. CASE Engine
  BY <1>1 DEF Engine, DeployCreate, DeploySame, DeployUpdate, DeployReplace, StartRead,
     StartImport, StartDelete, DropUndeletable, config
<1>2. CASE Cloud
  BY <1>2 DEF Cloud, CloudCreate, CloudUpdate, CloudRead, CloudDelete,
     ForeignCreate, ForeignDelete, ForeignEdit, config
<1>3. CASE Handlers
  BY <1>3 DEF Handlers, FinishCreate, FinishRead, FinishImport, FinishUpdate, FinishDelete,
     RequestFails, AnswerLost, config
<1>4. CASE UNCHANGED vars
  BY <1>4 DEF vars
<1> QED BY <1>1, <1>2, <1>3, <1>4 DEF Next

\* The provider knows no more of its engine than Configure told it.
LEMMA AlwaysModern == ModernEngines => (Spec => []engineSendsOldInputs)
<1> SUFFICES ASSUME ModernEngines PROVE Spec => []engineSendsOldInputs
  OBVIOUS
<1>1. Init => engineSendsOldInputs
  BY DEF Init, ModernEngines
<1>2. ASSUME engineSendsOldInputs, [Next]_vars PROVE engineSendsOldInputs'
  <2>1. CASE \E engine \in Engines : Configure(engine)
    BY <2>1 DEF Configure, ModernEngines
  <2>2. CASE UNCHANGED engineSendsOldInputs
    BY <1>2, <2>2
  <2> QED BY <1>2, <2>1, <2>2, OnlyConfigures
<1> QED BY <1>1, <1>2, PTL DEF Spec

-----------------------------------------------------------------------------
(* The theorem. *)

Cause(news) ==
    \/ \E n \in BodyNames : news[n] # cur.inputs[n]
    \/ CreateTarget(news) # [p \in ScopeParams |-> cloud[cur.id].scope[p]]
    \/ \E n \in ScopeNames : cur.inputs[n] \notin {Absent, news[n]}

\* Nothing else starts an update or a replacement.
LEMMA OnlyDeploysStart ==
    ASSUME TypeInv, [Next]_vars, rpc.op = "none", rpc'.op \in {"update", "replace"}
    PROVE  \E program \in Programs : DeployUpdate(program) \/ DeployReplace(program)
<1>0. rpc \in RPCs
  BY DEF TypeInv, TypeOK
<1>1. CASE Engine
  <2>1. ~(\E program \in Programs : DeployCreate(program) \/ DeploySame(program))
    <3>1. ASSUME NEW program \in Programs, DeployCreate(program) PROVE FALSE
      <4>1. PICK news \in CheckedInputs(program, Empty) : SendCreate("create", news)
        BY <3>1 DEF DeployCreate
      <4>2. rpc'.op = "create"
        BY <4>1, SentNews DEF SendCreate
      <4> QED BY <4>2
    <3>2. ASSUME NEW program \in Programs, DeploySame(program) PROVE FALSE
      BY <3>2 DEF DeploySame
    <3> QED BY <3>1, <3>2
  <2>2. ~StartRead /\ ~(\E i \in Ids : StartImport(i))
    BY SentNews DEF StartRead, StartImport
  <2>3. ~(\E on \in {"cur", "old"} : StartDelete(on) \/ DropUndeletable(on))
    BY SentNews DEF StartDelete, DropUndeletable
  <2>4. ~(\E engine \in Engines : Configure(engine))
    BY DEF Configure
  <2> QED BY <1>1, <2>1, <2>2, <2>3, <2>4 DEF Engine
<1>2. CASE Cloud
  <2>1. rpc'.op = rpc.op
    <3>1. ASSUME NEW i, NEW o, NEW fresh, Answer(i, o, fresh) PROVE rpc'.op = rpc.op
      BY <1>0, <3>1 DEF Answer, RPCs
    <3>2. ASSUME NEW i \in Ids, NEW n, NEW v, ForeignEdit(i, n, v) PROVE rpc'.op = rpc.op
      BY <1>0, <3>2 DEF ForeignEdit, RPCs
    <3>3. ASSUME NEW i \in Ids, NEW program, ForeignCreate(i, program) PROVE rpc'.op = rpc.op
      BY <3>3 DEF ForeignCreate
    <3>4. ASSUME NEW i \in Ids, CloudCreate(i) \/ CloudUpdate(i) \/ CloudRead(i) \/ CloudDelete(i)
          PROVE  rpc'.op = rpc.op
      BY <3>1, <3>4 DEF CloudCreate, CloudUpdate, CloudRead, CloudDelete
    <3>5. ASSUME NEW i \in Ids, ForeignDelete(i) PROVE rpc'.op = rpc.op
      BY <3>5 DEF ForeignDelete
    <3> QED BY <1>2, <3>2, <3>3, <3>4, <3>5 DEF Cloud
  <2> QED BY <2>1
<1>3. CASE Handlers
  BY <1>3 DEF Handlers, FinishCreate, FinishRead, FinishImport, FinishUpdate, FinishDelete,
     RequestFails, AnswerLost, Idle
<1>4. CASE UNCHANGED vars
  BY <1>4 DEF vars
<1> QED BY <1>1, <1>2, <1>3, <1>4 DEF Next

\* The inputs that a replacement is created with have the cause that Diff saw,
\* even if Check makes up another name for them.
LEMMA ReplaceHasCause ==
    ASSUME \A a \in APIs : GivesInputs(a), engineSendsOldInputs, TypeInv, InputsInv,
           NEW program \in Programs,
           cur \in Resources, cur # NoResource,
           NEW seen \in CheckedInputs(program, cur.inputs), "replace" \in Diff(cur, seen),
           NEW news \in CheckedInputs(program, Empty)
    PROVE  Cause(news)
<1>1. api \in APIs /\ cur.inputs \in PropMaps /\ Empty \in PropMaps
  BY EmptyType DEF TypeInv, TypeOK, Resources
<1>2. /\ Keys(seen) \subseteq InputNames
      /\ \A n \in Names : CheckedValue(program, cur.inputs, n, seen[n])
  BY <1>1, CheckedNames
<1>3. \A n \in Names : CheckedValue(program, Empty, n, news[n])
  BY <1>1, CheckedNames
<1>4. BodyNames \subseteq Names /\ ScopeNames \subseteq Names /\ BodyNames \cap ScopeNames = {}
  BY ProviderAssumption, ParamsAssumption DEF ScopeNames, ItemParams
<1>5. \/ \E n \in BodyNames : seen[n] # cur.inputs[n]
      \/ \E n \in ScopeNames : cur.inputs[n] \notin {Absent, seen[n]}
  BY <1>2, DiffHasCause DEF InputsInv
<1>6. ASSUME NEW n \in ScopeNames, cur.inputs[n] \notin {Absent, seen[n]} PROVE Cause(news)
  <2>1. n \in Names /\ n # api.autoName
    BY <1>1, <1>4, NamesAssumption DEF GivesInputs
  <2>2. seen[n] = program[n] /\ news[n] = program[n]
    BY <1>2, <1>3, <2>1 DEF CheckedValue
  <2> QED BY <1>6, <2>2 DEF Cause
<1>7. ASSUME NEW n \in BodyNames, seen[n] # cur.inputs[n] PROVE Cause(news)
  <2>1. n \in Names /\ Empty[n] = Absent
    BY <1>4 DEF Empty
  <2>2. CASE n = api.autoName /\ program[n] = Absent
    <3>1. cur.inputs[n] = Absent
      BY <1>2, <1>7, <2>1, <2>2 DEF CheckedValue
    <3>2. news[n] \in Values
      BY <1>3, <2>1, <2>2 DEF CheckedValue
    <3> QED BY <3>1, <3>2, ProviderAssumption DEF Cause
  <2>3. CASE ~(n = api.autoName /\ program[n] = Absent)
    <3>1. seen[n] = program[n] /\ news[n] = program[n]
      BY <1>2, <1>3, <2>1, <2>3 DEF CheckedValue
    <3> QED BY <1>7, <3>1 DEF Cause
  <2> QED BY <2>2, <2>3
<1> QED BY <1>5, <1>6, <1>7

\* Whatever was created, imported, refreshed or replaced before, the engine
\* starts an update or a replacement only if a body property differs from the
\* checkpoint's inputs, or the program asks for another path than the object's
\* or than the one it asked for before.
THEOREM UpdatesHaveCause == DiffCircumstances => (Spec => OnlyForCause)
<1> SUFFICES ASSUME DiffCircumstances PROVE Spec => OnlyForCause
  OBVIOUS
<1>0. \A a \in APIs : GivesInputs(a)
  BY DEF DiffCircumstances
<1>1. ASSUME TypeInv, InputsInv, engineSendsOldInputs, [Next]_vars, rpc.op = "none", rpc'.op \in {"update", "replace"}
      PROVE  Cause(rpc'.news)
  <2>1. \E program \in Programs : DeployUpdate(program) \/ DeployReplace(program)
    BY <1>1, OnlyDeploysStart
  <2>2. cur \in Resources /\ cur # NoResource /\ cur.inputs \in PropMaps /\ api \in APIs
    BY <1>1, <2>1 DEF DeployUpdate, DeployReplace, ReadyToDeploy, TypeInv, TypeOK, Resources
  <2>3. ASSUME NEW program \in Programs, DeployUpdate(program) PROVE Cause(rpc'.news)
    <3>1. PICK news \in CheckedInputs(program, cur.inputs) :
              /\ "update" \in Diff(cur, news)
              /\ Send("update", "cur", UpdateTarget(cur), UpdateBody(cur, news), Empty, news)
      BY <2>3 DEF DeployUpdate
    <3>2. rpc'.news = news
      BY <3>1, SentNews
    <3>3. Keys(news) \subseteq InputNames
      BY <1>0, <2>2, CheckedNames
    <3> QED BY <1>1, <2>2, <3>1, <3>2, <3>3, DiffHasCause DEF Cause, InputsInv
  <2>4. ASSUME NEW program \in Programs, DeployReplace(program) PROVE Cause(rpc'.news)
    <3>1. PICK seen \in CheckedInputs(program, cur.inputs) : "replace" \in Diff(cur, seen)
      BY <2>4 DEF DeployReplace
    <3>2. PICK news \in CheckedInputs(program, Empty) : SendCreate("replace", news)
      BY <2>4 DEF DeployReplace
    <3>3. rpc'.news = news
      BY <3>2, SentNews DEF SendCreate
    <3> QED BY <1>0, <1>1, <2>2, <3>1, <3>3, ReplaceHasCause
  <2> QED BY <2>1, <2>3, <2>4
<1>2. TypeInv /\ InputsInv /\ engineSendsOldInputs /\ [Next]_vars
         => [rpc.op = "none" /\ rpc'.op \in {"update", "replace"} =>
                \/ \E n \in BodyNames : rpc'.news[n] # cur.inputs[n]
                \/ CreateTarget(rpc'.news) # [p \in ScopeParams |-> cloud[cur.id].scope[p]]
                \/ \E n \in ScopeNames : cur.inputs[n] \notin {Absent, rpc'.news[n]}]_vars
  BY <1>1 DEF Cause
<1>3. ModernEngines
  BY DEF DiffCircumstances
<1> QED BY <1>0, <1>2, <1>3, TypeInvariant, InputsInvariant, AlwaysModern, PTL DEF Spec, OnlyForCause

=============================================================================
