----------------------- MODULE ProviderOwnershipProofs -----------------------
(***************************************************************************)
(* Provider implements Ownership, and therefore forgets no object, in the  *)
(* circumstances of ProviderInv.                                           *)
(***************************************************************************)
EXTENDS ProviderOwnership, ProviderOwnProofs

-----------------------------------------------------------------------------
(* What every step of Ownership preserves, under the mapping. *)

LEMMA MappingTypes ==
    ASSUME TypeInv
    PROVE  /\ Life \in [Ids -> {"none", "live", "gone"}]
           /\ Content \in [Ids -> PropMaps]
           /\ Held \subseteq Ids
           /\ InHand \in Ids \cup {Absent}
           /\ untracked \subseteq Ids
<1>1. cloud \in [Ids -> Objects] /\ \A i \in Ids : cloud[i] \in Objects
  BY DEF TypeInv, TypeOK
<1>2. Life \in [Ids -> {"none", "live", "gone"}]
  BY <1>1 DEF Life, Objects
<1>3. Content \in [Ids -> PropMaps]
  BY <1>1 DEF Content, Objects
<1>4. Held \subseteq Ids
  BY DEF Held, TypeInv, TypeOK, Resources
<1>5. InHand \in Ids \cup {Absent} /\ untracked \subseteq Ids
  BY DEF InHand, TypeInv, TypeOK, InFlightOK
<1> QED BY <1>2, <1>3, <1>4, <1>5

\* What the checkpoint and the answer in flight hold has been made.
LEMMA HeldWasMade ==
    ASSUME TypeInv, OwnInv
    PROVE  /\ \A i \in Held : Life[i] # "none"
           /\ InHand # Absent => Life[InHand] # "none"
<1>1. ASSUME NEW r \in {cur, old} \ {NoResource} PROVE r.id \in Ids /\ cloud[r.id].state # "none"
  BY <1>1 DEF OwnInv, Tracks, TracksIn, TypeInv, TypeOK, Resources
<1>2. ASSUME InHand # Absent PROVE InHand \in Ids /\ cloud[InHand].state # "none"
  BY <1>2 DEF InHand, OwnInv, CreateInFlight, ReplyAbout, AboutIn, TypeInv, InFlightOK
<1> QED BY <1>1, <1>2 DEF Held, Life

Accounted == \A i \in Ids : Life[i] = "live" => i \in untracked \cup Held \cup {InHand}

LEMMA AccountedIsNotForgotten ==
    ASSUME TypeInv PROVE Accounted <=> NoForgottenObject
<1>1. \A i \in Ids : i \in Held <=> \E r \in {cur, old} \ {NoResource} : r.id = i
  BY DEF Held
<1>2. \A i \in Ids : i = InHand <=>
          rpc.phase = "answered" /\ rpc.op \in {"create", "replace"} /\ rpc.reply[Id] = i
  BY ProviderAssumption DEF InHand
<1> QED BY <1>1, <1>2 DEF Accounted, NoForgottenObject, Life

LEMMA OwnerStepKeeps ==
    ASSUME TypeInv, TypeInv', OwnInv, Accounted, HandIsNew, [Owner!Next]_(Owner!vars)
    PROVE  /\ Accounted' /\ HandIsNew'
           /\ \A i \in Ids : Life[i] = "gone" => Life'[i] = "gone"
<1>0. /\ Life \in [Ids -> {"none", "live", "gone"}] /\ Held \subseteq Ids
      /\ InHand \in Ids \cup {Absent} /\ Absent \notin Ids
      /\ \A i \in Held : Life[i] # "none"
      /\ InHand # Absent => Life[InHand] # "none"
  BY MappingTypes, HeldWasMade, ProviderAssumption
<1>1. ASSUME NEW i \in Ids,
             Owner!Make(i) \/ Owner!Change(i) \/ Owner!Destroy(i) \/ Owner!Release(i)
      PROVE  /\ Accounted' /\ HandIsNew'
             /\ \A k \in Ids : Life[k] = "gone" => Life'[k] = "gone"
  BY <1>0, <1>1 DEF Owner!Make, Owner!Change, Owner!Destroy, Owner!Release, Accounted, HandIsNew
<1>2. ASSUME NEW i \in Ids,
             Owner!Abandon(i) \/ Owner!Adopt(i) \/ Owner!Appear(i) \/ Owner!Meddle(i)
      PROVE  /\ Accounted' /\ HandIsNew'
             /\ \A k \in Ids : Life[k] = "gone" => Life'[k] = "gone"
  BY <1>0, <1>2 DEF Owner!Abandon, Owner!Adopt, Owner!Appear, Owner!Meddle, Accounted, HandIsNew
<1>3. CASE Owner!Keep \/ Owner!Lose
  BY <1>0, <1>3 DEF Owner!Keep, Owner!Lose, Accounted, HandIsNew
<1>4. CASE UNCHANGED Owner!vars
  BY <1>0, <1>4 DEF Owner!vars, Accounted, HandIsNew
<1> QED BY <1>1, <1>2, <1>3, <1>4 DEF Owner!Next

-----------------------------------------------------------------------------
(* Every step of Provider is a step of Ownership, or none. *)

LEMMA SameForOwner ==
    ASSUME Held' = Held, cloud' = cloud, untracked' = untracked, InHand' = InHand
    PROVE  UNCHANGED Owner!vars
BY DEF Owner!vars, Life, Content

LEMMA NoHand ==
    ASSUME rpc.phase # "answered" \/ rpc.op \notin {"create", "replace"}
    PROVE  InHand = Absent
BY DEF InHand

\* What Forget leaves in the checkpoint.
LEMMA ForgetReleases ==
    ASSUME HeldApart, NEW on \in {"cur", "old"}, Slot(on) # NoResource, Forget(on)
    PROVE  Held' = Held \ {Slot(on).id} /\ Slot(on).id \in Held
BY DEF HeldApart, Slot, Forget, Held

\* DIFF_NONE leaves the resource the one it was.
LEMMA SameIsSame ==
    ASSUME TypeInv, NEW program \in Programs, DeploySame(program)
    PROVE  cur' # NoResource /\ cur'.id = cur.id
<1>1. cur \in Resources /\ cur.inputs \in PropMaps /\ api \in APIType
  BY ProviderAssumption DEF DeploySame, TypeInv, TypeOK, Resources
<1>2. PICK news \in CheckedInputs(program, cur.inputs) : cur' = [cur EXCEPT !.inputs = news]
  BY DEF DeploySame
<1>3. news \in PropMaps
  BY <1>1, CheckedInputsType
<1>4. cur' \in Resources /\ cur'.id = cur.id
  BY <1>1, <1>2, <1>3 DEF Resources
<1> QED BY <1>4, ProviderAssumption DEF Resources

LEMMA EngineIsOwner ==
    ASSUME TypeInv, OwnershipInv, Engine
    PROVE  [Owner!Next]_(Owner!vars)
<1>0. cur \in Resources \cup {NoResource} /\ NoResource \notin Resources
  BY ProviderAssumption DEF TypeInv, TypeOK, Resources
<1>1. ASSUME rpc.op = "none", rpc'.phase = "sent", UNCHANGED <<cur, old, cloud, untracked>>
      PROVE  UNCHANGED Owner!vars
  BY <1>1, SameForOwner DEF Held, InHand
<1>2. ASSUME NEW op, NEW on, NEW target, NEW body, NEW state, NEW news,
             Send(op, on, target, body, state, news)
      PROVE  rpc'.phase = "sent"
  BY <1>2 DEF Send, Idle
<1>3. ASSUME NEW program, DeployCreate(program) \/ DeployUpdate(program) \/ DeployReplace(program)
      PROVE  UNCHANGED Owner!vars
  <2>1. rpc.op = "none" /\ UNCHANGED <<cur, old, cloud, untracked>>
    BY <1>3 DEF DeployCreate, DeployUpdate, DeployReplace, ReadyToDeploy, history
  <2>2. rpc'.phase = "sent"
    BY <1>2, <1>3 DEF DeployCreate, DeployUpdate, DeployReplace, SendCreate
  <2> QED BY <1>1, <2>1, <2>2
<1>4. ASSUME NEW program \in Programs, DeploySame(program)
      PROVE  UNCHANGED Owner!vars
  <2>1. /\ cur # NoResource /\ old' = old /\ rpc' = rpc /\ cloud' = cloud /\ untracked' = untracked
    BY <1>4 DEF DeploySame, history
  <2>2. cur' # NoResource /\ cur'.id = cur.id
    BY <1>0, <1>4, SameIsSame
  <2> QED BY <2>1, <2>2, SameForOwner DEF Held, InHand
<1>5. ASSUME StartRead \/ (\E i \in Ids : StartImport(i)) \/ (\E on \in {"cur", "old"} : StartDelete(on))
      PROVE  UNCHANGED Owner!vars
  <2>1. rpc.op = "none" /\ UNCHANGED <<cur, old, cloud, untracked>>
    BY <1>5 DEF StartRead, StartImport, StartDelete, ReadyToDeploy, history
  <2>2. rpc'.phase = "sent"
    BY <1>2, <1>5 DEF StartRead, StartImport, StartDelete
  <2> QED BY <1>1, <2>1, <2>2
<1>6. ASSUME NEW on \in {"cur", "old"}, DropUndeletable(on)
      PROVE  Owner!Next
  <2>1. /\ Slot(on) # NoResource /\ Forget(on) /\ untracked' = untracked \cup {Slot(on).id}
        /\ rpc' = rpc /\ cloud' = cloud
    BY <1>6 DEF DropUndeletable
  <2>2. Held' = Held \ {Slot(on).id} /\ Slot(on).id \in Held
    BY <2>1, ForgetReleases DEF OwnershipInv
  <2>3. Life' = Life /\ Content' = Content /\ InHand' = InHand
    BY <2>1 DEF Life, Content, InHand
  <2>4. Owner!Abandon(Slot(on).id)
    BY <2>1, <2>2, <2>3 DEF Owner!Abandon
  <2> QED BY <2>2, <2>4, MappingTypes DEF Owner!Next
<1>7. ASSUME NEW engine, Configure(engine)
      PROVE  UNCHANGED Owner!vars
  BY <1>7, SameForOwner DEF Configure, Held, InHand, history
<1> QED BY <1>3, <1>4, <1>5, <1>6, <1>7 DEF Engine

LEMMA CloudIsOwner ==
    ASSUME Circumstances, TypeInv, TypeInv', OwnInv, OwnershipInv, Cloud
    PROVE  [Owner!Next]_(Owner!vars)
<1>0. /\ cloud \in [Ids -> Objects] /\ cloud' \in [Ids -> Objects] /\ rpc \in RPCs
      /\ Content' \in [Ids -> PropMaps] /\ Held \subseteq Ids
  <2>1. cloud' \in [Ids -> Objects]
    BY DEF TypeInv, TypeOK
  <2>2. Content' \in [Ids -> PropMaps]
    BY <2>1 DEF Content, Objects
  <2> QED BY <2>1, <2>2, MappingTypes DEF TypeInv, TypeOK
\* An object that is written, and what becomes of it.
<1>1. ASSUME NEW i \in Ids, NEW o, cloud' = [cloud EXCEPT ![i] = o]
      PROVE  /\ Life' = [Life EXCEPT ![i] = o.state]
             /\ Owner!Touch(i)
  <2>1. \A j \in Ids : cloud'[j] = IF j = i THEN o ELSE cloud[j]
    BY <1>0, <1>1
  <2> QED BY <1>0, <2>1 DEF Life, Content, Owner!Touch
<1>2. ASSUME cur' = cur, old' = old PROVE Held' = Held
  BY <1>2 DEF Held
\* The object a request found is the one the checkpoint holds.
<1>3. ASSUME NEW i \in Ids, Found(i), rpc.op \in {"read", "update", "delete"}
      PROVE  i \in Held /\ Slot(rpc.on).id = i /\ Life[i] = "live"
  <2>1. Slot(rpc.on) # NoResource /\ rpc.target[ItemParam] = Slot(rpc.on).id
    BY <1>3, ParamNames DEF OwnInv, ItemInFlight, OwnTarget
  <2> QED BY <1>0, <1>3, <2>1 DEF Found, Slot, Held, Life
<1>4. ASSUME NEW i, NEW o, NEW fresh, Answer(i, o, fresh)
      PROVE  rpc'.phase = "answered" /\ rpc'.op = rpc.op /\ rpc'.reply = Reply(i, o, fresh)
  BY <1>0, <1>4 DEF Answer, RPCs
<1>5. ASSUME NEW i \in Ids, CloudCreate(i)
      PROVE  Owner!Make(i)
  <2> DEFINE o == [state |-> "live", scope |-> [p \in ScopeParams |-> rpc.target[p]],
                   body |-> WithDefaults(rpc.body)]
  <2>1. /\ rpc.phase = "sent" /\ rpc.op \in {"create", "replace"} /\ cloud[i].state = "none"
        /\ cloud' = [cloud EXCEPT ![i] = o] /\ Answer(i, o, TRUE)
        /\ cur' = cur /\ old' = old /\ untracked' = untracked
    BY <1>5 DEF CloudCreate, history
  <2>2. o.state = "live"
    OBVIOUS
  <2> HIDE DEF o
  <2>3. Reply(i, o, TRUE)[Id] = i
    BY NamesAssumption DEF Reply
  <2>4. InHand = Absent /\ InHand' = i
    BY <1>4, <2>1, <2>3 DEF InHand
  <2>5. \A j, k \in Held : j = k
    BY <2>1 DEF Held, OwnershipInv, SlotsFree
  <2>6. Life[i] = "none"
    BY <2>1 DEF Life
  <2> QED BY <1>1, <1>2, <2>1, <2>2, <2>4, <2>5, <2>6 DEF Owner!Make
<1>6. ASSUME NEW i \in Ids, CloudUpdate(i)
      PROVE  Owner!Change(i)
  <2> DEFINE body == IF api.update = "PATCH" THEN MergePatch(cloud[i].body, rpc.body)
                     ELSE WithDefaults(rpc.body)
             o == [cloud[i] EXCEPT !.body = body]
  <2>1. /\ rpc.phase = "sent" /\ rpc.op = "update" /\ Found(i)
        /\ cloud' = [cloud EXCEPT ![i] = o] /\ Answer(i, o, FALSE)
        /\ cur' = cur /\ old' = old /\ untracked' = untracked
    BY <1>6 DEF CloudUpdate, history
  <2> HIDE DEF body
  <2>2. o.state = cloud[i].state
    BY <1>0 DEF Objects
  <2> HIDE DEF o
  <2>3. InHand = Absent /\ InHand' = Absent
    BY <1>4, <2>1 DEF InHand
  <2>4. i \in Held /\ Life[i] = "live"
    BY <1>3, <2>1
  <2>5. Life' = Life
    BY <1>1, <2>1, <2>2 DEF Life
  <2> QED BY <1>1, <1>2, <2>1, <2>3, <2>4, <2>5 DEF Owner!Change
<1>7. ASSUME NEW i \in Ids, CloudRead(i)
      PROVE  UNCHANGED Owner!vars
  <2>1. /\ rpc.op \in {"read", "import"} /\ Answer(i, cloud[i], FALSE)
        /\ cur' = cur /\ old' = old /\ cloud' = cloud /\ untracked' = untracked
    BY <1>7 DEF CloudRead, history
  <2>2. InHand' = InHand
    BY <1>4, <2>1 DEF InHand
  <2> QED BY <1>2, <2>1, <2>2, SameForOwner
<1>8. ASSUME NEW i \in Ids, CloudDelete(i)
      PROVE  Owner!Destroy(i)
  <2>1. /\ rpc.op = "delete" /\ Found(i) /\ Answer(i, cloud[i], FALSE)
        /\ cloud' = [cloud EXCEPT ![i] = Remains(i)]
        /\ cur' = cur /\ old' = old /\ untracked' = untracked
    BY <1>8 DEF CloudDelete, history
  <2>2. InHand' = InHand
    BY <1>4, <2>1 DEF InHand
  <2>3. Remains(i).state = "gone"
    BY DEF Remains
  <2>4. i \in Held /\ Life[i] = "live"
    BY <1>3, <2>1
  <2>5. Life' = [Life EXCEPT ![i] = "gone"] /\ Owner!Touch(i)
    BY <1>1, <2>1, <2>3
  <2>6. Held' = Held
    BY <1>2, <2>1
  <2> QED BY <2>1, <2>2, <2>4, <2>5, <2>6 DEF Owner!Destroy
<1>9. ASSUME NEW i \in Ids, NEW program, ForeignCreate(i, program)
      PROVE  Owner!Appear(i)
  <2> DEFINE o == [state |-> "live", scope |-> CreateTarget(program),
                   body |-> WithDefaults(ToAPI(program, ScopeParams))]
  <2>1. /\ cloud[i].state = "none" /\ cloud' = [cloud EXCEPT ![i] = o]
        /\ untracked' = untracked \cup {i} /\ cur' = cur /\ old' = old /\ rpc' = rpc
    BY <1>9 DEF ForeignCreate
  <2>2. o.state = "live"
    OBVIOUS
  <2> HIDE DEF o
  <2>3. InHand' = InHand /\ Life[i] = "none"
    BY <2>1 DEF InHand, Life
  <2> QED BY <1>1, <1>2, <2>1, <2>2, <2>3 DEF Owner!Appear
<1>10. ASSUME NEW i \in Ids, ForeignDelete(i)
       PROVE  Owner!Meddle(i)
  <2>1. /\ cloud[i].state = "live" /\ cloud' = [cloud EXCEPT ![i] = Remains(i)]
        /\ untracked' = untracked /\ cur' = cur /\ old' = old /\ rpc' = rpc
    BY <1>10 DEF ForeignDelete
  <2>2. InHand' = InHand /\ Life[i] = "live" /\ Remains(i).state = "gone"
    BY <2>1 DEF InHand, Life, Remains
  <2> QED BY <1>1, <1>2, <2>1, <2>2 DEF Owner!Meddle
<1>11. ASSUME NEW i \in Ids, NEW n, NEW v, ForeignEdit(i, n, v)
       PROVE  Owner!Meddle(i)
  <2> DEFINE o == [cloud[i] EXCEPT !.body = [cloud[i].body EXCEPT ![SDKToAPINameMap[n]] = v]]
  <2>1. /\ cloud[i].state = "live" /\ cloud' = [cloud EXCEPT ![i] = o]
        /\ untracked' = untracked /\ cur' = cur /\ old' = old
        /\ rpc' = rpc \/ rpc' = [rpc EXCEPT !.since = rpc.since \cup {n}]
    BY <1>11 DEF ForeignEdit
  <2>2. o.state = "live"
    BY <1>0, <2>1 DEF Objects
  <2> HIDE DEF o
  <2>3. InHand' = InHand
    BY <1>0, <2>1 DEF InHand, RPCs
  <2>4. Life[i] = "live" /\ Life' = Life
    BY <1>1, <2>1, <2>2 DEF Life
  <2> QED BY <1>1, <1>2, <2>1, <2>3, <2>4 DEF Owner!Meddle
<1> QED BY <1>5, <1>6, <1>7, <1>8, <1>9, <1>10, <1>11 DEF Cloud, Owner!Next

\* The resource a handler returns has the id the answer names.
LEMMA ReturnedIds ==
    ASSUME TypeInv, OwnInv, rpc.phase = "answered"
    PROVE  /\ FinishCreate => cur' \in Resources /\ cur'.id = rpc.reply[Id]
           /\ FinishRead => cur' \in Resources /\ cur'.id = cur.id /\ cur # NoResource
           /\ FinishImport => cur' \in Resources /\ cur'.id = rpc.target[ItemParam]
<1>0. rpc.reply \in PropMaps
  BY DEF TypeInv, TypeOK, RPCs
<1>1. ASSUME FinishCreate PROVE cur' \in Resources /\ cur'.id = rpc.reply[Id]
  BY <1>0, <1>1, CreatedType, ToSDKType DEF FinishCreate, CreatedResource
<1>2. ASSUME FinishRead PROVE cur' \in Resources /\ cur'.id = cur.id /\ cur # NoResource
  <2>1. cur # NoResource /\ rpc.reply[Id] = cur.id
    BY <1>2 DEF FinishRead, OwnInv, ReadInFlight, ItemInFlight, Slot, ReplyAbout, AboutIn
  <2>2. cur.inputs \in PropMaps /\ cur.stash \in PropMaps
    BY <2>1 DEF TypeInv, TypeOK, Resources
  <2> QED BY <1>2, <2>1, <2>2, ReadType DEF FinishRead
<1>3. ASSUME FinishImport PROVE cur' \in Resources /\ cur'.id = rpc.target[ItemParam]
  <2>1. rpc.reply[Id] = rpc.target[ItemParam]
    BY <1>3 DEF FinishImport, OwnInv, ImportInFlight, ReplyAbout, AboutIn
  <2> QED BY <1>3, <2>1, EmptyType, ReadType DEF FinishImport
<1> QED BY <1>1, <1>2, <1>3

LEMMA HandlersAreOwner ==
    ASSUME Circumstances, TypeInv, OwnInv, OwnershipInv, Handlers
    PROVE  [Owner!Next]_(Owner!vars)
<1>0. NoResource \notin Resources
  BY ProviderAssumption DEF Resources
<1>c. ASSUME cloud' = cloud PROVE Life' = Life /\ Content' = Content
  BY <1>c DEF Life, Content
<1>i. ASSUME rpc' = Idle PROVE InHand' = Absent
  BY <1>i DEF InHand, Idle
<1>1. ASSUME FinishCreate
      PROVE  Owner!Keep
  <2>1. /\ rpc.phase = "answered" /\ rpc.op \in {"create", "replace"} /\ rpc' = Idle
        /\ cloud' = cloud /\ untracked' = untracked
        /\ old' = IF rpc.op = "replace" THEN cur ELSE old
    BY <1>1 DEF FinishCreate, history
  <2>2. cur' # NoResource /\ cur'.id = InHand /\ InHand # Absent
    BY <1>0, <1>1, <2>1, ReturnedIds, ProviderAssumption DEF InHand, TypeInv, InFlightOK
  <2>3. old = NoResource /\ (rpc.op = "create" => cur = NoResource)
    BY <2>1 DEF OwnershipInv, SlotsFree
  <2>4. Held' = Held \cup {InHand}
    BY <2>1, <2>2, <2>3 DEF Held
  <2> QED BY <1>c, <1>i, <2>1, <2>2, <2>4 DEF Owner!Keep
<1>2. ASSUME FinishRead \/ FinishUpdate
      PROVE  UNCHANGED Owner!vars
  <2>1. /\ rpc.phase = "answered" /\ rpc.op \in {"read", "update"} /\ rpc' = Idle
        /\ cloud' = cloud /\ untracked' = untracked /\ old' = old
    BY <1>2 DEF FinishRead, FinishUpdate
  <2>2. cur # NoResource /\ cur' # NoResource /\ cur'.id = cur.id
    BY <1>0, <1>2, <2>1, ReturnedIds, UpdatedTracks DEF TypeInv, InFlightOK
  <2>3. Held' = Held
    BY <2>1, <2>2 DEF Held
  <2>4. InHand' = InHand
    BY <1>i, <2>1, NoHand
  <2> QED BY <2>1, <2>3, <2>4, SameForOwner
<1>3. ASSUME FinishImport
      PROVE  Owner!Next
  <2> DEFINE i == rpc.target[ItemParam]
  <2>1. /\ rpc.phase = "answered" /\ rpc.op = "import" /\ rpc' = Idle
        /\ cloud' = cloud /\ untracked' = untracked /\ old' = old
    BY <1>3 DEF FinishImport
  <2>2. cur' # NoResource /\ cur'.id = i
    BY <1>0, <1>3, <2>1, ReturnedIds
  <2>3. cur = NoResource /\ old = NoResource /\ i \in untracked
    BY <2>1 DEF OwnershipInv, SlotsFree, ImportIsOrphan
  <2> HIDE DEF i
  <2>4. Held = {} /\ Held' = {i}
    BY <2>1, <2>2, <2>3 DEF Held
  <2>5. InHand = Absent /\ InHand' = Absent
    BY <1>i, <2>1, NoHand
  <2>6. Owner!Adopt(i)
    BY <1>c, <2>1, <2>3, <2>4, <2>5 DEF Owner!Adopt
  <2> QED BY <2>3, <2>6, MappingTypes DEF Owner!Next
<1>4. ASSUME FinishDelete
      PROVE  Owner!Next
  <2> DEFINE i == Slot(rpc.on).id
  <2>1. /\ rpc.phase = "answered" /\ rpc.op = "delete" /\ rpc' = Idle /\ Forget(rpc.on)
        /\ cloud' = cloud /\ untracked' = untracked /\ rpc.on \in {"cur", "old"}
    BY <1>4 DEF FinishDelete, history, TypeInv, TypeOK, RPCs
  <2>2. Slot(rpc.on) # NoResource
    BY <2>1 DEF OwnInv, ItemInFlight
  <2>3. Held' = Held \ {i} /\ i \in Held
    BY <2>1, <2>2, ForgetReleases DEF OwnershipInv
  <2>4. cloud[i].state = "gone"
    BY <2>1 DEF OwnershipInv, DeletedIsGone
  <2> HIDE DEF i
  <2>5. i \in Ids /\ Life[i] = "gone"
    BY <2>3, <2>4, MappingTypes DEF Life
  <2>6. InHand' = InHand
    BY <1>i, <2>1, NoHand
  <2>7. Owner!Release(i)
    BY <1>c, <2>1, <2>3, <2>5, <2>6 DEF Owner!Release
  <2> QED BY <2>5, <2>7 DEF Owner!Next
<1>5. ASSUME RequestFails
      PROVE  UNCHANGED Owner!vars
  <2>1. /\ rpc.phase = "sent" /\ rpc' = Idle /\ cur' = cur /\ old' = old
        /\ cloud' = cloud /\ untracked' = untracked
    BY <1>5 DEF RequestFails, history
  <2>2. InHand' = InHand /\ Held' = Held
    BY <1>i, <2>1, NoHand DEF Held
  <2> QED BY <2>1, <2>2, SameForOwner
<1>6. ASSUME AnswerLost
      PROVE  [Owner!Next]_(Owner!vars)
  <2>1. /\ rpc.phase = "answered" /\ rpc' = Idle /\ cur' = cur /\ old' = old /\ cloud' = cloud
        /\ untracked' = IF rpc.op \in {"create", "replace"} THEN untracked \cup {rpc.reply[Id]}
                        ELSE untracked
    BY <1>6 DEF AnswerLost
  <2>2. Held' = Held /\ InHand' = Absent
    BY <1>i, <2>1 DEF Held
  <2>3. CASE rpc.op \in {"create", "replace"}
    <3>1. InHand = rpc.reply[Id] /\ InHand # Absent
      BY <2>1, <2>3, ProviderAssumption DEF InHand, TypeInv, InFlightOK
    <3>2. Owner!Lose
      BY <1>c, <2>1, <2>2, <2>3, <3>1 DEF Owner!Lose
    <3> QED BY <3>2 DEF Owner!Next
  <2>4. CASE rpc.op \notin {"create", "replace"}
    <3>1. InHand = Absent
      BY <2>4, NoHand
    <3> QED BY <2>1, <2>2, <2>4, <3>1, SameForOwner
  <2> QED BY <2>3, <2>4
<1> QED BY <1>1, <1>2, <1>3, <1>4, <1>5, <1>6 DEF Handlers, Owner!Next

LEMMA StepIsOwner ==
    ASSUME Circumstances, TypeInv, TypeInv', OwnInv, OwnershipInv, [Next]_vars
    PROVE  [Owner!Next]_(Owner!vars)
<1>1. CASE UNCHANGED vars
  BY <1>1, SameForOwner DEF vars, Held, InHand
<1> QED BY <1>1, EngineIsOwner, CloudIsOwner, HandlersAreOwner DEF Next

-----------------------------------------------------------------------------
(* OwnershipInv and NoForgottenObject are inductive together. *)

\* The parts of OwnershipInv that the abstract step does not give.
Slots == SlotsFree /\ HeldApart /\ DeletedIsGone /\ ImportIsOrphan

LEMMA SlotsIdle ==
    ASSUME rpc'.op = "none", HeldApart' PROVE Slots'
BY DEF Slots, SlotsFree, DeletedIsGone, ImportIsOrphan

LEMMA SlotsEngine ==
    ASSUME TypeInv, OwnershipInv, NoForgottenObject, Engine
    PROVE  Slots'
<1>0. /\ cur \in Resources \cup {NoResource} /\ NoResource \notin Resources
      /\ SlotsFree /\ HeldApart
  BY ProviderAssumption DEF TypeInv, TypeOK, Resources, OwnershipInv
<1>1. ASSUME NEW op, NEW on, NEW target, NEW body, NEW state, NEW news,
             Send(op, on, target, body, state, news)
      PROVE  rpc'.phase = "sent" /\ rpc'.op = op /\ rpc'.target = target
  BY <1>1 DEF Send, Idle
<1>2. ASSUME NEW program, DeployCreate(program)
      PROVE  Slots'
  <2>1. rpc'.op = "create" /\ rpc'.phase = "sent" /\ cur' = cur /\ old' = old
        /\ cur = NoResource /\ old = NoResource
    BY <1>1, <1>2 DEF DeployCreate, ReadyToDeploy, SendCreate
  <2> QED BY <1>0, <2>1 DEF Slots, SlotsFree, HeldApart, DeletedIsGone, ImportIsOrphan
<1>3. ASSUME NEW program, DeployReplace(program)
      PROVE  Slots'
  <2>1. rpc'.op = "replace" /\ rpc'.phase = "sent" /\ cur' = cur /\ old' = old
        /\ cur # NoResource /\ old = NoResource
    BY <1>1, <1>3 DEF DeployReplace, ReadyToDeploy, SendCreate
  <2> QED BY <1>0, <2>1 DEF Slots, SlotsFree, HeldApart, DeletedIsGone, ImportIsOrphan
<1>4. ASSUME NEW program, DeployUpdate(program)
      PROVE  Slots'
  <2>1. rpc'.op = "update" /\ rpc'.phase = "sent" /\ cur' = cur /\ old' = old
    BY <1>1, <1>4 DEF DeployUpdate
  <2> QED BY <1>0, <2>1 DEF Slots, SlotsFree, HeldApart, DeletedIsGone, ImportIsOrphan
<1>5. ASSUME NEW program \in Programs, DeploySame(program)
      PROVE  Slots'
  <2>1. rpc'.op = "none" /\ cur'.id = cur.id /\ cur # NoResource /\ old' = old
    BY <1>5, SameIsSame DEF DeploySame, ReadyToDeploy
  <2>2. HeldApart'
    BY <1>0, <2>1 DEF HeldApart
  <2> QED BY <2>1, <2>2, SlotsIdle
<1>6. ASSUME StartRead \/ \E on \in {"cur", "old"} : StartDelete(on)
      PROVE  Slots'
  <2>1. rpc'.op \in {"read", "delete"} /\ rpc'.phase = "sent" /\ cur' = cur /\ old' = old
    BY <1>1, <1>6 DEF StartRead, StartDelete
  <2> QED BY <1>0, <2>1 DEF Slots, SlotsFree, HeldApart, DeletedIsGone, ImportIsOrphan
<1>7. ASSUME NEW i \in Ids, StartImport(i)
      PROVE  Slots'
  <2> DEFINE target == PathParamsMap(ItemParams, ImportedPathParams(cloud[i].scope, i), Empty,
                                     api.global, Empty)
  <2>1. /\ rpc.op = "none" /\ cur = NoResource /\ old = NoResource /\ cloud[i].state = "live"
        /\ cur' = cur /\ old' = old /\ untracked' = untracked
    BY <1>7 DEF StartImport, ReadyToDeploy, history
  <2>2. rpc'.op = "import" /\ rpc'.phase = "sent" /\ rpc'.target = target
    BY <1>1, <1>7 DEF StartImport
  <2>3. target[ItemParam] = i
    BY ImportState, ProviderAssumption
  <2> HIDE DEF target
  <2>4. i \in untracked
    BY <2>1 DEF NoForgottenObject
  <2> QED BY <2>1, <2>2, <2>3, <2>4 DEF Slots, SlotsFree, HeldApart, DeletedIsGone, ImportIsOrphan
<1>8. ASSUME NEW on \in {"cur", "old"}, DropUndeletable(on)
      PROVE  Slots'
  <2>1. rpc'.op = "none" /\ (cur' = cur \/ cur' = NoResource) /\ (old' = old \/ old' = NoResource)
    BY <1>8 DEF DropUndeletable, Forget
  <2>2. HeldApart'
    BY <1>0, <2>1 DEF HeldApart
  <2> QED BY <2>1, <2>2, SlotsIdle
<1>9. ASSUME NEW engine, Configure(engine)
      PROVE  Slots'
  <2>1. rpc'.op = "none" /\ cur' = cur /\ old' = old
    BY <1>9 DEF Configure
  <2>2. HeldApart'
    BY <1>0, <2>1 DEF HeldApart
  <2> QED BY <2>1, <2>2, SlotsIdle
<1> QED BY <1>2, <1>3, <1>4, <1>5, <1>6, <1>7, <1>8, <1>9 DEF Engine

LEMMA SlotsCloud ==
    ASSUME TypeInv, OwnInv, OwnershipInv, Cloud,
           \A i \in Ids : Life[i] = "gone" => Life'[i] = "gone"
    PROVE  Slots'
<1>0. /\ rpc \in RPCs /\ cloud \in [Ids -> Objects]
      /\ cur \in Resources \cup {NoResource} /\ old \in Resources \cup {NoResource}
      /\ SlotsFree /\ HeldApart /\ DeletedIsGone /\ ImportIsOrphan
      /\ \A i \in Ids : cloud[i].state = "gone" => cloud'[i].state = "gone"
  BY DEF TypeInv, TypeOK, OwnershipInv, Life
<1>1. /\ cur' = cur /\ old' = old /\ rpc'.op = rpc.op /\ rpc'.on = rpc.on
      /\ rpc'.target = rpc.target /\ untracked \subseteq untracked'
  <2>1. ASSUME NEW i, NEW o, NEW fresh, Answer(i, o, fresh)
        PROVE  rpc'.op = rpc.op /\ rpc'.on = rpc.on /\ rpc'.target = rpc.target
    BY <1>0, <2>1 DEF Answer, RPCs
  <2>2. ASSUME NEW i \in Ids, CloudCreate(i) \/ CloudUpdate(i) \/ CloudRead(i) \/ CloudDelete(i)
        PROVE  /\ cur' = cur /\ old' = old /\ rpc'.op = rpc.op /\ rpc'.on = rpc.on
               /\ rpc'.target = rpc.target /\ untracked \subseteq untracked'
    BY <2>1, <2>2 DEF CloudCreate, CloudUpdate, CloudRead, CloudDelete, history
  <2>3. ASSUME NEW i \in Ids, NEW program, ForeignCreate(i, program) \/ ForeignDelete(i)
        PROVE  /\ cur' = cur /\ old' = old /\ rpc'.op = rpc.op /\ rpc'.on = rpc.on
               /\ rpc'.target = rpc.target /\ untracked \subseteq untracked'
    BY <2>3 DEF ForeignCreate, ForeignDelete
  <2>4. ASSUME NEW i \in Ids, NEW n, NEW v, ForeignEdit(i, n, v)
        PROVE  /\ cur' = cur /\ old' = old /\ rpc'.op = rpc.op /\ rpc'.on = rpc.on
               /\ rpc'.target = rpc.target /\ untracked \subseteq untracked'
    BY <1>0, <2>4 DEF ForeignEdit, RPCs
  <2>5. ASSUME NEW i \in Ids, ForeignDelete(i)
        PROVE  /\ cur' = cur /\ old' = old /\ rpc'.op = rpc.op /\ rpc'.on = rpc.on
               /\ rpc'.target = rpc.target /\ untracked \subseteq untracked'
    BY <2>5 DEF ForeignDelete
  <2> QED BY <2>2, <2>3, <2>4, <2>5 DEF Cloud
<1>2. rpc'.op = "delete" /\ rpc'.phase = "answered" =>
          \/ rpc.phase = "answered"
          \/ cloud'[rpc.target[ItemParam]].state = "gone"
  <2> SUFFICES ASSUME rpc.op = "delete", rpc.phase # "answered", rpc'.phase = "answered"
               PROVE  cloud'[rpc.target[ItemParam]].state = "gone"
    BY <1>1
  <2>1. ASSUME NEW i \in Ids, CloudDelete(i) PROVE cloud'[rpc.target[ItemParam]].state = "gone"
    BY <1>0, <2>1 DEF CloudDelete, Found, Remains
  <2>2. ASSUME NEW i \in Ids, CloudCreate(i) \/ CloudUpdate(i) \/ CloudRead(i) PROVE FALSE
    BY <2>2 DEF CloudCreate, CloudUpdate, CloudRead
  <2>3. ASSUME NEW i, NEW program, ForeignCreate(i, program) PROVE FALSE
    BY <2>3 DEF ForeignCreate
  <2>4. ASSUME NEW i, ForeignDelete(i) PROVE FALSE
    BY <2>4 DEF ForeignDelete
  <2>5. ASSUME NEW i, NEW n, NEW v, ForeignEdit(i, n, v) PROVE FALSE
    BY <1>0, <2>5 DEF ForeignEdit, RPCs
  <2> QED BY <2>1, <2>2, <2>3, <2>4, <2>5 DEF Cloud
<1>3. rpc.op = "delete" => /\ Slot(rpc.on) # NoResource /\ Slot(rpc.on).id \in Ids
                           /\ rpc.target[ItemParam] = Slot(rpc.on).id
  BY <1>0, ParamNames DEF OwnInv, ItemInFlight, OwnTarget, Slot, Resources
<1>4. Slot(rpc.on)' = Slot(rpc.on)
  BY <1>1 DEF Slot
<1>5. DeletedIsGone'
  BY <1>0, <1>1, <1>2, <1>3, <1>4 DEF DeletedIsGone
<1>6. SlotsFree' /\ HeldApart' /\ ImportIsOrphan'
  BY <1>0, <1>1 DEF SlotsFree, HeldApart, ImportIsOrphan
<1> QED BY <1>5, <1>6 DEF Slots

LEMMA SlotsHandlers ==
    ASSUME Circumstances, TypeInv, OwnInv, OwnershipInv, Handlers
    PROVE  Slots'
<1>0. SlotsFree /\ HeldApart /\ HandIsNew
  BY DEF OwnershipInv
<1>i. rpc' = Idle /\ rpc'.op = "none"
  BY DEF Handlers, FinishCreate, FinishRead, FinishImport, FinishUpdate, FinishDelete,
     RequestFails, AnswerLost, Idle
<1>1. CASE FinishCreate
  <2>1. rpc.phase = "answered" /\ rpc.op \in {"create", "replace"}
        /\ old' = (IF rpc.op = "replace" THEN cur ELSE old) /\ cur'.id = InHand /\ InHand # Absent
    BY <1>1, ReturnedIds, ProviderAssumption DEF FinishCreate, InHand, TypeInv, InFlightOK
  <2>2. old = NoResource /\ InHand \notin Held
    BY <1>0, <2>1 DEF SlotsFree, HandIsNew
  <2>3. HeldApart'
    BY <2>1, <2>2 DEF HeldApart, Held
  <2> QED BY <1>i, <2>3, SlotsIdle
<1>2. CASE FinishRead \/ FinishUpdate
  <2>1. rpc.phase = "answered" /\ rpc.op \in {"read", "update"} /\ old' = old
    BY <1>2 DEF FinishRead, FinishUpdate
  <2>2. cur'.id = cur.id /\ cur # NoResource
    BY <1>2, <2>1, ReturnedIds, UpdatedTracks, ProviderAssumption
       DEF TypeInv, InFlightOK, Resources
  <2>3. HeldApart'
    BY <1>0, <2>1, <2>2 DEF HeldApart
  <2> QED BY <1>i, <2>3, SlotsIdle
<1>3. CASE FinishImport
  <2>1. old' = NoResource
    BY <1>0, <1>3 DEF FinishImport, SlotsFree
  <2>2. HeldApart'
    BY <2>1 DEF HeldApart
  <2> QED BY <1>i, <2>2, SlotsIdle
<1>4. CASE FinishDelete \/ RequestFails \/ AnswerLost
  <2>1. (cur' = cur \/ cur' = NoResource) /\ (old' = old \/ old' = NoResource)
    BY <1>4 DEF FinishDelete, Forget, RequestFails, AnswerLost
  <2>2. HeldApart'
    BY <1>0, <2>1 DEF HeldApart
  <2> QED BY <1>i, <2>2, SlotsIdle
<1> QED BY <1>1, <1>2, <1>3, <1>4 DEF Handlers

LEMMA OwnershipInit == Init => OwnershipInv /\ NoForgottenObject /\ Owner!Init
<1> SUFFICES ASSUME Init PROVE OwnershipInv /\ NoForgottenObject /\ Owner!Init
  OBVIOUS
<1>1. /\ cur = NoResource /\ old = NoResource /\ rpc.op = "none" /\ rpc.phase = "idle"
      /\ untracked = {}
  BY DEF Init, Idle
<1>2. \A i \in Ids : cloud[i].state = "none" /\ cloud[i].body \in PropMaps
  BY EmptyType DEF Init, NoObject
<1>3. Held = {} /\ InHand = Absent
  BY <1>1 DEF Held, InHand
<1>4. OwnershipInv /\ NoForgottenObject
  BY <1>1, <1>2, <1>3 DEF OwnershipInv, NoForgottenObject, SlotsFree, HeldApart, HandIsNew,
     DeletedIsGone, ImportIsOrphan
<1>5. Life = [i \in Ids |-> "none"] /\ Content \in [Ids -> PropMaps]
  BY <1>2 DEF Life, Content
<1> QED BY <1>1, <1>3, <1>4, <1>5 DEF Owner!Init

LEMMA OwnershipStep ==
    ASSUME Circumstances, TypeInv, TypeInv', OwnInv, OwnershipInv, NoForgottenObject, [Next]_vars
    PROVE  OwnershipInv' /\ NoForgottenObject'
<1>1. [Owner!Next]_(Owner!vars)
  BY StepIsOwner
<1>2. Accounted /\ HandIsNew
  BY AccountedIsNotForgotten DEF OwnershipInv
<1>3. Accounted' /\ HandIsNew' /\ \A i \in Ids : Life[i] = "gone" => Life'[i] = "gone"
  BY <1>1, <1>2, OwnerStepKeeps
<1>4. Slots'
  <2>1. CASE UNCHANGED vars
    BY <2>1 DEF vars, Slots, OwnershipInv, SlotsFree, HeldApart, DeletedIsGone, ImportIsOrphan, Slot
  <2> QED BY <1>3, <2>1, SlotsEngine, SlotsCloud, SlotsHandlers DEF Next
<1>5. NoForgottenObject'
  <2>1. \A i \in Ids : i \in Held' => \E r \in {cur', old'} \ {NoResource} : r.id = i
    BY DEF Held
  <2>2. \A i \in Ids : i = InHand' =>
            rpc'.phase = "answered" /\ rpc'.op \in {"create", "replace"} /\ rpc'.reply[Id] = i
    BY ProviderAssumption DEF InHand
  <2> QED BY <1>3, <2>1, <2>2 DEF Accounted, NoForgottenObject, Life
<1> QED BY <1>3, <1>4, <1>5 DEF OwnershipInv, Slots

\* The checkpoint's slots, the object in hand and the calls in flight stay in
\* the order that ownership needs.
THEOREM OwnershipInvariant == Circumstances => (Spec => [](OwnershipInv /\ NoForgottenObject))
<1> SUFFICES ASSUME Circumstances PROVE Spec => [](OwnershipInv /\ NoForgottenObject)
  OBVIOUS
<1>1. Init => OwnershipInv /\ NoForgottenObject
  BY OwnershipInit
<1>2. TypeInv /\ TypeInv' /\ OwnInv /\ (OwnershipInv /\ NoForgottenObject) /\ [Next]_vars
         => (OwnershipInv /\ NoForgottenObject)'
  BY OwnershipStep
<1> QED BY <1>1, <1>2, TypeInvariant, OwnInvariant, PTL DEF Spec

\* No live object is forgotten, however calls fail between the two halves of
\* a handler, and whatever is replaced, deleted, dropped or imported.
THEOREM NothingForgotten == Circumstances => (Spec => []NoForgottenObject)
BY OwnershipInvariant, PTL

\* The lifecycle implements Ownership: handlers and engine together change and
\* delete only what the checkpoint holds, and let go of nothing that lives,
\* but through a lost answer or a missing DELETE endpoint.
THEOREM LifecycleImplementsOwnership == Circumstances => (Spec => ImplementsOwnership)
<1> SUFFICES ASSUME Circumstances PROVE Spec => ImplementsOwnership
  OBVIOUS
<1>1. Init => Owner!Init
  BY OwnershipInit
<1>2. TypeInv /\ TypeInv' /\ OwnInv /\ OwnershipInv /\ [Next]_vars => [Owner!Next]_(Owner!vars)
  BY StepIsOwner
<1> QED BY <1>1, <1>2, TypeInvariant, OwnInvariant, OwnershipInvariant, PTL
        DEF Spec, ImplementsOwnership, Owner!Spec

=============================================================================
