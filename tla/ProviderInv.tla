----------------------------- MODULE ProviderInv -----------------------------
(***************************************************************************)
(* Why every request names the resource's own object: the inductive        *)
(* invariant behind TargetsOwn and Addressable, and the circumstances in   *)
(* which it holds.  Outside them the code really does send requests for    *)
(* other objects (see the runs MCProviderOverride and MCProviderAllOf).    *)
(***************************************************************************)
EXTENDS Provider

ItemName == PathParamNameMap[ItemParam]

\* The path parameters are spelled alike on both sides.
PlainPathNames ==
    \A n \in ScopeNames \cup {Id, ItemName} :
        /\ SDKToAPINameMap[n] = n
        /\ \A k \in Names : APIToSDKNameMap[k] = n <=> k = n

\* The engine sends the old inputs, and every program gives the whole scope.
ModernEngines    == \A engine \in Engines : engine.sendsOldInputs
CompletePrograms == \A program \in Programs : ScopeNames \subseteq Keys(program)

\* No engine sends the old inputs.
OldEngines == \A engine \in Engines : ~engine.sendsOldInputs

\* Without old inputs a program that gives nothing but path parameters adds
\* nothing but path parameters, which Diff takes for no change.
NotOnlyPaths == ModernEngines \/ \A program \in Programs : Keys(program) \cap BodyNames # {}

\* OnDiff does not turn a replacement into less.
ReplacesAtLeast(a) == a.onDiff \subseteq {"default", "replace"}

\* Updates are described by top-level properties, none of them a path
\* parameter, and answered with the object; OnDiff does not turn a
\* replacement into less unless answers repeat the scope, and imported objects
\* repeat it; there are no global path parameters and no name is made up for a
\* path parameter.
WellShaped(a) ==
    /\ a.update = "none" \/ a.flat
    /\ ~a.noContent
    /\ ReplacesAtLeast(a) \/ a.echoScope
    /\ a.importable => a.echoScope
    /\ a.autoName \in BodyNames \cup {Absent}
    /\ \A n \in ScopeNames :
          n \notin a.updateSchema \cup a.readOnly \cup a.createOnly \cup a.echo
    /\ ItemName \notin a.echo
    /\ \A n \in ScopeNames \cup {Id, ItemName} : a.global[n] = Absent

Circumstances ==
    /\ PlainPathNames /\ CompletePrograms /\ NotOnlyPaths
    /\ \A a \in APIs : WellShaped(a)

\* Delete tests engineSendsOldInputs and never engineSendsOldInputsOnDelete.
OldInputsToDelete ==
    \A engine \in Engines : engine.sendsOldInputs => engine.sendsOldInputsToDelete

\* What the checkpoint must hold for its object to be found among objs: the
\* id in the outputs, and the scope in the outputs when answers repeat it
\* (echo) and otherwise in the inputs, and in the stash when there is one, as
\* there is when no engine sends the inputs.
TracksIn(r, objs, echo) ==
    /\ objs[r.id].state # "none"
    /\ r.outputs[Id] = r.id
    /\ r.outputs[ItemName] \in {Absent, r.id}
    /\ r.inputs[ItemName] \in {Absent, r.id}
    /\ r.stash[ItemName] \in {Absent, r.id}
    /\ r.inputs[Id] = Absent
    /\ \A p \in ScopeParams :
          IF echo
          THEN r.outputs[PathParamNameMap[p]] = objs[r.id].scope[p]
          ELSE /\ r.outputs[PathParamNameMap[p]] = Absent
               /\ r.inputs[PathParamNameMap[p]] = objs[r.id].scope[p]
               /\ Keys(r.stash) # {} \/ OldEngines =>
                     r.stash[PathParamNameMap[p]] = objs[r.id].scope[p]

Tracks(r) == TracksIn(r, cloud, api.echoScope)

\* An answer is about object i and says the truth about its path.
AboutIn(reply, i, objs, echo) ==
    /\ objs[i].state # "none"
    /\ reply[Id] = i
    /\ reply[ItemName] \in {Absent, i}
    /\ \A p \in ScopeParams :
          reply[PathParamNameMap[p]] = IF echo THEN objs[i].scope[p] ELSE Absent

ReplyAbout(i) == AboutIn(rpc.reply, i, cloud, api.echoScope)

ScopesFull ==
    \A i \in Ids : cloud[i].state # "none" => \A p \in ScopeParams : cloud[i].scope[p] # Absent

CreateInFlight ==
    rpc.op \in {"create", "replace"} =>
        /\ rpc.news[Id] = Absent /\ rpc.news[ItemName] = Absent
        /\ rpc.phase = "sent" =>
              \A p \in ScopeParams : /\ rpc.target[p] # Absent
                                     /\ rpc.target[p] = rpc.news[PathParamNameMap[p]]
        /\ rpc.phase = "answered" =>
              /\ ReplyAbout(rpc.reply[Id])
              /\ \A p \in ScopeParams :
                    cloud[rpc.reply[Id]].scope[p] = rpc.news[PathParamNameMap[p]]

ReadInFlight ==
    rpc.op = "read" =>
        /\ rpc.on = "cur"
        /\ rpc.state = CurrentState(cur)
        /\ rpc.phase = "answered" => ReplyAbout(cur.id)

ImportInFlight ==
    rpc.op = "import" =>
        /\ api.importable
        /\ rpc.state[ItemName] \in {Absent, rpc.target[ItemParam]}
        /\ rpc.phase = "answered" => ReplyAbout(rpc.target[ItemParam])

\* An update never moves a resource whose scope is only in its inputs.
UpdateInFlight ==
    rpc.op = "update" =>
        /\ rpc.on = "cur"
        /\ rpc.news[Id] = Absent /\ rpc.news[ItemName] = Absent
        /\ ~api.echoScope =>
              \A p \in ScopeParams :
                  rpc.news[PathParamNameMap[p]] = cur.inputs[PathParamNameMap[p]]
        /\ rpc.phase = "answered" => ReplyAbout(cur.id)

ItemInFlight ==
    rpc.op \in {"read", "update", "delete"} =>
        /\ Slot(rpc.on) # NoResource
        /\ rpc.target = OwnTarget(Slot(rpc.on))

\* Some engine has started the provider.
Started ==
    \E engine \in Engines :
        /\ engineSendsOldInputs = engine.sendsOldInputs
        /\ engineSendsOldInputsOnDelete = engine.sendsOldInputsToDelete

OwnInv ==
    /\ Started
    /\ cur # NoResource => Tracks(cur)
    /\ old # NoResource => Tracks(old)
    /\ ScopesFull
    /\ CreateInFlight
    /\ ReadInFlight
    /\ ImportInFlight
    /\ UpdateInFlight
    /\ ItemInFlight

-----------------------------------------------------------------------------
(* Why the checkpoint agrees with the cloud: the inductive invariant behind *)
(* InSync, OutputsInSync, PatchNamesKind and RefreshStable, and the         *)
(* circumstances it needs besides those above.                              *)

\* Every collection has path parameters, or there are updates.
DiffHasPaths == ScopeParams # {} \/ \A a \in APIs : a.update # "none"

\* The inputs a program can have.
InputNames == BodyNames \cup ScopeNames

\* Names are made up for body properties, and what an import may take for an
\* input is one that programs may give.
GivesInputs(a) ==
    /\ a.autoName \in BodyNames \cup {Absent}
    /\ \A k \in a.createSchema \ {Id} : APIToSDKNameMap[k] \in InputNames

DiffCircumstances == ModernEngines /\ \A a \in APIs : GivesInputs(a)

APIName(n) == SDKToAPINameMap[n]

\* The SDK and the API name of a body property name each other.
PairedNames ==
    \A n \in BodyNames : \A k \in Names : APIToSDKNameMap[k] = n <=> k \in {n, APIName(n)}

\* Every program gives something: a Read that has no inputs takes the answer
\* for the inputs, and still keeps an output that the cloud has removed.
SomePrograms == \A program \in Programs : Keys(program) # {}

\* The inputs that travel in bodies can be written, on creation at least, and
\* the path parameters cannot; OnDiff does not keep what has changed, and the
\* discriminator is not updated in place.
BodiesWritable(a) ==
    /\ \A n \in BodyNames : /\ APIName(n) \in a.createSchema
                            /\ {n, APIName(n)} \cap (a.readOnly \cup a.createOnly) = {}
                            /\ n \in a.echo => APIName(n) = n
    /\ a.createSchema \cap ScopeNames = {}
    /\ a.discriminator \in BodyNames \cup {Absent}
    /\ "none" \notin a.onDiff
    /\ a.discriminator # Absent => /\ APIName(a.discriminator) \notin a.updateSchema
                                   /\ ReplacesAtLeast(a)

\* A patch removes only what the engine sends as an old input.
OldInputsToPatch(a) == a.update = "PATCH" => ModernEngines

\* The schema's defaults, which every request body is filled up with, are the
\* cloud's, and a PATCH has none: it would give the default to whatever the
\* program did not change (see the run MCProviderSchemaDefaults).
DefaultsShaped(a) ==
    \A n \in BodyNames :
        /\ a.createDefaults[APIName(n)] \in {Absent, a.defaults[APIName(n)]}
        /\ a.updateDefaults[APIName(n)] \in
              IF a.update = "PATCH" THEN {Absent} ELSE {Absent, a.defaults[APIName(n)]}

\* What is asked of one API, and what of names, programs and all the APIs.
SyncShaped(a) == BodiesWritable(a) /\ OldInputsToPatch(a) /\ DefaultsShaped(a)

SyncNames ==
    /\ Circumstances /\ PairedNames /\ SomePrograms
    /\ \A a \in APIs : GivesInputs(a)

SyncCircumstances == SyncNames /\ \A a \in APIs : SyncShaped(a)

\* The inputs say of n what the body holds, if need be by leaving it out.
SaysIn(a, inputs, n, body) == body[APIName(n)] = Else(inputs[n], a.defaults[APIName(n)])

\* The outputs show it, if answers repeat it.
ShowsIn(a, outputs, n, body) == APIName(n) \in a.echo => outputs[n] = body[APIName(n)]

\* The resource agrees with the object o, except for the properties ns.
AgreesIn(a, r, o, ns) ==
    o.state = "live" =>
        \A n \in BodyNames \ ns : SaysIn(a, r.inputs, n, o.body) /\ ShowsIn(a, r.outputs, n, o.body)

\* A resource without inputs shows nothing that a Read would not take for one.
NothingToShow(a, r) ==
    Keys(r.inputs) = {} => \A n \in BodyNames : APIName(n) \in a.echo => r.outputs[n] = Absent

\* What an update has written and the engine does not know yet.
Rewritten == IF rpc.op = "update" /\ rpc.phase = "answered" THEN Written ELSE {}

CheckpointSays ==
    /\ cur # NoResource => /\ AgreesIn(api, cur, cloud[cur.id], dirty[cur.id] \cup Rewritten)
                           /\ NothingToShow(api, cur)
    /\ old # NoResource => AgreesIn(api, old, cloud[old.id], dirty[old.id])

\* A request says of n what the program gives or, filled up, the default.
Gives(n, value) == value \in {rpc.news[n], Else(rpc.news[n], api.defaults[APIName(n)])}

\* The cloud fills in what it has a default for.
FilledIn(a, o) ==
    o.state = "live" =>
        \A n \in BodyNames : o.body[APIName(n)] = Absent => a.defaults[APIName(n)] = Absent

CreateSays ==
    rpc.op \in {"create", "replace"} =>
        /\ Keys(rpc.news) # {}
        /\ rpc.phase = "sent" => \A n \in BodyNames : Gives(n, rpc.body[APIName(n)])
        /\ rpc.phase = "answered" /\ cloud[rpc.reply[Id]].state = "live" =>
              \A n \in BodyNames \ dirty[rpc.reply[Id]] :
                  SaysIn(api, rpc.news, n, cloud[rpc.reply[Id]].body)

\* A PATCH leaves alone what has not changed, but for the discriminator, and
\* removes or gives what has; a PUT gives everything.
UpdateWrites(n) ==
    LET new == rpc.body[APIName(n)]
    IN  IF api.update # "PATCH" THEN Gives(n, new)
        ELSE IF n # api.discriminator /\ rpc.news[n] = cur.inputs[n] THEN new = Absent
        ELSE new = Else(rpc.news[n], Null)

UpdateSays ==
    rpc.op = "update" =>
        /\ Keys(rpc.news) # {}
        /\ \A n \in BodyNames : UpdateWrites(n)
        /\ api.update = "PATCH" /\ api.discriminator # Absent =>
              /\ rpc.body[APIName(api.discriminator)] = cur.inputs[api.discriminator]
              /\ cur.inputs[api.discriminator] # Absent
        /\ rpc.phase = "answered" /\ cloud[cur.id].state = "live" =>
              \A n \in Written \ rpc.since : SaysIn(api, rpc.news, n, cloud[cur.id].body)

\* A reply shows the object o, except for the properties since.
RepliesIn(a, reply, o, since) ==
    \A n \in BodyNames :
        /\ APIName(n) # n => reply[n] = Absent
        /\ APIName(n) \notin a.echo => reply[APIName(n)] = Absent
        /\ o.state = "live" /\ APIName(n) \in a.echo /\ n \notin since
              => reply[APIName(n)] = o.body[APIName(n)]

\* What has changed since the answer is what nobody can know, and a refresh
\* is answered what the inputs say already.
AnswerShows ==
    /\ rpc.phase = "sent" => rpc.since = {}
    /\ rpc.phase = "answered" /\ rpc.op \in {"create", "replace", "read", "import", "update"} =>
          /\ rpc.since \subseteq dirty[rpc.reply[Id]]
          /\ RepliesIn(api, rpc.reply, cloud[rpc.reply[Id]], rpc.since)
    /\ rpc.phase = "answered" /\ rpc.op = "read" =>
          \A n \in BodyNames \ dirty[cur.id] :
              APIName(n) \in api.echo => SaysIn(api, cur.inputs, n, rpc.reply)

ImportSays ==
    rpc.op = "import" =>
        \A n \in BodyNames : rpc.state[n] = Absent /\ rpc.state[APIName(n)] = Absent

SyncInv ==
    /\ CheckpointSays
    /\ \A i \in Ids : FilledIn(api, cloud[i])
    /\ CreateSays
    /\ UpdateSays
    /\ AnswerShows
    /\ ImportSays

\* Whichever engines take turns, also those that send no old inputs, the
\* checkpoint agrees with the cloud, for every API whose updates do not depend
\* on what the engine sends: without old inputs Diff takes every deployment
\* for a change, so that no inputs are stored that were not sent
\* (provider.go 401), and a PUT writes them all (provider.go 957).
InSyncWhereShaped == SyncShaped(api) => SyncInv /\ InSync /\ OutputsInSync

=============================================================================
