------------------------------- MODULE Codec --------------------------------
(***************************************************************************)
(* What one handler does with an answer that has objects in objects: how   *)
(* TransformBody renames the keys of a map while it ranges over it, where  *)
(* the id of a resource is found, and what is sent back.                   *)
(*                                                                         *)
(* A JSON object is a node of a heap; a property holds a scalar, a node,   *)
(* or a list of scalars and nodes.  Go's maps are references, so that a    *)
(* walk changes the heap; NewPropertyMapFromMap and Mappable copy, which   *)
(* is a heap of its own: the handler works on its outputs, its inputs and  *)
(* the body of the next request.                                           *)
(*                                                                         *)
(* Three calls are modelled: the end of Create and, with the outputs it    *)
(* stored, the path of the next request; the end of an import and the PUT  *)
(* of the inputs it made up; and an Invoke.  The engine sends old inputs,  *)
(* so that the outputs hold no stash.                                      *)
(***************************************************************************)
EXTENDS PathParams, SequencesExt

CONSTANTS
    Nodes,       \* the objects of an answer
    Root,        \* the object that is the answer
    Items,       \* the property "items"
    Writable,    \* API names that the request body's schema declares writable
    ReadOnly,    \* API names that the document marks read-only wherever they are
    Texts,       \* scalars that are strings; ids are among them
    Numbers,     \* scalars that are numbers
    IdText,      \* convertNumericIDToString of a number
    Answers,     \* [op, value, heap, pinned]: a call and what the cloud answers
    NoName

ASSUME CodecAssumption ==
    /\ Root \in Nodes /\ Items \in Names /\ Writable \subseteq Names
    /\ ReadOnly \subseteq Names \ Writable
    /\ NoName \notin Names /\ Texts \cap Numbers = {}
    /\ (Texts \cup Numbers) \cap ({Absent} \cup Nodes) = {} /\ Absent \notin Nodes
    /\ IdText \in [Numbers -> Texts]
    /\ \A a \in Answers : a.pinned \in IF a.op = "import" THEN Texts ELSE {Absent}

VARIABLES
    call,     \* the call and its answer
    heap,     \* [outputs, inputs, body]: what each of them holds
    phase,    \* what the handler is at: a walk, a step between walks, the end
    stack,    \* the ranges of TransformBody that are open, the innermost last
    id,       \* the id reported to the engine
    target    \* the item parameter of the next request's path

vars == <<call, heap, phase, stack, id, target>>

NoProps == [n \in Nodes |-> Empty]

Scalars == Texts \cup Numbers

\* What the walk looks at under a value: an object, or the items of a list.
ItemsOf(v) ==
    IF v \in Nodes THEN <<v>>
    ELSE IF v \in Scalars \cup {Absent} THEN <<>>
    ELSE v

\* The lookup map of a walk: bodies go to the API, the rest comes from it.
Lookup == IF phase = "body" THEN SDKToAPINameMap ELSE APIToSDKNameMap

-----------------------------------------------------------------------------
(* TransformBody: a range over a map whose keys it deletes and inserts. *)

\* The keys that Go will still visit, the one being visited, and the items
\* under it that the walk has still to look at.
RangeOver(h, node) == [node |-> node, todo |-> Keys(h[node]), key |-> NoName, due |-> <<>>]

StartWalk(where, h) ==
    /\ phase' = where
    /\ heap' = [heap EXCEPT ![where] = h]
    /\ stack' = <<RangeOver(h, Root)>>

Walking == phase \in DOMAIN heap /\ stack # <<>>

Top == Last(stack)

Replace(frame) == stack' = Append(Front(stack), frame)

\* Go hands out the next key, in any order.
Visit(k) ==
    /\ Walking /\ Top.key = NoName /\ k \in Top.todo
    /\ Replace([Top EXCEPT !.key = k, !.todo = @ \ {k},
                           !.due = ItemsOf(heap[phase][Top.node][k])])
    /\ UNCHANGED <<call, heap, phase, id, target>>

\* Mutant: the walk leaves a list when it has walked its first object.
DescendAndForget ==
    /\ Walking /\ Top.due # <<>>
    /\ LET rest == Append(Front(stack), [Top EXCEPT !.due = <<>>])
       IN  stack' = IF Head(Top.due) \in Nodes
                    THEN Append(rest, RangeOver(heap[phase], Head(Top.due)))
                    ELSE rest
    /\ UNCHANGED <<call, heap, phase, id, target>>

\* The recursive call on the value, or on the next item of a list, if that is
\* an object.
Descend ==
    /\ Walking /\ Top.due # <<>>
    /\ LET rest == Append(Front(stack), [Top EXCEPT !.due = Tail(@)])
       IN  stack' = IF Head(Top.due) \in Nodes
                    THEN Append(rest, RangeOver(heap[phase], Head(Top.due)))
                    ELSE rest
    /\ UNCHANGED <<call, heap, phase, id, target>>

\* Mutant: the key with the old name stays in the map.
WriteWithoutDelete ==
    /\ Walking /\ Top.key # NoName /\ Top.due = <<>>
    /\ heap' = [heap EXCEPT ![phase][Top.node][Lookup[Top.key]] = heap[phase][Top.node][Top.key]]
    /\ Replace([Top EXCEPT !.key = NoName])
    /\ UNCHANGED <<call, phase, id, target>>

\* Mutant: every key that was written is put back on the list of keys.
WriteAndRevisit ==
    /\ Walking /\ Top.key # NoName /\ Top.due = <<>>
    /\ heap' = [heap EXCEPT ![phase][Top.node] = RenameKey(@, Top.key, Lookup)]
    /\ Replace([Top EXCEPT !.key = NoName, !.todo = @ \cup {Lookup[Top.key]}])
    /\ UNCHANGED <<call, phase, id, target>>

\* delete(bodyMap, sdkName) when the name differs, then bodyMap[apiName] = v.
\* A key that is inserted during a range may be visited by it or not.
Write ==
    /\ Walking /\ Top.key # NoName /\ Top.due = <<>>
    /\ heap' = [heap EXCEPT ![phase][Top.node] = RenameKey(@, Top.key, Lookup)]
    /\ \E more \in SUBSET ({Lookup[Top.key]} \ Keys(heap[phase][Top.node])) :
          Replace([Top EXCEPT !.key = NoName, !.todo = @ \cup more])
    /\ UNCHANGED <<call, phase, id, target>>

\* The range has no key left: the recursive call returns.
Leave ==
    /\ Walking /\ Top.key = NoName /\ Top.todo = {}
    /\ stack' = Front(stack)
    /\ UNCHANGED <<call, heap, phase, id, target>>

TransformStep == Descend \/ Write \/ Leave \/ \E k \in Names : Visit(k)

-----------------------------------------------------------------------------
(* The handlers, between the walks. *)

Walked(where) == phase = where /\ stack = <<>>

\* FilterReadOnlyProperties on nested values: objects are never deleted, and
\* without a discriminator nothing is deleted inside of them.
FilteredAnswer(h) ==
    [h EXCEPT ![Root] =
        FilterReadOnlyProperties(@, Writable \cup {n \in Names : @[n] \in Nodes})]

\* convertInvokeOutput: the answer of a list function whose result type is an
\* object of its own gets an envelope, whatever it is; any other answer is
\* taken for an object.
Wrapped(a) ==
    IF a.op = "list" THEN [a.heap EXCEPT ![Root] = [Empty EXCEPT ![Items] = a.value]]
    ELSE a.heap

ConvertInvokeOutput == Wrapped(call)

IsObject == call.op = "list" \/ call.value \in Nodes

\* The end of Create and of Invoke: the outputs are the renamed answer.
DecodeOutputs ==
    /\ phase = "answered" /\ call.op # "import" /\ IsObject
    /\ StartWalk("outputs", ConvertInvokeOutput)
    /\ UNCHANGED <<call, id, target>>

\* The conversion of a naked list to an object panics.
NotAnObject ==
    /\ phase = "answered" /\ ~IsObject
    /\ phase' = "panicked"
    /\ UNCHANGED <<call, heap, stack, id, target>>

\* Mutant: the renaming comes before the filter, which knows API names.
DecodeInputsBeforeFilter ==
    /\ phase = "answered" /\ call.op = "import"
    /\ StartWalk("inputs", FilteredAnswer([n \in Nodes |->
                              TransformBody(call.heap[n], APIToSDKNameMap)]))
    /\ UNCHANGED <<call, id, target>>

\* The end of an import: the inputs are the writable part of the answer.
DecodeInputs ==
    /\ phase = "answered" /\ call.op = "import"
    /\ StartWalk("inputs", FilteredAnswer(call.heap))
    /\ UNCHANGED <<call, id, target>>

\* ... and its outputs are the answer over a state that holds only the id
\* that was asked for.
Pinned == [Empty EXCEPT ![Id] = call.pinned]

\* Mutant: the outputs of an import are the answer alone.
OverlayNothing ==
    /\ Walked("inputs")
    /\ StartWalk("outputs", call.heap)
    /\ UNCHANGED <<call, id, target>>

Overlaid == [call.heap EXCEPT ![Root] = ApplyDiffFromCloudProvider(@, Pinned)]

OverlayAnswer ==
    /\ Walked("inputs")
    /\ StartWalk("outputs", Overlaid)
    /\ UNCHANGED <<call, id, target>>

\* Mutant: nobody looks into the nested objects.
PluckedNowhere(h, name) == {Empty}

\* tryPluckingProp: the object that has the property, whichever of the
\* top-level properties Go's map order offers first; Empty when none has.
Plucked(h, name) ==
    LET holders == {m \in Nodes : m \in {h[Root][n] : n \in Names} /\ h[m][name] # Absent}
    IN  IF holders = {} THEN {Empty} ELSE {h[m] : m \in holders}

\* Mutant: an id that stays the number it is.
ConvertNothing(v) == v

ConvertNumericIDToString(v) == IF v \in Numbers THEN IdText[v] ELSE v

ReportId ==
    /\ Walked("outputs") /\ call.op \in {"create", "import"}
    /\ \E nested \in Plucked(heap.outputs, Id) :
          LET found == Else(heap.outputs[Root][Id], nested[Id])
          IN  /\ id' = ConvertNumericIDToString(found)
              /\ phase' = IF found = Absent THEN "failed" ELSE "stored"
    /\ UNCHANGED <<call, heap, stack, target>>

ReturnInvoke ==
    /\ Walked("outputs") /\ call.op \in {"invoke", "list"}
    /\ phase' = "ended"
    /\ UNCHANGED <<call, heap, stack, id, target>>

\* The next request: its path comes from the stored outputs; the StringValue
\* of a number panics.  After an import it is the PUT of the inputs, whose
\* body loses the path parameters before it is renamed.
PathFound ==
    LET name == LookupName(ItemParam, heap.outputs[Root], heap.inputs[Root])
    IN  {PathParam(ItemParam, heap.outputs[Root], nested, Empty, heap.inputs[Root]) :
            nested \in Plucked(heap.outputs, name)}

PutBody == [heap.inputs EXCEPT ![Root] = RemovePathParams(@, ItemParams)]

FillPath ==
    /\ phase = "stored"
    /\ target' \in PathFound
    /\ \/ /\ target' \notin Texts
          /\ phase' = IF target' = Absent THEN "failed" ELSE "panicked"
          /\ UNCHANGED <<heap, stack>>
       \/ target' \in Texts /\ call.op = "create" /\ phase' = "ended" /\ UNCHANGED <<heap, stack>>
       \/ /\ target' \in Texts /\ call.op = "import"
          /\ StartWalk("body", PutBody)
    /\ UNCHANGED <<call, id>>

Sent ==
    /\ Walked("body")
    /\ phase' = "ended"
    /\ UNCHANGED <<call, heap, stack, id, target>>

-----------------------------------------------------------------------------

Init ==
    /\ call \in Answers
    /\ heap = [outputs |-> NoProps, inputs |-> NoProps, body |-> NoProps]
    /\ phase = "answered" /\ stack = <<>> /\ id = Absent /\ target = Absent

Next ==
    \/ TransformStep
    \/ DecodeOutputs \/ NotAnObject \/ DecodeInputs \/ OverlayAnswer
    \/ ReportId \/ ReturnInvoke \/ FillPath \/ Sent

\* A handler runs to its end.
Spec == Init /\ [][Next]_vars /\ WF_vars(Next)

-----------------------------------------------------------------------------

\* Types: the id the engine gets is a string, whatever the cloud answered, and
\* a range only ever waits for keys of its map.
TypeOK ==
    /\ phase \in {"answered", "inputs", "outputs", "stored", "body", "failed", "panicked", "ended"}
    /\ id \in Texts \cup {Absent}
    /\ target \in Texts \cup Numbers \cup {Absent}
    /\ \A i \in 1 .. Len(stack) : stack[i].todo \subseteq Keys(heap[phase][stack[i].node])

\* The objects in object m, and the ones that can be reached from the root:
\* those in every set that holds the root and what its members hold.
ObjectsIn(v) == ToSet(ItemsOf(v)) \cap Nodes

Below(h, m) == UNION {ObjectsIn(h[m][n]) : n \in Names}

Closed(h, S) == Root \in S /\ \A m \in S : Below(h, m) \subseteq S

Reachable(h) == {m \in Nodes : \A S \in SUBSET Nodes : Closed(h, S) => m \in S}

IsRenamed(h, of, lookup) ==
    \A m \in Reachable(h) : h[m] = TransformBody(of[m], lookup)

\* However Go orders the keys, and whether or not it visits the ones that a
\* range inserts, every object that is left has exactly the properties that
\* the renaming defines: nothing is lost, left behind or renamed twice
\* (TransformBody changes the map it ranges over).
WalkIsTransform ==
    /\ Walked("outputs") =>
          IsRenamed(heap.outputs,
                    IF call.op = "import" THEN Overlaid ELSE ConvertInvokeOutput,
                    APIToSDKNameMap)
    /\ Walked("inputs") => IsRenamed(heap.inputs, FilteredAnswer(call.heap), APIToSDKNameMap)

\* The inputs that an import makes up go back to the cloud as the answer had
\* them: the body that Update builds of them for a PUT holds, in the cloud's
\* own names, every object of the answer as it was, the properties that are
\* read-only in nested objects included, and at the top the writable scalars
\* and lists and every object, less the path parameters; for an answer in API
\* names.  It is the body before validateRequest adds the schema's defaults.
RoundTrip ==
    Walked("body") /\ (\A m \in Reachable(call.heap) : \A n \in Keys(call.heap[m]) : SDKToAPINameMap[n] = n) =>
        LET sent == FilteredAnswer(call.heap)
        IN  \A m \in Reachable(heap.body) :
               heap.body[m] = IF m = Root THEN RemovePathParams(sent[m], ItemParams) ELSE sent[m]

\* The inputs of an import hold nothing that the document marks read-only, in
\* no object ("recursively removes properties from the inputs map that are
\* marked as read-only", properties.go 12).
ReadOnlyIsRemoved ==
    Walked("inputs") =>
        \A m \in Reachable(heap.inputs) : \A n \in ReadOnly :
            heap.inputs[m][APIToSDKNameMap[n]] = Absent

\* The ids that a reader of the outputs can find: the resource's own one, else
\* those of the objects in it.
IdsFound(h) ==
    IF h[Root][Id] # Absent THEN {h[Root][Id]}
    ELSE {h[h[Root][n]][Id] : n \in {n \in Names : h[Root][n] \in Nodes}} \ {Absent}

\* When the outputs hold one id, and it is a string, the engine is told that
\* id, the next request is addressed to it, and nothing fails.  An import has
\* it from the id that was asked for, whatever ids the objects in the answer
\* have; a new resource from wherever Create found it (Create and Read pick
\* the id, getPathParamsMap looks for it again).
SameId ==
    phase \in {"stored", "body", "failed", "panicked", "ended"} /\ call.op \in {"create", "import"} =>
        \A i \in {i \in Texts : IdsFound(heap.outputs) = {i}} :
            /\ phase \notin {"failed", "panicked"}
            /\ id = i
            /\ target \in {Absent, i}
            /\ phase \in {"body", "ended"} => target = i

\* An import reports the id it was asked for, unless the answer has one of its
\* own that differs (Read, the state that pins the id).
ImportKeepsId ==
    call.op = "import" /\ phase \in {"stored", "body", "ended"} /\ call.heap[Root][Id] = Absent =>
        id = call.pinned /\ target \in {Absent, id}

\* A call ends: no order of the keys makes the renaming range for ever.
CallEnds == <>(phase \in {"failed", "panicked", "ended"})

=============================================================================
