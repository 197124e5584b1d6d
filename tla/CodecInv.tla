------------------------------ MODULE CodecInv ------------------------------
(***************************************************************************)
(* Why a walk leaves what the renaming defines, and why the id is found    *)
(* again: the inductive invariants behind the properties of Codec, what    *)
(* they take for granted of an answer, and the circumstances in which the  *)
(* properties of ids hold.                                                 *)
(***************************************************************************)
EXTENDS Codec

JSONValues == {Absent} \cup Scalars \cup Nodes \cup Seq(Scalars \cup Nodes)

Heaps == [Nodes -> [Names -> JSONValues]]

\* No object is inside of itself: every set of objects has one that holds no
\* other of them.
Acyclic(h) ==
    \A S \in SUBSET Nodes : S # {} => \E m \in S : Below(h, m) \cap S = {}

\* An answer is a JSON document.
ASSUME AnswersAssumption ==
    \A a \in Answers :
        /\ a.op \in {"create", "import", "invoke", "list"}
        /\ a.heap \in Heaps /\ Wrapped(a) \in Heaps
        /\ Acyclic(a.heap) /\ Acyclic(Wrapped(a))

-----------------------------------------------------------------------------
(* Circumstances. *)

ItemName == PathParamNameMap[ItemParam]

\* An id is a string or a number.
ScalarIds == \A a \in Answers : \A m \in Nodes : a.heap[m][Id] \in Scalars \cup {Absent}

\* An answer that repeats the item parameter gives it the value of the id.
NamedByItsId ==
    \A a \in Answers :
        LET props == TransformBody(a.heap[Root], APIToSDKNameMap)
        IN  props[ItemName] \in {Absent, props[Id]}

\* A name that has another one on the other side is that one's other name.
MutualNames ==
    \A n \in Names :
        /\ APIToSDKNameMap[n] # n => SDKToAPINameMap[APIToSDKNameMap[n]] = n
        /\ SDKToAPINameMap[n] # n => APIToSDKNameMap[SDKToAPINameMap[n]] = n

\* Path parameters are spelled alike on both sides.
PlainParams ==
    \A p \in ItemParams : SDKToAPINameMap[PathParamNameMap[p]] = PathParamNameMap[p]

-----------------------------------------------------------------------------
(* Types. *)

Ranges == [node : Nodes, todo : SUBSET Names, key : Names \cup {NoName},
           due : Seq(Scalars \cup Nodes)]

CodecTypes ==
    /\ call \in Answers
    /\ heap \in [{"outputs", "inputs", "body"} -> Heaps]
    /\ stack \in Seq(Ranges)
    /\ phase \notin DOMAIN heap => stack = <<>>

-----------------------------------------------------------------------------
(* A walk. *)

\* What the walk has started from.
Answered == IF call.op = "import" THEN Overlaid ELSE ConvertInvokeOutput

Given ==
    CASE phase = "outputs" -> Answered
      [] phase = "inputs"  -> FilteredAnswer(call.heap)
      [] phase = "body"    -> PutBody

\* Where a range over given has got to: m is the map as it now is, todo the
\* keys that Go will still visit.  A key that is renamed away is there until
\* it is visited; a key that is renamed to has the other's value from then on.
RangeInv(given, m, todo, lookup) ==
    /\ m \in [Names -> {given[n] : n \in Names} \cup {Absent}]
    /\ todo \subseteq Keys(m)
    /\ \A n \in Names :
          m[n] = IF lookup[n] # n THEN IF n \in todo THEN given[n] ELSE Absent
                 ELSE IF MovedTo(given, lookup, n) \ todo # {}
                      THEN given[CHOOSE k \in MovedTo(given, lookup, n) : TRUE]
                 ELSE given[n]

\* The keys that a range has still to write.
Waiting(range) == range.todo \cup ({range.key} \ {NoName})

\* The ranges that are open follow a path of objects.
RangeOpen(i) ==
    LET range == stack[i]
        props == heap[phase][range.node]
    IN  /\ RangeInv(Given[range.node], props, Waiting(range), Lookup)
        /\ range.key \notin range.todo
        /\ range.key = NoName => range.due = <<>> /\ i = Len(stack)
        /\ range.key # NoName => ToSet(range.due) \subseteq ToSet(ItemsOf(props[range.key]))
        /\ i < Len(stack) => stack[i + 1].node \in ObjectsIn(props[range.key])

\* An object under a key that has been handed out is done, is being walked, or
\* is due.
Entered(i, done) ==
    LET range == stack[i]
    IN  \A n \in Names \ range.todo : \A c \in ObjectsIn(heap[phase][range.node][n]) \ done :
           /\ n = range.key
           /\ c \in ToSet(range.due) \/ (i < Len(stack) /\ c = stack[i + 1].node)

RenamedObjects(h, of, lookup) == {m \in Nodes : h[m] = TransformBody(of[m], lookup)}

\* An object that is not being walked is as it was or as it will be.
Touched(renamed) ==
    \A m \in Nodes \ renamed : heap[phase][m] = Given[m] \/ \E i \in 1 .. Len(stack) : stack[i].node = m

\* Whatever is in an object that is done is done.
Full(h, done) == \A m \in done : Below(h, m) \subseteq done

WalkInv ==
    phase \in DOMAIN heap =>
        LET renamed == RenamedObjects(heap[phase], Given, Lookup)
        IN  /\ Touched(renamed)
            /\ stack # <<>> => stack[1].node = Root
            /\ \A i \in 1 .. Len(stack) : RangeOpen(i)
            /\ \E done \in SUBSET renamed :
                  /\ Full(heap[phase], done)
                  /\ \A i \in 1 .. Len(stack) : Entered(i, done)
                  /\ stack = <<>> => Root \in done

-----------------------------------------------------------------------------
(* The handlers. *)

Renamed(h, of, lookup) ==
    \E done \in SUBSET RenamedObjects(h, of, lookup) : Root \in done /\ Full(h, done)

\* What the handler has made so far stays what its walk has left.
MadeInv ==
    /\ phase = "answered" => heap.outputs = NoProps
    /\ phase = "answered" \/ call.op # "import" => heap.inputs = NoProps
    /\ \A m \in Nodes : Below(heap.inputs, m) \subseteq Below(call.heap, m)
    /\ phase \in {"inputs", "body"} => call.op = "import"
    /\ phase = "stored" => call.op \in {"create", "import"}
    /\ call.op = "import" /\ phase \in {"outputs", "stored", "body"} =>
          Renamed(heap.inputs, FilteredAnswer(call.heap), APIToSDKNameMap)
    /\ phase \in {"stored", "body", "failed", "panicked", "ended"} =>
          \/ phase = "panicked" /\ heap.outputs = NoProps
          \/ Renamed(heap.outputs, Answered, APIToSDKNameMap)
    /\ phase \in {"answered", "inputs", "outputs", "stored"} => target = Absent

CodecInvariant == CodecTypes /\ WalkInv /\ MadeInv

=============================================================================
