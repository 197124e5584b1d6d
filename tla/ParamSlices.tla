------------------------------ MODULE ParamSlices ------------------------------
(***************************************************************************)
(* How concurrent handlers collect the parameters of one path of the       *)
(* OpenAPI document (the head of getPathParamsMap, rest/request.go): each  *)
(* appends its operation's parameters to the path's own, a slice of the    *)
(* shared document.  When the slice's backing array has room, append       *)
(* writes into it, where the other handlers do the same without a lock.    *)
(***************************************************************************)
EXTENDS Naturals, Sequences

CONSTANTS
    Handlers,    \* concurrent RPCs for resources of one type
    Methods,     \* operations of the path
    PathLevel,   \* the path's own parameters, a sequence
    OpParams,    \* by method, the operation's parameters, a sequence
    Capacities,  \* capacities the decoder may have given the path's slice
    Nil          \* an element of the backing array beyond the path's own

Params == {PathLevel[i] : i \in DOMAIN PathLevel}
          \cup UNION {{OpParams[m][i] : i \in DOMAIN OpParams[m]} : m \in Methods}

ASSUME SlicesAssumption ==
    /\ PathLevel \in Seq(Params) /\ OpParams \in [Methods -> Seq(Params)]
    /\ Capacities \subseteq {c \in Nat : c >= Len(PathLevel)}
    /\ Nil \notin Params

VARIABLES
    capacity,  \* cap(Parameters), settled when the document is decoded
    array,     \* the shared backing array
    pc,        \* by handler
    method,    \* by handler, the request method
    next,      \* by handler, the next index to write or to read
    private,   \* by handler, whether append made a copy
    seen       \* by handler, the parameters it has ranged over

vars == <<capacity, array, pc, method, next, private, seen>>

L == Len(PathLevel)

Own(m) == PathLevel \o OpParams[m]

TypeOK ==
    /\ capacity \in Capacities
    /\ array \in [1 .. capacity -> Params \cup {Nil}]
    /\ pc \in [Handlers -> {"idle", "append", "range", "done"}]
    /\ method \in [Handlers -> Methods]
    /\ private \in [Handlers -> BOOLEAN]
    /\ seen \in [Handlers -> Seq(Params \cup {Nil})]
    /\ DOMAIN next = Handlers
    /\ \A h \in Handlers : next[h] \in 1 .. Len(Own(method[h])) + 1

\* append finds room for all of the operation's parameters.
Fits(m) == Len(Own(m)) <= capacity

\* Mutant: the loop starts at 0.
BeginAtZero(h, m) ==
    /\ pc[h] = "idle"
    /\ method' = [method EXCEPT ![h] = m]
    /\ private' = [private EXCEPT ![h] = TRUE]
    /\ pc' = [pc EXCEPT ![h] = "range"]
    /\ next' = [next EXCEPT ![h] = 0]
    /\ seen' = [seen EXCEPT ![h] = <<>>]
    /\ UNCHANGED <<capacity, array>>

Begin(h, m) ==
    /\ pc[h] = "idle"
    /\ method' = [method EXCEPT ![h] = m]
    /\ private' = [private EXCEPT ![h] = ~Fits(m)]
    /\ pc' = [pc EXCEPT ![h] = IF Fits(m) /\ OpParams[m] # <<>> THEN "append" ELSE "range"]
    /\ next' = [next EXCEPT ![h] = IF Fits(m) /\ OpParams[m] # <<>> THEN L + 1 ELSE 1]
    /\ seen' = [seen EXCEPT ![h] = <<>>]
    /\ UNCHANGED <<capacity, array>>

\* Mutant: the loop goes on where append stopped.
StoreWithoutReset(h) ==
    /\ pc[h] = "append"
    /\ array' = [array EXCEPT ![next[h]] = OpParams[method[h]][next[h] - L]]
    /\ pc' = [pc EXCEPT ![h] = IF next[h] = Len(Own(method[h])) THEN "range" ELSE @]
    /\ next' = [next EXCEPT ![h] = @ + 1]
    /\ UNCHANGED <<capacity, method, private, seen>>

\* append stores one of the operation's parameters in the shared array.
Store(h) ==
    /\ pc[h] = "append"
    /\ array' = [array EXCEPT ![next[h]] = OpParams[method[h]][next[h] - L]]
    /\ pc' = [pc EXCEPT ![h] = IF next[h] = Len(Own(method[h])) THEN "range" ELSE @]
    /\ next' = [next EXCEPT ![h] = IF @ = Len(Own(method[h])) THEN 1 ELSE @ + 1]
    /\ UNCHANGED <<capacity, method, private, seen>>

\* One turn of the loop over the parameters.
Visit(h) ==
    /\ pc[h] = "range" /\ next[h] <= Len(Own(method[h]))
    /\ seen' = [seen EXCEPT ![h] =
                   Append(@, IF private[h] THEN Own(method[h])[next[h]] ELSE array[next[h]])]
    /\ next' = [next EXCEPT ![h] = @ + 1]
    /\ UNCHANGED <<capacity, array, pc, method, private>>

\* Mutant: the loop ranges over the slice as it was before append.
EndOfPathLevel(h) ==
    /\ pc[h] = "range" /\ next[h] > L
    /\ pc' = [pc EXCEPT ![h] = "done"]
    /\ UNCHANGED <<capacity, array, method, next, private, seen>>

EndOfRange(h) ==
    /\ pc[h] = "range" /\ next[h] > Len(Own(method[h]))
    /\ pc' = [pc EXCEPT ![h] = "done"]
    /\ UNCHANGED <<capacity, array, method, next, private, seen>>

\* The handler returns; the engine may call it again.
Return(h) ==
    /\ pc[h] = "done"
    /\ pc' = [pc EXCEPT ![h] = "idle"]
    /\ UNCHANGED <<capacity, array, method, next, private, seen>>

Init ==
    /\ capacity \in Capacities
    /\ array = [i \in 1 .. capacity |-> IF i <= L THEN PathLevel[i] ELSE Nil]
    /\ pc = [h \in Handlers |-> "idle"]
    /\ method \in [Handlers -> Methods]
    /\ next = [h \in Handlers |-> 1]
    /\ private = [h \in Handlers |-> FALSE]
    /\ seen = [h \in Handlers |-> <<>>]

Next ==
    \E h \in Handlers :
        \/ \E m \in Methods : Begin(h, m)
        \/ Store(h) \/ Visit(h) \/ EndOfRange(h) \/ Return(h)

Spec == Init /\ [][Next]_vars

-----------------------------------------------------------------------------

\* A handler fills the parameters of its own operation, each once, in the
\* document's order, whatever other handlers do ("peek into the OpenAPI doc
\* for the param names", request.go 146).
OwnParams == \A h \in Handlers : pc[h] = "done" => seen[h] = Own(method[h])

\* It does when the path's slice has no room to spare, so that append copies.
OwnParamsWhenFull == capacity = L => OwnParams

\* Room or no room, a handler always sees the path's own parameters, and in
\* the place of each of its operation's parameters one that some operation of
\* the path declares there: never an element nobody has written.
SeesDeclared ==
    \A h \in Handlers :
        /\ pc[h] = "done" => Len(seen[h]) = Len(Own(method[h]))
        /\ \A i \in DOMAIN seen[h] :
              IF i <= L THEN seen[h][i] = PathLevel[i]
              ELSE \E m \in Methods :
                      i - L \in DOMAIN OpParams[m] /\ seen[h][i] = OpParams[m][i - L]

=============================================================================
