--------------------------- MODULE ParamSlicesProofs ---------------------------
(***************************************************************************)
(* For any number of handlers, parameters and operations, and whatever the *)
(* capacity of the shared slice.                                           *)
(***************************************************************************)
EXTENDS ParamSlices, TLAPS

Declared(i, v) == \E m \in Methods : i - L \in DOMAIN OpParams[m] /\ v = OpParams[m][i - L]

Types ==
    /\ capacity \in Capacities
    /\ array \in [1 .. capacity -> Params \cup {Nil}]
    /\ pc \in [Handlers -> {"idle", "append", "range", "done"}]
    /\ method \in [Handlers -> Methods]
    /\ next \in [Handlers -> Nat]
    /\ private \in [Handlers -> BOOLEAN]
    /\ seen \in [Handlers -> Seq(Params \cup {Nil})]

\* The shared array: the path's parameters, then what some handler stored.
ArrayInv ==
    \A i \in 1 .. capacity :
        IF i <= L THEN array[i] = PathLevel[i] ELSE array[i] = Nil \/ Declared(i, array[i])

\* A handler for method m that is at p with next index n, when the slice's
\* capacity is cap and its array arr: it stores within the array, and all it
\* will read there is stored before it reads.
Goes(p, m, n, own, s, cap, arr) ==
    /\ n \in 1 .. Len(Own(m)) + 1
    /\ p = "append" => /\ Len(Own(m)) <= cap /\ ~own /\ s = <<>>
                       /\ n > L /\ n <= Len(Own(m))
                       /\ \A i \in L + 1 .. n - 1 : arr[i] # Nil
    /\ p = "range" => /\ Len(s) = n - 1
                      /\ ~own => /\ Len(Own(m)) <= cap
                                 /\ \A i \in L + 1 .. Len(Own(m)) : arr[i] # Nil
    /\ p = "done" => Len(s) = Len(Own(m))
    /\ \A i \in 1 .. Len(s) : IF i <= L THEN s[i] = PathLevel[i] ELSE Declared(i, s[i])

HandlerInv ==
    \A h \in Handlers :
        Goes(pc[h], method[h], next[h], private[h], seen[h], capacity, array)

SlicesInv == Types /\ ArrayInv /\ HandlerInv

LEMMA OwnFacts ==
    /\ L \in Nat /\ L = Len(PathLevel) /\ PathLevel \in Seq(Params)
    /\ \A i \in 1 .. L : PathLevel[i] \in Params
    /\ \A m \in Methods :
          /\ OpParams[m] \in Seq(Params) /\ Own(m) \in Seq(Params)
          /\ Len(Own(m)) = L + Len(OpParams[m]) /\ Len(Own(m)) \in Nat /\ Len(Own(m)) >= L
          /\ OpParams[m] = <<>> <=> Len(Own(m)) = L
          /\ \A i \in 1 .. L : Own(m)[i] = PathLevel[i]
          /\ \A i \in L + 1 .. Len(Own(m)) :
                Own(m)[i] = OpParams[m][i - L] /\ i - L \in DOMAIN OpParams[m]
BY SlicesAssumption DEF L, Own

LEMMA CapacityFacts == capacity \in Capacities => capacity \in Nat /\ capacity >= L
BY SlicesAssumption DEF L

\* A handler that has seen nothing is where it should be.
LEMMA GoesFromNothing ==
    ASSUME NEW p, NEW m \in Methods, NEW n \in 1 .. Len(Own(m)) + 1, NEW own, NEW cap, NEW arr,
           p # "done",
           p = "append" => /\ Len(Own(m)) <= cap /\ ~own /\ n > L /\ n <= Len(Own(m))
                           /\ \A i \in L + 1 .. n - 1 : arr[i] # Nil,
           p = "range" => /\ n = 1
                          /\ ~own => /\ Len(Own(m)) <= cap
                                     /\ \A i \in L + 1 .. Len(Own(m)) : arr[i] # Nil
    PROVE  Goes(p, m, n, own, <<>>, cap, arr)
<1> DEFINE none == <<>>
<1>1. none = <<>> /\ Len(none) = 0
  OBVIOUS
<1> HIDE DEF none
<1>2. \A i \in 1 .. Len(none) : FALSE
  BY <1>1
<1>3. Goes(p, m, n, own, none, cap, arr)
  BY <1>1, <1>2 DEF Goes
<1> QED BY <1>1, <1>3

LEMMA SlicesInit == Init => SlicesInv
<1> SUFFICES ASSUME Init PROVE SlicesInv
  OBVIOUS
<1>1. capacity \in Capacities /\ capacity \in Nat /\ capacity >= L
  BY CapacityFacts DEF Init
<1>2. array \in [1 .. capacity -> Params \cup {Nil}] /\ ArrayInv
  BY <1>1, OwnFacts DEF Init, ArrayInv
<1>3. \A h \in Handlers : seen[h] = <<>> /\ pc[h] = "idle" /\ next[h] = 1 /\ method[h] \in Methods
  BY DEF Init
<1>4. Types
  BY <1>1, <1>2 DEF Init, Types
<1>5. \A m \in Methods : Len(Own(m)) \in Nat
  BY OwnFacts
<1>6. HandlerInv
  <2> SUFFICES ASSUME NEW h \in Handlers
               PROVE  Goes("idle", method[h], 1, private[h], <<>>, capacity, array)
    BY <1>3 DEF HandlerInv
  <2>1. 1 \in 1 .. Len(Own(method[h])) + 1
    BY <1>3, <1>5
  <2> QED BY <1>3, <2>1, GoesFromNothing
<1> QED BY <1>2, <1>4, <1>6 DEF SlicesInv

\* What other handlers store does not disturb a handler.
LEMMA GoesOn ==
    ASSUME NEW p, NEW m \in Methods, NEW n, NEW own, NEW s, NEW cap \in Nat, NEW arr, NEW arr2,
           Goes(p, m, n, own, s, cap, arr),
           \A i \in 1 .. cap : arr[i] # Nil => arr2[i] # Nil
    PROVE  Goes(p, m, n, own, s, cap, arr2)
<1>1. L \in Nat /\ Len(Own(m)) \in Nat
  BY OwnFacts
<1>2. ASSUME p = "append" PROVE \A i \in L + 1 .. n - 1 : arr2[i] # Nil
  <2>1. n \in Nat /\ n <= cap /\ \A i \in L + 1 .. n - 1 : arr[i] # Nil
    BY <1>1, <1>2 DEF Goes
  <2> QED BY <1>1, <2>1
<1>3. ASSUME p = "range", ~own PROVE \A i \in L + 1 .. Len(Own(m)) : arr2[i] # Nil
  <2>1. Len(Own(m)) <= cap /\ \A i \in L + 1 .. Len(Own(m)) : arr[i] # Nil
    BY <1>3 DEF Goes
  <2> QED BY <1>1, <2>1
<1> QED BY <1>2, <1>3 DEF Goes

\* A step of handler h: what the others do not notice.
LEMMA OneHandler ==
    ASSUME Types, HandlerInv, capacity' = capacity, NEW h \in Handlers,
           \A i \in 1 .. capacity : array[i] # Nil => array'[i] # Nil,
           \A k \in Handlers \ {h} :
              /\ pc'[k] = pc[k] /\ method'[k] = method[k] /\ next'[k] = next[k]
              /\ private'[k] = private[k] /\ seen'[k] = seen[k],
           Goes(pc'[h], method'[h], next'[h], private'[h], seen'[h], capacity, array')
    PROVE  HandlerInv'
<1>1. capacity \in Nat
  BY CapacityFacts DEF Types
<1>2. ASSUME NEW k \in Handlers \ {h}
      PROVE  Goes(pc'[k], method'[k], next'[k], private'[k], seen'[k], capacity, array')
  <2>1. Goes(pc[k], method[k], next[k], private[k], seen[k], capacity, array) /\ method[k] \in Methods
    BY DEF HandlerInv, Types
  <2>2. Goes(pc[k], method[k], next[k], private[k], seen[k], capacity, array')
    BY <1>1, <2>1, GoesOn
  <2> QED BY <2>2
<1> QED BY <1>2 DEF HandlerInv

LEMMA BeginKeeps ==
    ASSUME SlicesInv, NEW h \in Handlers, NEW m \in Methods, Begin(h, m) PROVE SlicesInv'
<1>0. /\ Types /\ ArrayInv /\ HandlerInv
      /\ capacity \in Nat /\ capacity >= L /\ L \in Nat
  BY OwnFacts, CapacityFacts DEF SlicesInv, Types
<1>1. /\ capacity' = capacity /\ array' = array
      /\ method' = [method EXCEPT ![h] = m] /\ private' = [private EXCEPT ![h] = ~Fits(m)]
      /\ seen' = [seen EXCEPT ![h] = <<>>]
  BY DEF Begin
<1>2. Fits(m) = (Len(Own(m)) <= capacity) /\ Fits(m) \in BOOLEAN
  BY <1>0, OwnFacts DEF Fits
<1>3. CASE Fits(m) /\ OpParams[m] # <<>>
  <2>1. pc' = [pc EXCEPT ![h] = "append"] /\ next' = [next EXCEPT ![h] = L + 1]
    BY <1>3 DEF Begin
  <2>2. Goes("append", m, L + 1, FALSE, <<>>, capacity, array)
    <3>1. /\ Len(Own(m)) \in Nat /\ L + 1 \in 1 .. Len(Own(m)) + 1 /\ L + 1 <= Len(Own(m))
          /\ L + 1 > L /\ Len(Own(m)) <= capacity
      <4>1. Len(Own(m)) \in Nat /\ Len(Own(m)) >= L /\ Len(Own(m)) # L
        BY <1>3, OwnFacts
      <4>2. Len(Own(m)) <= capacity
        BY <1>2, <1>3
      <4> QED BY <1>0, <4>1, <4>2
    <3> DEFINE p == "append"
               n == L + 1
               own == FALSE
    <3>2. \A i \in L + 1 .. n - 1 : array[i] # Nil
      BY <1>0
    <3>3. p # "done" /\ p # "range" /\ n > L /\ ~own /\ n <= Len(Own(m)) /\ n \in 1 .. Len(Own(m)) + 1
      BY <3>1
    <3>4. p = "append" /\ n = L + 1 /\ own = FALSE
      OBVIOUS
    <3> HIDE DEF p, n, own
    <3>5. Goes(p, m, n, own, <<>>, capacity, array)
      BY <3>1, <3>2, <3>3, GoesFromNothing
    <3> QED BY <3>4, <3>5
  <2>3. Types'
    BY <1>0, <1>1, <1>2, <2>1 DEF Types
  <2>4. HandlerInv'
    <3>1. /\ pc'[h] = "append" /\ method'[h] = m /\ next'[h] = L + 1 /\ private'[h] = FALSE
          /\ seen'[h] = <<>>
      BY <1>0, <1>1, <1>3, <2>1 DEF Types
    <3>2. \A k \in Handlers \ {h} :
              /\ pc'[k] = pc[k] /\ method'[k] = method[k] /\ next'[k] = next[k]
              /\ private'[k] = private[k] /\ seen'[k] = seen[k]
      BY <1>0, <1>1, <2>1 DEF Types
    <3>3. Goes(pc'[h], method'[h], next'[h], private'[h], seen'[h], capacity, array')
      BY <1>1, <2>2, <3>1
    <3> QED BY <1>0, <1>1, <3>2, <3>3, OneHandler
  <2> QED BY <1>0, <1>1, <2>3, <2>4 DEF SlicesInv, ArrayInv
<1>4. CASE ~(Fits(m) /\ OpParams[m] # <<>>)
  <2>1. pc' = [pc EXCEPT ![h] = "range"] /\ next' = [next EXCEPT ![h] = 1]
    BY <1>4 DEF Begin
  <2>2. Goes("range", m, 1, ~Fits(m), <<>>, capacity, array)
    BY <1>0, <1>2, <1>4, OwnFacts DEF Goes
  <2>3. Types'
    BY <1>0, <1>1, <1>2, <2>1 DEF Types
  <2>4. HandlerInv'
    <3>1. /\ pc'[h] = "range" /\ method'[h] = m /\ next'[h] = 1 /\ private'[h] = ~Fits(m)
          /\ seen'[h] = <<>>
      BY <1>0, <1>1, <2>1 DEF Types
    <3>2. \A k \in Handlers \ {h} :
              /\ pc'[k] = pc[k] /\ method'[k] = method[k] /\ next'[k] = next[k]
              /\ private'[k] = private[k] /\ seen'[k] = seen[k]
      BY <1>0, <1>1, <2>1 DEF Types
    <3>3. Goes(pc'[h], method'[h], next'[h], private'[h], seen'[h], capacity, array')
      BY <1>1, <2>2, <3>1
    <3> QED BY <1>0, <1>1, <3>2, <3>3, OneHandler
  <2> QED BY <1>0, <1>1, <2>3, <2>4 DEF SlicesInv, ArrayInv
<1> QED BY <1>3, <1>4

LEMMA StoreKeeps ==
    ASSUME SlicesInv, NEW h \in Handlers, Store(h) PROVE SlicesInv'
<1> DEFINE m == method[h]
           n == next[h]
           v == OpParams[m][n - L]
<1>0. /\ Types /\ ArrayInv /\ HandlerInv
      /\ capacity \in Nat /\ capacity >= L /\ L \in Nat
  BY OwnFacts, CapacityFacts DEF SlicesInv, Types
<1>1. /\ pc[h] = "append" /\ array' = [array EXCEPT ![n] = v]
      /\ pc' = [pc EXCEPT ![h] = IF n = Len(Own(m)) THEN "range" ELSE "append"]
      /\ next' = [next EXCEPT ![h] = IF n = Len(Own(m)) THEN 1 ELSE n + 1]
      /\ UNCHANGED <<capacity, method, private, seen>>
  BY <1>0 DEF Store, Types
<1>2. /\ m \in Methods /\ n \in Nat /\ private[h] = FALSE /\ seen[h] = <<>>
      /\ Goes("append", m, n, FALSE, <<>>, capacity, array)
  BY <1>0, <1>1 DEF HandlerInv, Goes, Types
<1> HIDE DEF m, n
<1>3. /\ n > L /\ n <= Len(Own(m)) /\ Len(Own(m)) <= capacity
      /\ \A i \in L + 1 .. n - 1 : array[i] # Nil
  BY <1>2 DEF Goes
<1>4. n \in 1 .. capacity /\ n - L \in DOMAIN OpParams[m] /\ v \in Params
  BY <1>0, <1>2, <1>3, OwnFacts
<1>5. Declared(n, v) /\ v # Nil
  BY <1>2, <1>4, SlicesAssumption DEF Declared
<1> HIDE DEF v
<1>6. \A i \in 1 .. capacity : array'[i] = IF i = n THEN v ELSE array[i]
  BY <1>0, <1>1, <1>4 DEF Types
<1>7. Types'
  BY <1>0, <1>1, <1>2, <1>4 DEF Types
<1>8. ArrayInv'
  BY <1>0, <1>1, <1>3, <1>5, <1>6 DEF ArrayInv
<1>9. \A i \in 1 .. capacity : array[i] # Nil => array'[i] # Nil
  BY <1>5, <1>6
<1>10. \A i \in L + 1 .. n : array'[i] # Nil
  BY <1>0, <1>3, <1>4, <1>5, <1>6
<1>11. Goes(pc'[h], m, next'[h], FALSE, <<>>, capacity, array')
  <2>0. Len(Own(m)) \in Nat
    BY <1>2, OwnFacts
  <2>1. CASE n = Len(Own(m))
    <3>1. pc'[h] = "range" /\ next'[h] = 1
      BY <1>0, <1>1, <2>1 DEF Types
    <3> QED BY <1>3, <1>10, <2>0, <2>1, <3>1 DEF Goes
  <2>2. CASE n # Len(Own(m))
    <3>1. pc'[h] = "append" /\ next'[h] = n + 1
      BY <1>0, <1>1, <2>2 DEF Types
    <3>2. n + 1 \in 1 .. Len(Own(m)) + 1 /\ n + 1 > L /\ n + 1 <= Len(Own(m)) /\ (n + 1) - 1 = n
      BY <1>0, <1>2, <1>3, <2>0, <2>2
    <3> QED BY <1>3, <1>10, <3>1, <3>2 DEF Goes
  <2> QED BY <2>1, <2>2
<1>12. HandlerInv'
  <2>1. method'[h] = m /\ private'[h] = FALSE /\ seen'[h] = <<>>
    BY <1>1, <1>2 DEF m
  <2>2. \A k \in Handlers \ {h} :
              /\ pc'[k] = pc[k] /\ method'[k] = method[k] /\ next'[k] = next[k]
              /\ private'[k] = private[k] /\ seen'[k] = seen[k]
    BY <1>0, <1>1 DEF Types
  <2> QED BY <1>0, <1>1, <1>9, <1>11, <2>1, <2>2, OneHandler
<1> QED BY <1>7, <1>8, <1>12 DEF SlicesInv

LEMMA VisitKeeps ==
    ASSUME SlicesInv, NEW h \in Handlers, Visit(h) PROVE SlicesInv'
<1> DEFINE m == method[h]
           n == next[h]
           s == seen[h]
           x == IF private[h] THEN Own(m)[n] ELSE array[n]
<1>0. /\ Types /\ ArrayInv /\ HandlerInv
      /\ capacity \in Nat /\ capacity >= L /\ L \in Nat
  BY OwnFacts, CapacityFacts DEF SlicesInv, Types
<1>1. /\ pc[h] = "range" /\ n <= Len(Own(m))
      /\ seen' = [seen EXCEPT ![h] = Append(s, x)] /\ next' = [next EXCEPT ![h] = n + 1]
      /\ UNCHANGED <<capacity, array, pc, method, private>>
  BY <1>0 DEF Visit, Types
<1>2. /\ m \in Methods /\ n \in Nat /\ s \in Seq(Params \cup {Nil})
      /\ Goes("range", m, n, private[h], s, capacity, array)
  BY <1>0, <1>1 DEF HandlerInv, Types
<1>3. x \in Params \cup {Nil} /\ IF n <= L THEN x = PathLevel[n] ELSE Declared(n, x)
  <2>1. n \in 1 .. Len(Own(m)) /\ Len(Own(m)) \in Nat
    BY <1>1, <1>2, OwnFacts DEF Goes
  <2>2. CASE private[h]
    <3>1. x = Own(m)[n] /\ x \in Params
      BY <1>2, <2>1, <2>2, OwnFacts
    <3>2. CASE n <= L
      BY <1>0, <1>2, <2>1, <3>1, <3>2, OwnFacts
    <3>3. CASE n > L
      <4>1. n - L \in DOMAIN OpParams[m] /\ x = OpParams[m][n - L]
        <5>1. n \in L + 1 .. Len(Own(m))
          BY <1>0, <1>2, <2>1, <3>3
        <5>2. Own(m)[n] = OpParams[m][n - L] /\ n - L \in DOMAIN OpParams[m]
          BY <1>2, <5>1, OwnFacts
        <5> QED BY <3>1, <5>2
      <4> QED BY <1>0, <1>2, <3>1, <3>3, <4>1 DEF Declared
    <3> QED BY <1>0, <1>2, <3>2, <3>3
  <2>3. CASE ~private[h]
    <3>1. x = array[n] /\ n \in 1 .. capacity /\ (n > L => array[n] # Nil)
      BY <1>0, <1>2, <2>1, <2>3 DEF Goes
    <3>2. array[n] \in Params \cup {Nil}
      BY <1>0, <3>1 DEF Types
    <3> QED BY <1>0, <1>2, <3>1, <3>2 DEF ArrayInv
  <2> QED BY <2>2, <2>3
<1> HIDE DEF x, n, m, s
<1>4. Types'
  <2>1. Append(s, x) \in Seq(Params \cup {Nil})
    BY <1>2, <1>3
  <2> QED BY <1>0, <1>1, <1>2, <2>1 DEF Types
<1>5. Goes("range", m, n + 1, private[h], Append(s, x), capacity, array)
  <2>1. Len(s) = n - 1 /\ n >= 1 /\ n \in 1 .. Len(Own(m)) + 1 /\ Len(Own(m)) \in Nat
    BY <1>2, OwnFacts DEF Goes
  <2>2. Len(Append(s, x)) = n /\ Append(s, x)[n] = x /\ \A i \in 1 .. n - 1 : Append(s, x)[i] = s[i]
    BY <1>2, <1>3, <2>1
  <2>3. \A i \in 1 .. n : IF i <= L THEN Append(s, x)[i] = PathLevel[i] ELSE Declared(i, Append(s, x)[i])
    BY <1>2, <1>3, <2>1, <2>2 DEF Goes
  <2> QED BY <1>1, <1>2, <2>1, <2>2, <2>3 DEF Goes
<1>6. HandlerInv'
  <2>1. /\ pc'[h] = "range" /\ method'[h] = m /\ private'[h] = private[h]
        /\ seen'[h] = Append(s, x) /\ next'[h] = n + 1
    BY <1>0, <1>1 DEF Types, m
  <2>2. \A k \in Handlers \ {h} :
              /\ pc'[k] = pc[k] /\ method'[k] = method[k] /\ next'[k] = next[k]
              /\ private'[k] = private[k] /\ seen'[k] = seen[k]
    BY <1>0, <1>1 DEF Types
  <2> QED BY <1>0, <1>1, <1>5, <2>1, <2>2, OneHandler
<1> QED BY <1>0, <1>1, <1>4, <1>6 DEF SlicesInv, ArrayInv

LEMMA TurnKeeps ==
    ASSUME SlicesInv, NEW h \in Handlers, EndOfRange(h) \/ Return(h) PROVE SlicesInv'
<1>0. Types /\ ArrayInv /\ HandlerInv
  BY DEF SlicesInv
<1>1. /\ UNCHANGED <<capacity, array, method, next, private, seen>>
      /\ \/ pc[h] = "range" /\ next[h] > Len(Own(method[h])) /\ pc' = [pc EXCEPT ![h] = "done"]
         \/ pc' = [pc EXCEPT ![h] = "idle"]
  BY DEF EndOfRange, Return
<1>2. method[h] \in Methods /\ Len(Own(method[h])) \in Nat
  BY <1>0, OwnFacts DEF Types
<1>3. Goes(pc[h], method[h], next[h], private[h], seen[h], capacity, array)
  BY <1>0 DEF HandlerInv
<1>4. Goes(pc'[h], method[h], next[h], private[h], seen[h], capacity, array)
  <2>1. \/ pc[h] = "range" /\ next[h] > Len(Own(method[h])) /\ pc'[h] = "done"
        \/ pc'[h] = "idle"
    BY <1>0, <1>1 DEF Types
  <2> QED BY <1>2, <1>3, <2>1 DEF Goes
<1>5. HandlerInv'
  <2>1. \A k \in Handlers \ {h} : pc'[k] = pc[k]
    BY <1>0, <1>1 DEF Types
  <2> QED BY <1>0, <1>1, <1>4, <2>1, OneHandler
<1> QED BY <1>0, <1>1, <1>5 DEF SlicesInv, Types, ArrayInv

LEMMA SlicesInvariant == Spec => []SlicesInv
<1>1. SlicesInv /\ UNCHANGED vars => SlicesInv'
  BY DEF vars, SlicesInv, Types, ArrayInv, HandlerInv
<1>2. SlicesInv /\ [Next]_vars => SlicesInv'
  BY <1>1, BeginKeeps, StoreKeeps, VisitKeeps, TurnKeeps DEF Next
<1> QED BY <1>2, SlicesInit, PTL DEF Spec

\* The indices of the loop stay within the slice.
THEOREM SlicesTypes == Spec => []TypeOK
<1>1. SlicesInv => TypeOK
  BY DEF SlicesInv, Types, HandlerInv, Goes, TypeOK
<1> QED BY <1>1, SlicesInvariant, PTL

\* With any capacity, a racing handler sees only declared parameters, the
\* path's own ones all of them, and never an element nobody has written.
THEOREM AlwaysSeesDeclared == Spec => []SeesDeclared
<1>1. SlicesInv => SeesDeclared
  <2> SUFFICES ASSUME SlicesInv, NEW h \in Handlers
               PROVE  /\ pc[h] = "done" => Len(seen[h]) = Len(Own(method[h]))
                      /\ \A i \in DOMAIN seen[h] :
                            IF i <= L THEN seen[h][i] = PathLevel[i] ELSE Declared(i, seen[h][i])
    BY DEF SeesDeclared, Declared
  <2>1. Goes(pc[h], method[h], next[h], private[h], seen[h], capacity, array)
        /\ seen[h] \in Seq(Params \cup {Nil})
    BY DEF SlicesInv, HandlerInv, Types
  <2>2. DOMAIN seen[h] = 1 .. Len(seen[h])
    BY <2>1
  <2> QED BY <2>1, <2>2 DEF Goes
<1> QED BY <1>1, SlicesInvariant, PTL

\* When the slice is full, what a handler has seen begins its own parameters.
OwnSoFar(m, s) == \A i \in 1 .. Len(s) : s[i] = Own(m)[i]

FullInv == capacity = L => \A h \in Handlers : OwnSoFar(method[h], seen[h])

LEMMA FullInit == Init => FullInv
<1> SUFFICES ASSUME Init, NEW h \in Handlers PROVE OwnSoFar(method[h], seen[h])
  BY DEF FullInv
<1>1. seen[h] = <<>> /\ Len(seen[h]) = 0
  BY DEF Init
<1> QED BY <1>1 DEF OwnSoFar

\* A handler that visits reads its own parameter, from its copy or, when it has
\* none of its own beyond the path's, from the part of the array nobody writes.
LEMMA FullVisit ==
    ASSUME SlicesInv, FullInv, capacity = L, NEW h \in Handlers, Visit(h)
    PROVE  OwnSoFar(method[h], seen'[h])
<1> DEFINE m == method[h]
           n == next[h]
           s == seen[h]
           x == IF private[h] THEN Own(m)[n] ELSE array[n]
<1>1. /\ Types /\ ArrayInv /\ m \in Methods /\ n \in Nat /\ s \in Seq(Params \cup {Nil})
      /\ Goes("range", m, n, private[h], s, capacity, array) /\ n <= Len(Own(m))
      /\ private[h] \in BOOLEAN /\ L \in Nat
  BY OwnFacts DEF SlicesInv, Types, HandlerInv, Visit
<1>2. seen'[h] = Append(s, x)
  BY <1>1 DEF Visit, Types
<1>3. Len(s) = n - 1 /\ n >= 1 /\ Len(Own(m)) \in Nat /\ Len(Own(m)) >= L
  BY <1>1, OwnFacts DEF Goes
<1>4. x = Own(m)[n]
  <2>1. CASE private[h]
    BY <2>1
  <2>2. CASE ~private[h]
    <3>1. Len(Own(m)) = L /\ n \in 1 .. L
      BY <1>1, <1>3, <2>2 DEF Goes
    <3>2. array[n] = PathLevel[n]
      BY <1>1, <3>1 DEF ArrayInv
    <3>3. Own(m)[n] = PathLevel[n]
      BY <1>1, <3>1, OwnFacts
    <3> QED BY <2>2, <3>2, <3>3
  <2> QED BY <1>1, <2>1, <2>2
<1>5. x \in Params \cup {Nil}
  <2>1. Own(m) \in Seq(Params) /\ n \in 1 .. Len(Own(m))
    BY <1>1, <1>3, OwnFacts
  <2> QED BY <1>4, <2>1
<1>6. OwnSoFar(m, s)
  BY DEF FullInv
<1> HIDE DEF m, n, s, x
<1>7. Len(Append(s, x)) = n /\ Append(s, x)[n] = x /\ \A i \in 1 .. n - 1 : Append(s, x)[i] = s[i]
  BY <1>1, <1>3, <1>5
<1>8. OwnSoFar(m, Append(s, x))
  BY <1>1, <1>3, <1>4, <1>6, <1>7 DEF OwnSoFar
<1> QED BY <1>2, <1>8 DEF m

LEMMA FullStep == SlicesInv /\ FullInv /\ [Next]_vars => FullInv'
<1> SUFFICES ASSUME SlicesInv, FullInv, [Next]_vars, capacity' = L, NEW k \in Handlers
             PROVE  OwnSoFar(method'[k], seen'[k])
  BY DEF FullInv, L, OwnSoFar, Own
<1>1. capacity = L
  BY DEF Next, vars, Begin, Store, Visit, EndOfRange, Return
<1>2. OwnSoFar(method[k], seen[k])
  BY <1>1 DEF FullInv
<1>3. seen \in [Handlers -> Seq(Params \cup {Nil})] /\ method \in [Handlers -> Methods]
  BY DEF SlicesInv, Types
<1>4. ASSUME NEW h \in Handlers, NEW m \in Methods, Begin(h, m) PROVE OwnSoFar(method'[k], seen'[k])
  <2>1. CASE k = h
    <3>1. seen'[k] = <<>> /\ Len(seen'[k]) = 0
      BY <1>3, <1>4, <2>1 DEF Begin
    <3> QED BY <3>1 DEF OwnSoFar
  <2>2. CASE k # h
    BY <1>2, <1>3, <1>4, <2>2 DEF Begin
  <2> QED BY <2>1, <2>2
<1>5. ASSUME NEW h \in Handlers, Visit(h) PROVE OwnSoFar(method'[k], seen'[k])
  <2>1. method' = method
    BY <1>5 DEF Visit
  <2>2. CASE k = h
    BY <1>1, <1>5, <2>1, <2>2, FullVisit
  <2>3. CASE k # h
    BY <1>2, <1>3, <1>5, <2>1, <2>3 DEF Visit
  <2> QED BY <2>2, <2>3
<1>6. ASSUME NEW h \in Handlers, Store(h) \/ EndOfRange(h) \/ Return(h)
      PROVE  OwnSoFar(method'[k], seen'[k])
  BY <1>2, <1>6 DEF Store, EndOfRange, Return
<1>7. CASE UNCHANGED vars
  BY <1>2, <1>7 DEF vars
<1> QED BY <1>4, <1>5, <1>6, <1>7 DEF Next

\* When append has to copy, handlers do not disturb each other: each fills in
\* its own operation's parameters.
THEOREM CopiesAreOwn == Spec => []OwnParamsWhenFull
<1>1. SlicesInv /\ FullInv => OwnParamsWhenFull
  <2> SUFFICES ASSUME SlicesInv, FullInv, capacity = L, NEW h \in Handlers, pc[h] = "done"
               PROVE  seen[h] = Own(method[h])
    BY DEF OwnParamsWhenFull, OwnParams
  <2>1. Goes("done", method[h], next[h], private[h], seen[h], capacity, array)
        /\ seen[h] \in Seq(Params \cup {Nil}) /\ method[h] \in Methods
    BY DEF SlicesInv, HandlerInv, Types
  <2>2. Len(seen[h]) = Len(Own(method[h])) /\ OwnSoFar(method[h], seen[h])
    BY <2>1 DEF Goes, FullInv
  <2>3. Own(method[h]) \in Seq(Params)
    BY <2>1, OwnFacts
  <2>4. \A i \in 1 .. Len(seen[h]) : seen[h][i] = Own(method[h])[i]
    BY <2>2 DEF OwnSoFar
  <2> QED BY <2>1, <2>2, <2>3, <2>4
<1> QED BY <1>1, FullInit, FullStep, SlicesInvariant, PTL DEF Spec

=============================================================================
