---------------------------- MODULE CodecProofs -----------------------------
(***************************************************************************)
(* TransformBody on objects in objects, for every answer and every order   *)
(* in which Go ranges over its maps; and what becomes of its id.           *)
(***************************************************************************)
EXTENDS CodecInv, SequenceTheorems, TLAPS

-----------------------------------------------------------------------------
(* The stack of open ranges. *)

LEMMA PopRange ==
    ASSUME NEW F, NEW s \in Seq(F), s # <<>>
    PROVE  /\ Front(s) \in Seq(F) /\ Len(s) \in Nat \ {0} /\ Len(Front(s)) = Len(s) - 1
           /\ \A i \in 1 .. Len(s) - 1 : Front(s)[i] = s[i]
           /\ Last(s) = s[Len(s)] /\ Last(s) \in F
<1>1. Len(s) \in Nat \ {0}
  BY EmptySeq
<1>2. \A i \in 1 .. Len(s) : s[i] \in F
  BY ElementOfSeq
<1>3. \A i \in 1 .. Len(s) - 1 : s[i] \in F
  BY <1>1, <1>2
<1>4. /\ SubSeq(s, 1, Len(s) - 1) \in Seq(F)
      /\ Len(SubSeq(s, 1, Len(s) - 1)) = IF 1 <= Len(s) - 1 THEN Len(s) - 1 - 1 + 1 ELSE 0
      /\ \A i \in 1 .. Len(s) - 1 - 1 + 1 : SubSeq(s, 1, Len(s) - 1)[i] = s[1 + i - 1]
  BY <1>1, <1>3, SubSeqProperties
<1>5. Len(SubSeq(s, 1, Len(s) - 1)) = Len(s) - 1
  <2>1. \A n \in Nat \ {0} : (IF 1 <= n - 1 THEN n - 1 - 1 + 1 ELSE 0) = n - 1
    OBVIOUS
  <2> QED BY <1>1, <1>4, <2>1
<1>6. \A i \in 1 .. Len(s) - 1 : SubSeq(s, 1, Len(s) - 1)[i] = s[i]
  BY <1>1, <1>4
<1>7. Front(s) = SubSeq(s, 1, Len(s) - 1) /\ Last(s) = s[Len(s)] /\ s[Len(s)] \in F
  BY <1>1, <1>2 DEF Front, Last
<1> QED BY <1>1, <1>4, <1>5, <1>6, <1>7

LEMMA ReplaceTop ==
    ASSUME NEW F, NEW s \in Seq(F), s # <<>>, NEW x \in F
    PROVE  LET t == Append(Front(s), x)
           IN  /\ t \in Seq(F) /\ t # <<>> /\ Len(t) = Len(s) /\ t[Len(s)] = x
               /\ \A i \in 1 .. Len(s) - 1 : t[i] = s[i]
BY PopRange, AppendProperties

LEMMA PushRange ==
    ASSUME NEW F, NEW s \in Seq(F), s # <<>>, NEW x \in F, NEW y \in F
    PROVE  LET t == Append(Append(Front(s), x), y)
           IN  /\ t \in Seq(F) /\ t # <<>> /\ Len(t) = Len(s) + 1
               /\ t[Len(s)] = x /\ t[Len(s) + 1] = y
               /\ \A i \in 1 .. Len(s) - 1 : t[i] = s[i]
<1> DEFINE u == Append(Front(s), x)
<1>1. /\ u \in Seq(F) /\ Len(u) = Len(s) /\ u[Len(s)] = x /\ Len(s) \in Nat \ {0}
      /\ \A i \in 1 .. Len(s) - 1 : u[i] = s[i]
  BY ReplaceTop, PopRange
<1> HIDE DEF u
<1>2. /\ Append(u, y) \in Seq(F) /\ Append(u, y) # <<>> /\ Len(Append(u, y)) = Len(u) + 1
      /\ \A i \in 1 .. Len(u) : Append(u, y)[i] = u[i]
      /\ Append(u, y)[Len(u) + 1] = y
  BY <1>1, AppendProperties
<1> QED BY <1>1, <1>2 DEF u

LEMMA SetOfTail ==
    ASSUME NEW F, NEW s \in Seq(F), s # <<>>
    PROVE  /\ Head(s) \in F /\ Tail(s) \in Seq(F)
           /\ ToSet(s) = {Head(s)} \cup ToSet(Tail(s))
<1>1. /\ Head(s) \in F /\ Tail(s) \in Seq(F) /\ Len(Tail(s)) = Len(s) - 1
      /\ \A i \in 1 .. Len(Tail(s)) : Tail(s)[i] = s[i + 1]
      /\ Len(s) \in Nat \ {0} /\ Head(s) = s[1]
  BY HeadTailProperties, EmptySeq
<1>2. DOMAIN s = 1 .. Len(s) /\ DOMAIN Tail(s) = 1 .. Len(Tail(s))
  BY <1>1, LenProperties
<1>3. ASSUME NEW i \in 1 .. Len(s), i # 1 PROVE s[i] \in ToSet(Tail(s))
  <2>1. i - 1 \in 1 .. Len(Tail(s)) /\ Tail(s)[i - 1] = s[i]
    BY <1>1, <1>3
  <2> QED BY <1>2, <2>1 DEF ToSet
<1>4. ASSUME NEW i \in 1 .. Len(Tail(s)) PROVE Tail(s)[i] \in ToSet(s)
  <2>1. i + 1 \in 1 .. Len(s)
    BY <1>1
  <2> QED BY <1>1, <1>2, <2>1 DEF ToSet
<1>5. s[1] \in ToSet(s)
  BY <1>1, <1>2 DEF ToSet
<1> QED BY <1>1, <1>2, <1>3, <1>4, <1>5 DEF ToSet

-----------------------------------------------------------------------------
(* A range over one map, which deletes and inserts keys of it. *)

Lookups == {SDKToAPINameMap, APIToSDKNameMap}

\* Two keys of a map are never renamed to the same name.
LEMMA OneMover ==
    ASSUME NEW lookup \in Lookups, NEW given, NEW n \in Names,
           NEW k \in MovedTo(given, lookup, n)
    PROVE  /\ lookup[k] = n /\ k \in Names /\ k # n /\ lookup[n] = n
           /\ MovedTo(given, lookup, n) = {k}
           /\ (CHOOSE j \in MovedTo(given, lookup, n) : TRUE) = k
<1>1. lookup[k] = n /\ k \in Names /\ k # n
  BY DEF MovedTo, Keys
<1>2. lookup[n] = n
  BY <1>1, RenamingAssumption DEF Lookups
<1>3. ASSUME NEW j \in MovedTo(given, lookup, n) PROVE j = k
  <2>1. lookup[j] = n /\ j \in Names /\ j # n
    BY DEF MovedTo, Keys
  <2> QED BY <1>1, <2>1, RenamingAssumption DEF Lookups
<1>4. MovedTo(given, lookup, n) = {k}
  BY <1>3
<1> QED BY <1>1, <1>2, <1>4

\* The invariant holds when a range starts.
LEMMA RangeStarts ==
    ASSUME NEW lookup \in Lookups, NEW given, given = [n \in Names |-> given[n]]
    PROVE  RangeInv(given, given, Keys(given), lookup)
<1>1. given \in [Names -> {given[n] : n \in Names} \cup {Absent}]
  OBVIOUS
<1>2. ASSUME NEW n \in Names
      PROVE  MovedTo(given, lookup, n) \ Keys(given) = {}
  BY DEF MovedTo
<1>3. ASSUME NEW n \in Names, lookup[n] # n
      PROVE  given[n] = IF n \in Keys(given) THEN given[n] ELSE Absent
  BY DEF Keys
<1> QED BY <1>1, <1>2, <1>3 DEF RangeInv

\* A turn of the loop preserves it, whichever key Go hands out, and whether or
\* not it will visit the key that the turn inserts.
LEMMA RangeGoesOn ==
    ASSUME NEW lookup \in Lookups, NEW given, NEW m, NEW todo,
           RangeInv(given, m, todo, lookup),
           NEW key \in todo, NEW more \in SUBSET {lookup[key]}
    PROVE  RangeInv(given, RenameKey(m, key, lookup), (todo \ {key}) \cup more, lookup)
<1> DEFINE next == RenameKey(m, key, lookup)
           left == (todo \ {key}) \cup more
           name == lookup[key]
<1>1. key \in Names /\ name \in Names /\ m[key] # Absent /\ lookup[name] = name
  BY NamesAssumption, RenamingAssumption DEF RangeInv, Keys, Lookups
<1>2. /\ \A n \in Names : next[n] = IF n = name THEN m[key]
                                    ELSE IF n = key THEN Absent ELSE m[n]
      /\ next \in [Names -> {given[n] : n \in Names} \cup {Absent}]
  BY <1>1 DEF RangeInv, RenameKey, Without
<1>3. left \subseteq Keys(next)
  <2> SUFFICES ASSUME NEW n \in left PROVE n \in Names /\ next[n] # Absent
    BY DEF Keys
  <2>1. CASE n = name
    BY <2>1, <1>1, <1>2
  <2>2. CASE n # name
    BY <2>2, <1>2 DEF RangeInv, Keys
  <2> QED BY <2>1, <2>2
<1>4. ASSUME NEW n \in Names
      PROVE  next[n] = IF lookup[n] # n THEN IF n \in left THEN given[n] ELSE Absent
                       ELSE IF MovedTo(given, lookup, n) \ left # {}
                            THEN given[CHOOSE k \in MovedTo(given, lookup, n) : TRUE]
                       ELSE given[n]
  <2>1. CASE lookup[n] # n
    <3>1. n # name
      BY <1>1, <2>1
    <3>2. n \in left <=> n \in todo /\ n # key
      BY <3>1
    <3>3. m[n] = IF n \in todo THEN given[n] ELSE Absent
      BY <2>1 DEF RangeInv
    <3> QED BY <1>2, <2>1, <3>1, <3>2, <3>3
  <2>2. CASE lookup[n] = n /\ n = name /\ key # name
    <3>1. m[key] = given[key] /\ given[key] # Absent
      BY <1>1, <2>2 DEF RangeInv
    <3>2. key \in MovedTo(given, lookup, n)
      BY <1>1, <2>2, <3>1 DEF MovedTo, Keys
    <3>3. key \notin left
      BY <2>2
    <3>4. (CHOOSE k \in MovedTo(given, lookup, n) : TRUE) = key
      BY <3>2, OneMover
    <3> QED BY <1>2, <2>2, <3>1, <3>2, <3>3, <3>4
  <2>3. CASE lookup[n] = n /\ ~(n = name /\ key # name)
    <3>1. next[n] = m[n]
      BY <1>1, <1>2, <2>3
    <3>2. ASSUME NEW k \in MovedTo(given, lookup, n) PROVE k \in left <=> k \in todo
      <4>1. lookup[k] = n /\ k # n
        BY DEF MovedTo
      <4>2. k # key /\ k # name
        BY <1>1, <2>3, <4>1
      <4> QED BY <4>2
    <3>3. MovedTo(given, lookup, n) \ left = MovedTo(given, lookup, n) \ todo
      BY <3>2
    <3> QED BY <2>3, <3>1, <3>3 DEF RangeInv
  <2> QED BY <2>1, <2>2, <2>3
<1> QED BY <1>2, <1>3, <1>4 DEF RangeInv

\* When no key is left the map is the one that TransformBody defines.
LEMMA RangeEnds ==
    ASSUME NEW lookup \in Lookups, NEW given, NEW m, RangeInv(given, m, {}, lookup)
    PROVE  m = TransformBody(given, lookup)
<1> SUFFICES ASSUME NEW n \in Names PROVE m[n] = TransformBody(given, lookup)[n]
  BY DEF RangeInv, TransformBody
<1>1. CASE MovedTo(given, lookup, n) # {}
  <2>1. PICK k \in MovedTo(given, lookup, n) : TRUE
    BY <1>1
  <2>2. lookup[n] = n
    BY <2>1, OneMover
  <2> QED BY <1>1, <2>2 DEF RangeInv, TransformBody
<1>2. CASE MovedTo(given, lookup, n) = {}
  BY <1>2 DEF RangeInv, TransformBody
<1> QED BY <1>1, <1>2

\* The loop of TransformBody over one map, from its first turn to its end.
\* RangeInv, which says what the map holds by nothing but the keys that wait,
\* is true when the range starts; it stays true in a turn for any waiting key,
\* whether or not the key that the turn inserts comes to wait; and once no key
\* waits the map is the renamed one.  So whatever order Go takes the loop has
\* the same result: no property is lost but one whose name another takes, and
\* none stays under its old name.
THEOREM RangeIsTransform ==
    ASSUME NEW lookup \in Lookups, NEW given, given = [n \in Names |-> given[n]]
    PROVE  /\ RangeInv(given, given, Keys(given), lookup)
           /\ \A m, todo : RangeInv(given, m, todo, lookup) =>
                 \A key \in todo : \A more \in SUBSET {lookup[key]} :
                    RangeInv(given, RenameKey(m, key, lookup), (todo \ {key}) \cup more, lookup)
           /\ \A m : RangeInv(given, m, {}, lookup) => m = TransformBody(given, lookup)
<1>1. RangeInv(given, given, Keys(given), lookup)
  BY RangeStarts
<1>2. ASSUME NEW m, NEW todo, RangeInv(given, m, todo, lookup),
             NEW key \in todo, NEW more \in SUBSET {lookup[key]}
      PROVE  RangeInv(given, RenameKey(m, key, lookup), (todo \ {key}) \cup more, lookup)
  BY <1>2, RangeGoesOn
<1>3. ASSUME NEW m, RangeInv(given, m, {}, lookup) PROVE m = TransformBody(given, lookup)
  BY <1>3, RangeEnds
<1> QED BY <1>1, <1>2, <1>3

\* Renaming a second time changes nothing: a key that Go visits again, or an
\* answer that already has the names of the SDK, comes out as it went in.
THEOREM TransformTwice ==
    ASSUME NEW lookup \in Lookups, NEW given
    PROVE  TransformBody(TransformBody(given, lookup), lookup) = TransformBody(given, lookup)
<1> DEFINE once == TransformBody(given, lookup)
<1>1. ASSUME NEW n \in Names, lookup[n] # n PROVE once[n] = Absent
  <2>1. MovedTo(given, lookup, n) = {}
    BY <1>1, OneMover
  <2> QED BY <1>1, <2>1 DEF TransformBody
<1>2. ASSUME NEW n \in Names PROVE MovedTo(once, lookup, n) = {}
  <2> SUFFICES ASSUME NEW k \in MovedTo(once, lookup, n) PROVE FALSE
    OBVIOUS
  <2>1. k \in Names /\ once[k] # Absent /\ lookup[k] = n /\ k # n
    BY DEF MovedTo, Keys
  <2> QED BY <1>1, <2>1
<1>3. ASSUME NEW n \in Names
      PROVE  TransformBody(once, lookup)[n] = IF lookup[n] = n THEN once[n] ELSE Absent
  BY <1>2 DEF TransformBody
<1>4. ASSUME NEW n \in Names PROVE TransformBody(once, lookup)[n] = once[n]
  BY <1>1, <1>3
<1>5. once = [n \in Names |-> once[n]]
      /\ TransformBody(once, lookup) = [n \in Names |-> TransformBody(once, lookup)[n]]
  BY DEF TransformBody
<1> QED BY <1>4, <1>5

\* A range over a map that is renamed already has got to the end.
LEMMA RangeRestarts ==
    ASSUME NEW lookup \in Lookups, NEW given, given = [n \in Names |-> given[n]],
           NEW m, m = TransformBody(given, lookup)
    PROVE  RangeInv(given, m, Keys(m), lookup)
<1>1. ASSUME NEW n \in Names, NEW k \in MovedTo(given, lookup, n)
      PROVE  m[n] = given[k] /\ k \in Names /\ lookup[n] = n
  <2>1. m[n] = given[CHOOSE j \in MovedTo(given, lookup, n) : TRUE]
    BY DEF TransformBody
  <2>2. MovedTo(given, lookup, n) = {k} /\ k \in Names /\ lookup[n] = n
    BY OneMover
  <2> QED BY <2>1, <2>2
<1>2. ASSUME NEW n \in Names, MovedTo(given, lookup, n) = {}
      PROVE  m[n] = IF lookup[n] = n THEN given[n] ELSE Absent
  BY <1>2 DEF TransformBody
<1>3. m = [n \in Names |-> m[n]]
  BY DEF TransformBody
<1>4. ASSUME NEW n \in Names, lookup[n] # n PROVE m[n] = Absent
  <2>1. MovedTo(given, lookup, n) = {}
    BY <1>1, <1>4
  <2> QED BY <1>2, <1>4, <2>1
<1>5. ASSUME NEW n \in Names PROVE m[n] = Absent \/ \E k \in Names : m[n] = given[k]
  <2>1. CASE MovedTo(given, lookup, n) = {}
    BY <1>2, <2>1
  <2>2. CASE MovedTo(given, lookup, n) # {}
    BY <1>1, <2>2
  <2> QED BY <2>1, <2>2
<1>6. ASSUME NEW n \in Names, NEW k \in MovedTo(given, lookup, n) PROVE k \notin Keys(m)
  <2>1. k \in Names /\ lookup[k] # k
    BY OneMover
  <2> QED BY <1>4, <2>1 DEF Keys
<1>7. ASSUME NEW n \in Names, NEW k \in MovedTo(given, lookup, n)
      PROVE  /\ MovedTo(given, lookup, n) \ Keys(m) # {}
             /\ m[n] = given[CHOOSE j \in MovedTo(given, lookup, n) : TRUE]
  BY <1>6 DEF TransformBody
<1>8. ASSUME NEW n \in Names
      PROVE  m[n] = IF lookup[n] # n THEN IF n \in Keys(m) THEN given[n] ELSE Absent
                    ELSE IF MovedTo(given, lookup, n) \ Keys(m) # {}
                         THEN given[CHOOSE j \in MovedTo(given, lookup, n) : TRUE]
                    ELSE given[n]
  <2>1. CASE lookup[n] # n
    BY <1>4, <2>1 DEF Keys
  <2>2. CASE lookup[n] = n /\ MovedTo(given, lookup, n) = {}
    BY <1>2, <2>2
  <2>3. CASE lookup[n] = n /\ MovedTo(given, lookup, n) # {}
    <3>1. PICK k : k \in MovedTo(given, lookup, n)
      BY <2>3
    <3> QED BY <1>7, <2>3, <3>1
  <2> QED BY <2>1, <2>2, <2>3
<1>9. m \in [Names -> {given[n] : n \in Names} \cup {Absent}]
  <2> DEFINE V == {given[n] : n \in Names} \cup {Absent}
  <2>1. ASSUME NEW n \in Names PROVE m[n] \in V
    BY <1>5, Zenon
  <2> HIDE DEF V
  <2>2. m \in [Names -> V]
    BY <1>3, <2>1, Zenon
  <2> QED BY <2>2 DEF V
<1> QED BY <1>8, <1>9 DEF RangeInv

\* ... and its turns change nothing.
LEMMA RenameRenamed ==
    ASSUME NEW lookup \in Lookups, NEW given, NEW m, m = TransformBody(given, lookup),
           NEW key \in Keys(m)
    PROVE  lookup[key] = key /\ RenameKey(m, key, lookup) = m
<1>1. key \in Names /\ m[key] # Absent /\ m = [n \in Names |-> m[n]]
  BY DEF Keys, TransformBody
<1>2. lookup[key] = key
  <2> SUFFICES ASSUME lookup[key] # key PROVE FALSE
    OBVIOUS
  <2>1. MovedTo(given, lookup, key) = {}
    BY <1>1, OneMover
  <2> QED BY <1>1, <2>1 DEF TransformBody
<1>3. RenameKey(m, key, lookup) = [n \in Names |-> m[n]]
  BY <1>1, <1>2 DEF RenameKey, Without
<1> QED BY <1>1, <1>2, <1>3

-----------------------------------------------------------------------------
(* Objects and what is in them. *)

LEMMA ValuesHaveItems ==
    ASSUME NEW v \in JSONValues
    PROVE  ItemsOf(v) \in Seq(Scalars \cup Nodes) /\ ObjectsIn(v) \subseteq Nodes
<1>1. CASE v \in Nodes
  <2>1. <<v>> \in Seq(Scalars \cup Nodes)
    BY <1>1
  <2> QED BY <1>1, <2>1 DEF ItemsOf, ObjectsIn
<1>2. CASE v \notin Nodes /\ v \in Scalars \cup {Absent}
  BY <1>2 DEF ItemsOf, ObjectsIn
<1>3. CASE v \notin Nodes /\ v \notin Scalars \cup {Absent}
  BY <1>3 DEF ItemsOf, ObjectsIn, JSONValues
<1> QED BY <1>1, <1>2, <1>3

LEMMA ScalarsHoldNothing ==
    ASSUME NEW v \in Scalars \cup {Absent} PROVE ObjectsIn(v) = {}
<1>1. v \notin Nodes
  BY CodecAssumption DEF Scalars
<1>2. ItemsOf(v) = <<>>
  BY <1>1 DEF ItemsOf
<1> QED BY <1>2 DEF ObjectsIn, ToSet

LEMMA HeldBelow ==
    ASSUME NEW h, NEW m, NEW n \in Names, NEW c \in ObjectsIn(h[m][n])
    PROVE  c \in Below(h, m)
BY DEF Below

\* A map with no other values than another one has no other objects in it.
LEMMA BelowLess ==
    ASSUME NEW h, NEW of, NEW m,
           \A n \in Names : h[m][n] \in Scalars \cup {Absent} \/ \E k \in Names : h[m][n] = of[m][k]
    PROVE  Below(h, m) \subseteq Below(of, m)
<1> SUFFICES ASSUME NEW n \in Names, NEW c \in ObjectsIn(h[m][n]) PROVE c \in Below(of, m)
  BY DEF Below
<1>1. h[m][n] \notin Scalars \cup {Absent}
  BY ScalarsHoldNothing
<1>2. PICK k \in Names : h[m][n] = of[m][k]
  BY <1>1
<1> QED BY <1>2, HeldBelow

LEMMA AcyclicLess ==
    ASSUME NEW h, NEW of, Acyclic(of), \A m \in Nodes : Below(h, m) \subseteq Below(of, m)
    PROVE  Acyclic(h)
<1> SUFFICES ASSUME NEW S \in SUBSET Nodes, S # {} PROVE \E m \in S : Below(h, m) \cap S = {}
  BY DEF Acyclic
<1>1. PICK m \in S : Below(of, m) \cap S = {}
  BY DEF Acyclic
<1> QED BY <1>1

\* A path of objects does not come back to where it was.
LEMMA NoCycle ==
    ASSUME NEW h, Acyclic(h), NEW p, NEW i \in Nat, NEW j \in Nat, i < j,
           \A k \in i .. j : p[k] \in Nodes,
           \A k \in i .. j - 1 : p[k + 1] \in Below(h, p[k])
    PROVE  p[i] # p[j]
<1> SUFFICES ASSUME p[i] = p[j] PROVE FALSE
  OBVIOUS
<1> DEFINE S == {p[k] : k \in i .. j - 1}
<1>1. S \in SUBSET Nodes /\ p[i] \in S
  OBVIOUS
<1>2. PICK m \in S : Below(h, m) \cap S = {}
  BY <1>1 DEF Acyclic
<1>3. PICK k \in i .. j - 1 : m = p[k]
  OBVIOUS
<1>4. p[k + 1] \in Below(h, m)
  BY <1>3
<1>5. p[k + 1] \in S
  <2>1. CASE k = j - 1
    BY <1>1, <2>1
  <2>2. CASE k # j - 1
    <3>1. k + 1 \in i .. j - 1
      BY <2>2
    <3> QED BY <3>1
  <2> QED BY <2>1, <2>2
<1> QED BY <1>2, <1>4, <1>5

\* Renaming brings no value that was not there.
LEMMA RenamedValues ==
    ASSUME NEW lookup \in Lookups, NEW given, NEW n \in Names
    PROVE  LET v == TransformBody(given, lookup)[n]
           IN  v = Absent \/ \E k \in Names : v = given[k]
<1>1. CASE MovedTo(given, lookup, n) = {}
  BY <1>1 DEF TransformBody
<1>2. CASE MovedTo(given, lookup, n) # {}
  <2>1. PICK k : k \in MovedTo(given, lookup, n)
    BY <1>2
  <2>2. MovedTo(given, lookup, n) = {k} /\ k \in Names
    BY <2>1, OneMover
  <2>3. TransformBody(given, lookup)[n] = given[k]
    BY <2>2 DEF TransformBody
  <2> QED BY <2>2, <2>3
<1> QED BY <1>1, <1>2

\* A heap with another map at its root, which has no other objects in it.
Less(g, h) ==
    /\ \A m \in Nodes \ {Root} : g[m] = h[m]
    /\ \A n \in Names : g[Root][n] \in Scalars \cup {Absent} \/ g[Root][n] = h[Root][n]

LEMMA LessBelow ==
    ASSUME NEW h, NEW g, Less(g, h)
    PROVE  \A m \in Nodes : Below(g, m) \subseteq Below(h, m)
<1> SUFFICES ASSUME NEW m \in Nodes PROVE Below(g, m) \subseteq Below(h, m)
  OBVIOUS
<1>1. ASSUME NEW n \in Names
      PROVE  g[m][n] \in Scalars \cup {Absent} \/ \E k \in Names : g[m][n] = h[m][k]
  BY DEF Less
<1> QED BY <1>1, BelowLess

LEMMA FilteredIsLess ==
    ASSUME NEW h \in Heaps
    PROVE  /\ FilteredAnswer(h) \in Heaps
           /\ \A m \in Nodes : Below(FilteredAnswer(h), m) \subseteq Below(h, m)
           /\ \A m \in Nodes : FilteredAnswer(h)[m] = [n \in Names |-> FilteredAnswer(h)[m][n]]
           /\ \A m \in Nodes, n \in Names : FilteredAnswer(h)[m][n] \in {Absent, h[m][n]}
           /\ FilteredAnswer(h)[Root][Id] = Absent
<1> DEFINE props == FilterReadOnlyProperties(h[Root], Writable \cup {n \in Names : h[Root][n] \in Nodes})
           g == FilteredAnswer(h)
<1>1. g = [h EXCEPT ![Root] = props]
  BY DEF FilteredAnswer
<1>2. /\ props = [n \in Names |-> props[n]]
      /\ \A n \in Names : props[n] \in {Absent, h[Root][n]}
      /\ props[Id] = Absent
  BY NamesAssumption DEF FilterReadOnlyProperties
<1>3. \A m \in Nodes, n \in Names : h[m][n] \in JSONValues
  BY DEF Heaps
<1> HIDE DEF props, g
<1>4. props \in [Names -> JSONValues]
  BY <1>2, <1>3, CodecAssumption DEF JSONValues
<1>5. /\ g \in Heaps /\ \A m \in Nodes : Below(g, m) \subseteq Below(h, m)
      /\ g[Root] = props /\ \A m \in Nodes \ {Root} : g[m] = h[m]
  <2>1. g \in Heaps /\ g[Root] = props /\ \A m \in Nodes \ {Root} : g[m] = h[m]
    BY <1>1, <1>4, CodecAssumption DEF Heaps
  <2>2. Less(g, h)
    BY <1>2, <2>1 DEF Less
  <2> QED BY <2>1, <2>2, LessBelow
<1>6. \A m \in Nodes : g[m] = [n \in Names |-> g[m][n]]
  BY <1>5 DEF Heaps
<1>7. \A m \in Nodes, n \in Names : g[m][n] \in {Absent, h[m][n]}
  BY <1>2, <1>5
<1> QED BY <1>2, <1>5, <1>6, <1>7, CodecAssumption DEF g

\* An answer over the state of an import holds what it held, and the id when
\* it had none.
LEMMA OverlaidIsAnswer ==
    ASSUME NEW a \in Answers, call = a, call.op = "import"
    PROVE  /\ Overlaid \in Heaps /\ \A m \in Nodes : Below(Overlaid, m) \subseteq Below(a.heap, m)
           /\ \A m \in Nodes \ {Root} : Overlaid[m] = a.heap[m]
           /\ \A n \in Names \ {Id} : Overlaid[Root][n] = a.heap[Root][n]
           /\ Overlaid[Root][Id] = Else(a.heap[Root][Id], a.pinned)
           /\ a.pinned \in Texts
<1> DEFINE h == a.heap
           props == ApplyDiffFromCloudProvider(h[Root], Pinned)
<1>1. Overlaid = [h EXCEPT ![Root] = props]
  BY DEF Overlaid
<1>2. h \in Heaps /\ a.pinned \in Texts /\ a.pinned # Absent
  BY AnswersAssumption, CodecAssumption
<1>3. /\ Pinned[Id] = a.pinned /\ \A n \in Names \ {Id} : Pinned[n] = Absent
  BY NamesAssumption DEF Pinned, Empty
<1>4. props = [n \in Names |-> props[n]]
  BY DEF ApplyDiffFromCloudProvider
<1>5. ASSUME NEW n \in Names PROVE props[n] = Else(h[Root][n], Pinned[n])
  BY DEF ApplyDiffFromCloudProvider, Else, Adds, Updates, Keys
<1>6. \A n \in Names : h[Root][n] \in JSONValues
  BY <1>2, CodecAssumption DEF Heaps
<1>7. a.pinned \in JSONValues /\ a.pinned \in Scalars
  BY <1>2 DEF JSONValues, Scalars
<1> HIDE DEF h, props
<1>8. ASSUME NEW n \in Names \ {Id} PROVE props[n] = h[Root][n]
  BY <1>3, <1>5 DEF Else
<1>9. props[Id] = Else(h[Root][Id], a.pinned)
  BY <1>3, <1>5, NamesAssumption
<1>10. props \in [Names -> JSONValues]
  BY <1>4, <1>6, <1>7, <1>8, <1>9 DEF Else
<1>11. \A n \in Names : props[n] \in Scalars \cup {Absent} \/ props[n] = h[Root][n]
  BY <1>7, <1>8, <1>9 DEF Else
<1>12. /\ Overlaid \in Heaps /\ \A m \in Nodes : Below(Overlaid, m) \subseteq Below(h, m)
       /\ Overlaid[Root] = props /\ \A m \in Nodes \ {Root} : Overlaid[m] = h[m]
  <2>1. Overlaid \in Heaps /\ Overlaid[Root] = props /\ \A m \in Nodes \ {Root} : Overlaid[m] = h[m]
    BY <1>1, <1>2, <1>10, CodecAssumption DEF Heaps
  <2>2. Less(Overlaid, h)
    BY <1>11, <2>1 DEF Less
  <2> QED BY <2>1, <2>2, LessBelow
<1> QED BY <1>2, <1>8, <1>9, <1>12 DEF h

LEMMA PutBodyIsLess ==
    ASSUME heap.inputs \in Heaps
    PROVE  /\ PutBody \in Heaps /\ \A m \in Nodes : Below(PutBody, m) \subseteq Below(heap.inputs, m)
           /\ PutBody[Root] = RemovePathParams(heap.inputs[Root], ItemParams)
           /\ \A m \in Nodes \ {Root} : PutBody[m] = heap.inputs[m]
<1> DEFINE h == heap.inputs
           props == RemovePathParams(h[Root], ItemParams)
<1>1. PutBody = [h EXCEPT ![Root] = props]
  BY DEF PutBody
<1>2. props = [n \in Names |-> props[n]] /\ \A n \in Names : props[n] \in {Absent, h[Root][n]}
  BY DEF RemovePathParams, Without
<1>3. \A n \in Names : h[Root][n] \in JSONValues
  BY CodecAssumption DEF Heaps
<1> HIDE DEF props
<1>4. props \in [Names -> JSONValues]
  BY <1>2, <1>3 DEF JSONValues
<1>5. /\ PutBody \in Heaps /\ \A m \in Nodes : Below(PutBody, m) \subseteq Below(h, m)
      /\ PutBody[Root] = props /\ \A m \in Nodes \ {Root} : PutBody[m] = h[m]
  <2>1. PutBody \in Heaps /\ PutBody[Root] = props /\ \A m \in Nodes \ {Root} : PutBody[m] = h[m]
    BY <1>1, <1>4, CodecAssumption DEF Heaps
  <2>2. Less(PutBody, h)
    BY <1>2, <2>1 DEF Less
  <2> QED BY <2>1, <2>2, LessBelow
<1> QED BY <1>5 DEF props

\* What a walk starts from is a JSON document.
LEMMA GivenIsAnswer ==
    ASSUME CodecTypes, MadeInv, phase \in DOMAIN heap
    PROVE  Given \in Heaps /\ Acyclic(Given)
<1>1. call \in Answers /\ heap.inputs \in Heaps /\ phase \in {"outputs", "inputs", "body"}
  BY DEF CodecTypes
<1>2. call.heap \in Heaps /\ Acyclic(call.heap) /\ Wrapped(call) \in Heaps /\ Acyclic(Wrapped(call))
  BY <1>1, AnswersAssumption
<1>3. CASE phase = "outputs"
  <2>1. Given = Answered
    BY <1>3 DEF Given
  <2>2. CASE call.op = "import"
    BY <1>1, <1>2, <2>1, <2>2, OverlaidIsAnswer, AcyclicLess DEF Answered
  <2>3. CASE call.op # "import"
    BY <1>2, <2>1, <2>3 DEF Answered, ConvertInvokeOutput
  <2> QED BY <2>2, <2>3
<1>4. CASE phase = "inputs"
  <2>1. Given = FilteredAnswer(call.heap)
    BY <1>4 DEF Given
  <2> QED BY <1>2, <2>1, FilteredIsLess, AcyclicLess
<1>5. CASE phase = "body"
  <2>1. Given = PutBody
    BY <1>5 DEF Given
  <2>2. \A m \in Nodes : Below(heap.inputs, m) \subseteq Below(call.heap, m)
    BY DEF MadeInv
  <2>3. \A m \in Nodes : Below(PutBody, m) \subseteq Below(heap.inputs, m)
    BY <1>1, PutBodyIsLess
  <2>4. \A m \in Nodes : Below(PutBody, m) \subseteq Below(call.heap, m)
    BY <2>2, <2>3
  <2> QED BY <1>1, <1>2, <2>1, <2>4, PutBodyIsLess, AcyclicLess
<1> QED BY <1>1, <1>3, <1>4, <1>5

-----------------------------------------------------------------------------
(* A walk: every step preserves WalkInv. *)

LEMMA WalkingFacts ==
    ASSUME CodecInvariant, phase \in DOMAIN heap
    PROVE  /\ phase \in {"outputs", "inputs", "body"} /\ heap[phase] \in Heaps
           /\ Given \in Heaps /\ Acyclic(Given) /\ Lookup \in Lookups
           /\ Len(stack) \in Nat /\ stack \in Seq(Ranges)
           /\ \A i \in 1 .. Len(stack) : stack[i] \in Ranges /\ RangeOpen(i)
           /\ stack # <<>> => /\ Len(stack) \in Nat \ {0} /\ Top = stack[Len(stack)]
                              /\ Top \in Ranges
<1>1. /\ phase \in {"outputs", "inputs", "body"} /\ heap[phase] \in Heaps
      /\ stack \in Seq(Ranges) /\ \A i \in 1 .. Len(stack) : RangeOpen(i)
  BY DEF CodecInvariant, CodecTypes, WalkInv
<1>2. Given \in Heaps /\ Acyclic(Given)
  BY GivenIsAnswer DEF CodecInvariant
<1>3. Lookup \in Lookups
  BY DEF Lookup, Lookups
<1>4. Len(stack) \in Nat /\ \A i \in 1 .. Len(stack) : stack[i] \in Ranges
  BY <1>1, ElementOfSeq
<1>5. stack # <<>> => Len(stack) \in Nat \ {0} /\ Top = stack[Len(stack)] /\ Top \in Ranges
  BY <1>1, PopRange DEF Top
<1> QED BY <1>1, <1>2, <1>3, <1>4, <1>5

\* A range holds no other objects than those of the map it has started from.
LEMMA OpenBelow ==
    ASSUME CodecInvariant, phase \in DOMAIN heap, NEW i \in 1 .. Len(stack)
    PROVE  Below(heap[phase], stack[i].node) \subseteq Below(Given, stack[i].node)
<1> DEFINE m == stack[i].node
<1>1. heap[phase][m] \in [Names -> {Given[m][n] : n \in Names} \cup {Absent}]
  BY WalkingFacts DEF RangeOpen, RangeInv
<1> HIDE DEF m
<1>2. ASSUME NEW n \in Names
      PROVE  \/ heap[phase][m][n] \in Scalars \cup {Absent}
             \/ \E k \in Names : heap[phase][m][n] = Given[m][k]
  BY <1>1
<1> QED BY <1>2, BelowLess DEF m

\* The walk is in no object twice.
LEMMA Apart ==
    ASSUME CodecInvariant, phase \in DOMAIN heap, NEW i \in 1 .. Len(stack), NEW j \in 1 .. Len(stack), i < j
    PROVE  stack[i].node # stack[j].node
<1> DEFINE p == [k \in 1 .. Len(stack) |-> stack[k].node]
<1>1. \A k \in 1 .. Len(stack) : p[k] \in Nodes
  BY WalkingFacts DEF Ranges
<1>2. ASSUME NEW k \in i .. j - 1 PROVE p[k + 1] \in Below(Given, p[k])
  <2>1. k \in 1 .. Len(stack) /\ k + 1 \in 1 .. Len(stack) /\ k < Len(stack) /\ Len(stack) \in Nat
    BY WalkingFacts
  <2>2. RangeOpen(k) /\ stack[k] \in Ranges
    BY <2>1, WalkingFacts
  <2>3. stack[k + 1].node \in ObjectsIn(heap[phase][stack[k].node][stack[k].key]) /\ stack[k].key \in Names
    <3>1. stack[k].key # NoName
      BY <2>1, <2>2 DEF RangeOpen
    <3> QED BY <2>1, <2>2, <3>1 DEF RangeOpen, Ranges
  <2>4. stack[k + 1].node \in Below(heap[phase], stack[k].node)
    BY <2>3, HeldBelow
  <2> QED BY <2>1, <2>4, OpenBelow
<1>3. i \in Nat /\ j \in Nat /\ i .. j \subseteq 1 .. Len(stack)
  BY WalkingFacts
<1> HIDE DEF p
<1>4. p[i] # p[j]
  BY <1>1, <1>2, <1>3, WalkingFacts, NoCycle
<1> QED BY <1>4 DEF p

\* An object that is due is none of those that the walk is in.
LEMMA Fresh ==
    ASSUME CodecInvariant, Walking, NEW c \in ToSet(Top.due) \cap Nodes, NEW i \in 1 .. Len(stack)
    PROVE  /\ stack[i].node # c /\ Top.key \in Names
           /\ c \in ObjectsIn(heap[phase][Top.node][Top.key])
<1> DEFINE l == Len(stack)
           p == [k \in 1 .. l + 1 |-> IF k <= l THEN stack[k].node ELSE c]
<1>1. phase \in DOMAIN heap /\ stack # <<>>
  BY DEF Walking
<1>2. l \in Nat \ {0} /\ Top = stack[l] /\ Top \in Ranges /\ RangeOpen(l)
  BY <1>1, WalkingFacts
<1>3. Top.key # NoName
  <2> SUFFICES ASSUME Top.key = NoName PROVE FALSE
    OBVIOUS
  <2>1. Top.due = <<>>
    BY <1>2 DEF RangeOpen
  <2> QED BY <2>1 DEF ToSet
<1>4. Top.key \in Names
  BY <1>2, <1>3 DEF Ranges
<1>5. c \in ObjectsIn(heap[phase][Top.node][Top.key])
  BY <1>2, <1>3 DEF RangeOpen, ObjectsIn
<1>6. \A k \in 1 .. l + 1 : p[k] \in Nodes
  BY <1>1, WalkingFacts DEF Ranges
<1>7. ASSUME NEW k \in i .. (l + 1) - 1 PROVE p[k + 1] \in Below(Given, p[k])
  <2> k \in i .. l
    BY <1>2
  <2>1. CASE k = l
    <3>1. c \in Below(heap[phase], Top.node)
      BY <1>4, <1>5, HeldBelow
    <3> QED BY <1>1, <1>2, <2>1, <3>1, OpenBelow
  <2>2. CASE k # l
    <3>1. k \in 1 .. l /\ k + 1 \in 1 .. l /\ k < l
      BY <1>2, <2>2
    <3>2. RangeOpen(k) /\ stack[k] \in Ranges
      BY <1>1, <3>1, WalkingFacts
    <3>3. stack[k].key # NoName
      BY <1>2, <3>1, <3>2 DEF RangeOpen
    <3>4. stack[k + 1].node \in ObjectsIn(heap[phase][stack[k].node][stack[k].key]) /\ stack[k].key \in Names
      BY <3>1, <3>2, <3>3 DEF RangeOpen, Ranges
    <3>5. stack[k + 1].node \in Below(heap[phase], stack[k].node)
      BY <3>4, HeldBelow
    <3> QED BY <1>1, <3>1, <3>5, OpenBelow
  <2> QED BY <2>1, <2>2
<1>8. i \in Nat /\ l + 1 \in Nat /\ i < l + 1 /\ i .. l + 1 \subseteq 1 .. l + 1
  BY <1>2
<1>9. p[i] = stack[i].node /\ p[l + 1] = c
  BY <1>2
<1>10. p[i] # p[l + 1]
  <2> HIDE DEF p, l
  <2>1. Acyclic(Given)
    BY <1>1, WalkingFacts
  <2>2. \A k \in i .. l + 1 : p[k] \in Nodes
    BY <1>6, <1>8
  <2> QED BY <1>7, <1>8, <2>1, <2>2, NoCycle
<1> QED BY <1>4, <1>5, <1>9, <1>10

LEMMA GivenStays ==
    ASSUME CodecInvariant, phase' = phase, call' = call, phase \in DOMAIN heap,
           heap' = heap \/ \E h : heap' = [heap EXCEPT ![phase] = h]
    PROVE  Given' = Given /\ Lookup' = Lookup /\ DOMAIN heap' = DOMAIN heap
<1>1. phase = "body" => heap'.inputs = heap.inputs
  BY DEF CodecInvariant, CodecTypes
<1>2. Lookup' = Lookup /\ DOMAIN heap' = DOMAIN heap
  BY DEF Lookup
<1>3. phase \in {"outputs", "inputs", "body"}
  BY WalkingFacts
<1>4. CASE phase = "outputs"
  <2>1. Given = Answered /\ Given' = Answered'
    BY <1>4 DEF Given
  <2> QED BY <1>2, <2>1 DEF Answered, Overlaid, Pinned, ConvertInvokeOutput
<1>5. CASE phase = "inputs"
  <2>1. Given = FilteredAnswer(call.heap) /\ Given' = FilteredAnswer(call'.heap)
    BY <1>5 DEF Given
  <2> QED BY <1>2, <2>1
<1>6. CASE phase = "body"
  <2>1. Given = PutBody /\ Given' = PutBody'
    BY <1>6 DEF Given
  <2> QED BY <1>1, <1>2, <1>6, <2>1 DEF PutBody
<1> QED BY <1>2, <1>3, <1>4, <1>5, <1>6

\* A range that is not the innermost one does not notice what that one does.
LEMMA OuterRange ==
    ASSUME NEW i \in Nat, i < Len(stack), i < Len(stack'), stack'[i] = stack[i],
           stack'[i + 1].node = stack[i + 1].node,
           heap'[phase'][stack[i].node] = heap[phase][stack[i].node],
           Given' = Given, Lookup' = Lookup, RangeOpen(i)
    PROVE  /\ RangeOpen(i)'
           /\ \A old, new : Entered(i, old) /\ old \subseteq new => Entered(i, new)'
<1>1. RangeOpen(i)'
  BY DEF RangeOpen, Waiting
<1>2. ASSUME NEW old, NEW new, Entered(i, old), old \subseteq new PROVE Entered(i, new)'
  BY <1>2 DEF Entered
<1> QED BY <1>1, <1>2

LEMMA VisitStep ==
    ASSUME CodecInvariant, NEW k \in Names, Visit(k)
    PROVE  CodecTypes' /\ WalkInv'
<1>0. PICK l : l = Len(stack)
  OBVIOUS
<1> DEFINE props == heap[phase][Top.node]
           frame == [Top EXCEPT !.key = k, !.todo = @ \ {k}, !.due = ItemsOf(props[k])]
<1>1. /\ Top.key = NoName /\ k \in Top.todo /\ phase \in DOMAIN heap /\ stack # <<>>
      /\ stack' = Append(Front(stack), frame) /\ heap' = heap /\ phase' = phase /\ call' = call
  BY DEF Visit, Walking, Replace
<1>2. /\ l \in Nat \ {0} /\ Top = stack[l] /\ Top \in Ranges /\ RangeOpen(l) /\ stack \in Seq(Ranges)
      /\ heap[phase] \in Heaps /\ Given' = Given /\ Lookup' = Lookup
  BY <1>0, <1>1, WalkingFacts, GivenStays
<1>3. ItemsOf(props[k]) \in Seq(Scalars \cup Nodes)
  BY <1>2, ValuesHaveItems DEF Heaps, Ranges
<1>4. /\ frame.node = Top.node /\ frame.key = k /\ frame.todo = Top.todo \ {k}
      /\ frame.due = ItemsOf(props[k]) /\ frame \in Ranges
  BY <1>2, <1>3 DEF Ranges
<1> HIDE DEF frame
<1>5. /\ stack' \in Seq(Ranges) /\ stack' # <<>> /\ Len(stack') = l /\ stack'[l] = frame
      /\ \A i \in 1 .. l - 1 : stack'[i] = stack[i]
  <2>1. /\ stack' \in Seq(Ranges) /\ stack' # <<>> /\ Len(stack') = Len(stack)
        /\ stack'[Len(stack)] = frame /\ \A i \in 1 .. Len(stack) - 1 : stack'[i] = stack[i]
    BY <1>1, <1>2, <1>4, ReplaceTop
  <2> QED BY <1>0, <2>1
<1>6. CodecTypes'
  BY <1>1, <1>5 DEF CodecInvariant, CodecTypes
<1>7. \A i \in 1 .. l : stack'[i].node = stack[i].node
  BY <1>2, <1>4, <1>5
<1>8. RangeOpen(l)'
  <2>1. Waiting(frame) = Waiting(Top)
    BY <1>1, <1>2, <1>4, CodecAssumption DEF Waiting, Ranges
  <2>2. k # NoName
    BY CodecAssumption
  <2> QED BY <1>0, <1>1, <1>2, <1>4, <1>5, <2>1, <2>2 DEF RangeOpen
<1>9. ASSUME NEW done, Entered(l, done) PROVE Entered(l, done)'
  <2> SUFFICES ASSUME NEW n \in Names \ frame.todo, NEW c \in ObjectsIn(props[n]) \ done
               PROVE  n = k /\ c \in ToSet(frame.due)
    BY <1>0, <1>1, <1>4, <1>5 DEF Entered
  <2>1. n = k
    <3> SUFFICES ASSUME n \notin Top.todo PROVE FALSE
      BY <1>4
    <3>1. n = Top.key
      BY <1>2, <1>9 DEF Entered
    <3> QED BY <1>1, <3>1, CodecAssumption
  <2> QED BY <1>4, <2>1 DEF ObjectsIn
<1>10. ASSUME NEW i \in 1 .. l - 1
       PROVE  RangeOpen(i)' /\ \A done : Entered(i, done) => Entered(i, done)'
  <2>1. /\ i \in Nat /\ i < Len(stack) /\ i < Len(stack') /\ stack'[i] = stack[i]
        /\ stack'[i + 1].node = stack[i + 1].node /\ RangeOpen(i)
    BY <1>0, <1>1, <1>2, <1>5, <1>7, WalkingFacts
  <2> QED BY <1>1, <1>2, <2>1, OuterRange
<1>11. ASSUME NEW i \in 1 .. l PROVE RangeOpen(i)'
  <2>1. i = l \/ i \in 1 .. l - 1
    BY <1>2
  <2> QED BY <1>8, <1>10, <2>1
<1>12. ASSUME NEW done, NEW i \in 1 .. l, Entered(i, done) PROVE Entered(i, done)'
  <2>1. i = l \/ i \in 1 .. l - 1
    BY <1>2
  <2> QED BY <1>9, <1>10, <1>12, <2>1
<1> QED
  <2> DEFINE renamed == RenamedObjects(heap[phase], Given, Lookup)
  <2>1. renamed' = renamed /\ heap'[phase'] = heap[phase]
    BY <1>1, <1>2 DEF RenamedObjects
  <2>2. PICK done \in SUBSET renamed :
           Full(heap[phase], done) /\ \A i \in 1 .. l : Entered(i, done)
    BY <1>0, <1>1 DEF CodecInvariant, WalkInv
  <2>3. Touched(renamed) /\ stack[1].node = Root
    BY <1>1 DEF CodecInvariant, WalkInv
  <2> HIDE DEF renamed
  <2>4. Touched(renamed)'
    BY <1>0, <1>1, <1>2, <1>5, <1>7, <2>1, <2>3 DEF Touched
  <2>5. stack'[1].node = Root
    BY <1>2, <1>7, <2>3
  <2>6. Full(heap[phase], done)' /\ \A i \in 1 .. l : Entered(i, done)'
    BY <1>1, <1>12, <2>1, <2>2 DEF Full, Below
  <2>7. done \in SUBSET renamed'
    BY <2>1, <2>2
  <2> QED BY <1>5, <1>6, <1>11, <2>4, <2>5, <2>6, <2>7 DEF WalkInv, renamed

\* The outer ranges are as before when the innermost one is replaced by frame,
\* whether or not another one is entered.
LEMMA OuterRanges ==
    ASSUME CodecInvariant, phase \in DOMAIN heap, stack # <<>>, NEW l, l = Len(stack), NEW frame,
           frame.node = Top.node, l <= Len(stack'), stack'[l] = frame, Len(stack') \in Nat,
           \A i \in 1 .. l - 1 : stack'[i] = stack[i],
           \A i \in 1 .. l - 1 : heap'[phase'][stack[i].node] = heap[phase][stack[i].node],
           Given' = Given, Lookup' = Lookup,
           NEW i \in 1 .. l - 1
    PROVE  /\ RangeOpen(i)'
           /\ \A old, new : Entered(i, old) /\ old \subseteq new => Entered(i, new)'
<1>1. l \in Nat \ {0} /\ Top = stack[l]
  BY WalkingFacts
<1>2. RangeOpen(i) /\ i \in Nat /\ i < Len(stack) /\ i < Len(stack')
  BY <1>1, WalkingFacts
<1>3. stack'[i + 1].node = stack[i + 1].node
  <2>1. CASE i + 1 = l
    BY <1>1, <2>1
  <2>2. CASE i + 1 # l
    <3>1. i + 1 \in 1 .. l - 1
      BY <1>1, <2>2
    <3> QED BY <3>1
  <2> QED BY <2>1, <2>2
<1> QED BY <1>2, <1>3, OuterRange

LEMMA DescendStep ==
    ASSUME CodecInvariant, Descend
    PROVE  CodecTypes' /\ WalkInv'
<1>0. PICK l : l = Len(stack)
  OBVIOUS
<1>c. PICK c : c = Head(Top.due)
  OBVIOUS
<1>f. PICK frame : frame = [Top EXCEPT !.due = Tail(@)]
  OBVIOUS
<1>h. PICK h : h = heap[phase]
  OBVIOUS
<1>1. /\ Top.due # <<>> /\ phase \in DOMAIN heap /\ stack # <<>>
      /\ heap' = heap /\ phase' = phase /\ call' = call /\ Walking
      /\ stack' = IF c \in Nodes THEN Append(Append(Front(stack), frame), RangeOver(h, c))
                  ELSE Append(Front(stack), frame)
  BY <1>c, <1>f, <1>h DEF Descend, Walking
<1>2. /\ l \in Nat \ {0} /\ Top = stack[l] /\ Top \in Ranges /\ RangeOpen(l) /\ stack \in Seq(Ranges)
      /\ h \in Heaps /\ Given' = Given /\ Lookup' = Lookup /\ Given \in Heaps /\ Lookup \in Lookups
  BY <1>0, <1>1, <1>h, WalkingFacts, GivenStays
<1>3. /\ c \in Scalars \cup Nodes /\ Tail(Top.due) \in Seq(Scalars \cup Nodes)
      /\ ToSet(Top.due) = {c} \cup ToSet(Tail(Top.due))
  <2>1. Top.due \in Seq(Scalars \cup Nodes)
    BY <1>2 DEF Ranges
  <2> QED BY <1>1, <1>c, <2>1, SetOfTail
<1>4. /\ frame.node = Top.node /\ frame.key = Top.key /\ frame.todo = Top.todo
      /\ frame.due = Tail(Top.due) /\ frame \in Ranges
  BY <1>2, <1>3, <1>f DEF Ranges
<1>5. /\ RangeOver(h, c).node = c /\ RangeOver(h, c).todo = Keys(h[c])
      /\ RangeOver(h, c).key = NoName /\ RangeOver(h, c).due = <<>>
      /\ c \in Nodes => RangeOver(h, c) \in Ranges
  BY DEF RangeOver, Ranges, Keys
<1>6. /\ stack' \in Seq(Ranges) /\ stack' # <<>> /\ stack'[l] = frame
      /\ \A i \in 1 .. l - 1 : stack'[i] = stack[i]
      /\ c \notin Nodes => Len(stack') = l
      /\ c \in Nodes => Len(stack') = l + 1 /\ stack'[l + 1] = RangeOver(h, c)
  <2>1. CASE c \notin Nodes
    <3>1. stack' = Append(Front(stack), frame)
      BY <1>1, <2>1
    <3> QED BY <1>0, <1>1, <1>2, <1>4, <2>1, <3>1, ReplaceTop
  <2>2. CASE c \in Nodes
    <3>1. stack' = Append(Append(Front(stack), frame), RangeOver(h, c))
      BY <1>1, <2>2
    <3>2. RangeOver(h, c) \in Ranges
      BY <1>5, <2>2
    <3> QED BY <1>0, <1>1, <1>2, <1>4, <2>2, <3>1, <3>2, PushRange
  <2> QED BY <2>1, <2>2
<1>7. CodecTypes'
  BY <1>1, <1>6 DEF CodecInvariant, CodecTypes
<1>8. /\ \A i \in 1 .. l : stack[i].node # c \/ c \notin Nodes
      /\ c \in Nodes => Top.key \in Names /\ c \in ObjectsIn(h[Top.node][Top.key])
  <2>1. c \in ToSet(Top.due)
    BY <1>3
  <2> QED BY <1>0, <1>1, <1>2, <1>h, <2>1, Fresh
<1>9. Top.key # NoName
  BY <1>1, <1>2 DEF RangeOpen
<1>10. RangeOpen(l)'
  <2>1. Waiting(frame) = Waiting(Top)
    BY <1>4 DEF Waiting
  <2>2. ToSet(frame.due) \subseteq ToSet(Top.due)
    BY <1>3, <1>4
  <2>3. l < Len(stack') => stack'[l + 1].node = c /\ c \in Nodes
    BY <1>2, <1>3, <1>5, <1>6
  <2>4. h[Top.node] = heap'[phase'][frame.node]
    BY <1>1, <1>4, <1>h
  <2> QED BY <1>1, <1>2, <1>4, <1>6, <1>8, <1>9, <1>h, <2>1, <2>2, <2>3, <2>4 DEF RangeOpen
<1>11. ASSUME NEW done, Entered(l, done) PROVE Entered(l, done)'
  <2> SUFFICES ASSUME NEW n \in Names \ frame.todo, NEW x \in ObjectsIn(h[Top.node][n]) \ done
               PROVE  /\ n = frame.key
                      /\ x \in ToSet(frame.due) \/ (l < Len(stack') /\ x = stack'[l + 1].node)
    BY <1>1, <1>4, <1>6, <1>h DEF Entered
  <2>1. n = Top.key /\ x \in ToSet(Top.due)
    BY <1>0, <1>2, <1>4, <1>11, <1>h DEF Entered
  <2>2. x \in Nodes
    BY DEF ObjectsIn
  <2> QED BY <1>2, <1>3, <1>4, <1>5, <1>6, <2>1, <2>2
<1>12. ASSUME NEW i \in 1 .. l - 1
       PROVE  RangeOpen(i)' /\ \A done : Entered(i, done) => Entered(i, done)'
  <2>1. l <= Len(stack') /\ Len(stack') \in Nat
    BY <1>2, <1>6
  <2> QED BY <1>0, <1>1, <1>2, <1>4, <1>6, <2>1, OuterRanges
<1>13. ASSUME c \in Nodes PROVE RangeOpen(l + 1)' /\ \A done : Entered(l + 1, done)'
  <2>1. stack'[l + 1] = RangeOver(h, c) /\ Len(stack') = l + 1 /\ heap'[phase'] = h
    BY <1>1, <1>6, <1>13, <1>h
  <2>2. RangeInv(Given[c], h[c], Keys(h[c]), Lookup)
    <3>1. Given[c] = [n \in Names |-> Given[c][n]] /\ h[c] = [n \in Names |-> h[c][n]]
      BY <1>2, <1>13 DEF Heaps
    <3>2. CASE h[c] = Given[c]
      BY <1>2, <3>1, <3>2, RangeStarts
    <3>3. CASE h[c] # Given[c]
      <4>1. ~ \E i \in 1 .. Len(stack) : stack[i].node = c
        BY <1>0, <1>8, <1>13
      <4>2. h[c] = TransformBody(Given[c], Lookup)
        BY <1>1, <1>13, <1>h, <3>3, <4>1 DEF CodecInvariant, WalkInv, Touched, RenamedObjects
      <4> QED BY <1>2, <3>1, <4>2, RangeRestarts
    <3> QED BY <3>2, <3>3
  <2>3. Waiting(RangeOver(h, c)) = Keys(h[c])
    BY <1>5 DEF Waiting
  <2>4. NoName \notin Keys(h[c])
    BY CodecAssumption DEF Keys
  <2>5. RangeOpen(l + 1)'
    BY <1>2, <1>5, <2>1, <2>2, <2>3, <2>4 DEF RangeOpen
  <2>6. ASSUME NEW done PROVE Entered(l + 1, done)'
    <3>1. ASSUME NEW n \in Names \ Keys(h[c]) PROVE ObjectsIn(h[c][n]) = {}
      <4>1. h[c][n] = Absent
        BY DEF Keys
      <4> QED BY <4>1, ScalarsHoldNothing
    <3> QED BY <1>5, <2>1, <3>1 DEF Entered
  <2> QED BY <2>5, <2>6
<1>14. ASSUME NEW i \in 1 .. Len(stack')
       PROVE  i \in 1 .. l - 1 \/ i = l \/ (i = l + 1 /\ c \in Nodes)
  BY <1>2, <1>6
<1>15. ASSUME NEW i \in 1 .. Len(stack') PROVE RangeOpen(i)'
  BY <1>10, <1>12, <1>13, <1>14
<1>16. ASSUME NEW done, \A i \in 1 .. l : Entered(i, done), NEW i \in 1 .. Len(stack')
       PROVE  Entered(i, done)'
  <2>1. CASE i \in 1 .. l - 1
    BY <1>2, <1>12, <1>16, <2>1
  <2>2. CASE i = l
    BY <1>2, <1>11, <1>16, <2>2
  <2>3. CASE i = l + 1 /\ c \in Nodes
    BY <1>13, <2>3
  <2> QED BY <1>14, <2>1, <2>2, <2>3
<1> QED
  <2> DEFINE renamed == RenamedObjects(heap[phase], Given, Lookup)
  <2>1. renamed' = renamed /\ heap'[phase'] = heap[phase]
    BY <1>1, <1>2 DEF RenamedObjects
  <2>2. PICK done \in SUBSET renamed :
           Full(heap[phase], done) /\ \A i \in 1 .. l : Entered(i, done)
    BY <1>0, <1>1 DEF CodecInvariant, WalkInv
  <2>3. Touched(renamed) /\ stack[1].node = Root
    BY <1>1 DEF CodecInvariant, WalkInv
  <2> HIDE DEF renamed
  <2>4. \A i \in 1 .. l : stack'[i].node = stack[i].node /\ i \in 1 .. Len(stack')
    BY <1>2, <1>4, <1>6
  <2>5. Touched(renamed)'
    BY <1>0, <1>1, <1>2, <2>1, <2>3, <2>4 DEF Touched
  <2>6. stack'[1].node = Root
    BY <1>2, <2>3, <2>4
  <2>7. Full(heap[phase], done)' /\ \A i \in 1 .. Len(stack') : Entered(i, done)'
    BY <1>1, <1>16, <2>1, <2>2 DEF Full, Below
  <2>8. done \in SUBSET renamed'
    BY <2>1, <2>2
  <2> QED BY <1>6, <1>7, <1>15, <2>5, <2>6, <2>7, <2>8 DEF WalkInv, renamed

\* A turn of the loop brings no value into the map that was not there.
LEMMA RenameKeyValues ==
    ASSUME NEW m \in [Names -> JSONValues], NEW key \in Names, NEW lookup \in Lookups
    PROVE  LET next == RenameKey(m, key, lookup)
           IN  /\ next \in [Names -> JSONValues]
               /\ \A n \in Names : next[n] = IF n = lookup[key] THEN m[key]
                                             ELSE IF n = key THEN Absent ELSE m[n]
<1>1. lookup[key] \in Names
  BY NamesAssumption DEF Lookups
<1>2. \A n \in Names : m[n] \in JSONValues
  OBVIOUS
<1>3. Absent \in JSONValues
  BY DEF JSONValues
<1> QED BY <1>1, <1>2, <1>3 DEF RenameKey, Without

LEMMA WriteStep ==
    ASSUME CodecInvariant, Write
    PROVE  /\ CodecTypes' /\ WalkInv'
           /\ \A m \in Nodes : Below(heap'[phase], m) \subseteq Below(heap[phase], m)
<1>0. PICK l : l = Len(stack)
  OBVIOUS
<1>h. PICK h : h = heap[phase]
  OBVIOUS
<1>o. PICK node : node = Top.node
  OBVIOUS
<1>k. PICK key : key = Top.key
  OBVIOUS
<1>u. PICK lookup : lookup = Lookup
  OBVIOUS
<1>n. PICK next : next = RenameKey(h[node], key, lookup)
  OBVIOUS
<1>1. /\ key # NoName /\ Top.due = <<>> /\ phase \in DOMAIN heap /\ stack # <<>> /\ Walking
      /\ phase' = phase /\ call' = call
      /\ heap' = [heap EXCEPT ![phase] = [h EXCEPT ![node] = next]]
  BY <1>h, <1>o, <1>k, <1>u, <1>n DEF Write, Walking
<1>2. PICK more \in SUBSET ({lookup[key]} \ Keys(h[node])) :
         stack' = Append(Front(stack), [Top EXCEPT !.key = NoName, !.todo = @ \cup more])
  BY <1>h, <1>o, <1>k, <1>u DEF Write, Replace
<1>f. PICK frame : frame = [Top EXCEPT !.key = NoName, !.todo = @ \cup more]
  OBVIOUS
<1>3. /\ l \in Nat \ {0} /\ Top = stack[l] /\ Top \in Ranges /\ RangeOpen(l) /\ stack \in Seq(Ranges)
      /\ h \in Heaps /\ Given' = Given /\ Lookup' = Lookup /\ Given \in Heaps /\ lookup \in Lookups
  <2>1. \E x : heap' = [heap EXCEPT ![phase] = x]
    BY <1>1
  <2>2. Given' = Given /\ Lookup' = Lookup
    BY <1>1, <2>1, GivenStays
  <2> QED BY <1>0, <1>1, <1>h, <1>u, <2>2, WalkingFacts
<1>4. key \in Names /\ node \in Nodes /\ key \notin Top.todo /\ lookup[key] \in Names /\ more \subseteq Names
  <2>1. key \in Names /\ node \in Nodes /\ key \notin Top.todo
    BY <1>1, <1>3, <1>k, <1>o DEF Ranges, RangeOpen
  <2> QED BY <1>3, <2>1, NamesAssumption DEF Lookups
<1>5. /\ frame.node = node /\ frame.key = NoName /\ frame.todo = Top.todo \cup more
      /\ frame.due = <<>> /\ frame \in Ranges
  BY <1>1, <1>3, <1>4, <1>f, <1>o DEF Ranges
<1>6. /\ next \in [Names -> JSONValues]
      /\ \A n \in Names : next[n] = IF n = lookup[key] THEN h[node][key]
                                    ELSE IF n = key THEN Absent ELSE h[node][n]
  <2>1. h[node] \in [Names -> JSONValues]
    BY <1>3, <1>4 DEF Heaps
  <2> QED BY <1>3, <1>4, <1>n, <2>1, RenameKeyValues
<1>g. PICK g : g = [h EXCEPT ![node] = next]
  OBVIOUS
<1>7. g \in Heaps /\ g[node] = next /\ \A m \in Nodes \ {node} : g[m] = h[m]
  BY <1>3, <1>4, <1>6, <1>g DEF Heaps
<1>8. heap'[phase'] = g /\ heap' \in [{"outputs", "inputs", "body"} -> Heaps]
  BY <1>1, <1>7, <1>g DEF CodecInvariant, CodecTypes
<1>9. /\ stack' \in Seq(Ranges) /\ stack' # <<>> /\ stack'[l] = frame /\ Len(stack') = l
      /\ \A i \in 1 .. l - 1 : stack'[i] = stack[i]
  BY <1>0, <1>1, <1>2, <1>3, <1>5, <1>f, ReplaceTop
<1>10. CodecTypes'
  BY <1>1, <1>8, <1>9 DEF CodecInvariant, CodecTypes
<1>11. RangeOpen(l)'
  <2>1. Waiting(Top) = Top.todo \cup {key} /\ RangeInv(Given[node], h[node], Waiting(Top), lookup)
    BY <1>1, <1>3, <1>h, <1>k, <1>o, <1>u DEF RangeOpen, Waiting
  <2>2. RangeInv(Given[node], next, (Waiting(Top) \ {key}) \cup more, lookup)
    <3>1. key \in Waiting(Top) /\ more \in SUBSET {lookup[key]}
      BY <2>1
    <3> QED BY <1>3, <1>n, <2>1, <3>1, RangeGoesOn
  <2>3. Waiting(frame) = (Waiting(Top) \ {key}) \cup more
    BY <1>4, <1>5, <2>1, CodecAssumption DEF Waiting
  <2>4. NoName \notin frame.todo
    BY <1>5, CodecAssumption DEF Ranges
  <2>5. RangeInv(Given[node], next, Waiting(frame), lookup)
    BY <2>2, <2>3
  <2> QED BY <1>3, <1>5, <1>7, <1>8, <1>9, <1>u, <2>4, <2>5 DEF RangeOpen
<1>12. ASSUME NEW done, Entered(l, done) PROVE Entered(l, done)'
  <2> SUFFICES ASSUME NEW n \in Names \ frame.todo, NEW x \in ObjectsIn(next[n]) \ done PROVE FALSE
    BY <1>5, <1>7, <1>8, <1>9 DEF Entered
  <2>1. ASSUME NEW k \in Names \ Top.todo PROVE ObjectsIn(h[node][k]) \subseteq done \/ k = key
    BY <1>0, <1>3, <1>12, <1>h, <1>k, <1>o DEF Entered
  <2>2. ObjectsIn(h[node][key]) \subseteq done
    BY <1>0, <1>1, <1>3, <1>4, <1>12, <1>h, <1>k, <1>o DEF Entered, ToSet
  <2>3. CASE n = lookup[key]
    BY <1>6, <2>2, <2>3
  <2>4. CASE n # lookup[key] /\ n = key
    <3>1. next[n] = Absent
      BY <1>6, <2>4
    <3> QED BY <3>1, ScalarsHoldNothing
  <2>5. CASE n # lookup[key] /\ n # key
    <3>1. next[n] = h[node][n] /\ n \in Names \ Top.todo
      BY <1>5, <1>6, <2>5
    <3> QED BY <2>1, <2>5, <3>1
  <2> QED BY <2>3, <2>4, <2>5
<1>13. ASSUME NEW i \in 1 .. l - 1
       PROVE  RangeOpen(i)' /\ \A done : Entered(i, done) => Entered(i, done)'
  <2>1. ASSUME NEW j \in 1 .. l - 1 PROVE heap'[phase'][stack[j].node] = heap[phase][stack[j].node]
    <3>1. j \in 1 .. Len(stack) /\ l \in 1 .. Len(stack) /\ j < l
      BY <1>0, <1>3
    <3>2. stack[j].node \in Nodes \ {node}
      BY <1>1, <1>3, <1>o, <3>1, Apart, WalkingFacts DEF Ranges
    <3> QED BY <1>7, <1>8, <1>h, <3>2
  <2>2. l <= Len(stack') /\ Len(stack') \in Nat
    BY <1>3, <1>9
  <2> QED BY <1>0, <1>1, <1>3, <1>5, <1>9, <1>o, <2>1, <2>2, OuterRanges
<1>14. ASSUME NEW i \in 1 .. l PROVE RangeOpen(i)'
  <2>1. i = l \/ i \in 1 .. l - 1
    BY <1>3
  <2> QED BY <1>11, <1>13, <2>1
<1>15. ASSUME NEW done, NEW i \in 1 .. l, Entered(i, done) PROVE Entered(i, done)'
  <2>1. i = l \/ i \in 1 .. l - 1
    BY <1>3
  <2> QED BY <1>12, <1>13, <1>15, <2>1
<1>16. ASSUME NEW m \in Nodes PROVE Below(g, m) \subseteq Below(h, m)
  <2>1. ASSUME NEW n \in Names
        PROVE  g[m][n] \in Scalars \cup {Absent} \/ \E k \in Names : g[m][n] = h[m][k]
    BY <1>4, <1>6, <1>7
  <2> QED BY <2>1, BelowLess
<1>17. ASSUME NEW m \in RenamedObjects(h, Given, Lookup) PROVE g[m] = h[m]
  <2>1. CASE m = node
    <3>1. key \in Keys(h[node])
      BY <1>1, <1>3, <1>h, <1>k, <1>o DEF RangeOpen, RangeInv, Waiting
    <3>2. h[node] = TransformBody(Given[node], lookup)
      BY <1>u, <2>1 DEF RenamedObjects
    <3> QED BY <1>3, <1>7, <1>n, <2>1, <3>1, <3>2, RenameRenamed
  <2>2. CASE m # node
    BY <1>7, <2>2 DEF RenamedObjects
  <2> QED BY <2>1, <2>2
<1>18. Touched(RenamedObjects(heap[phase], Given, Lookup))'
  <2> SUFFICES ASSUME NEW m \in Nodes, g[m] # TransformBody(Given[m], lookup), g[m] # Given[m]
               PROVE  \E i \in 1 .. Len(stack') : stack'[i].node = m
    BY <1>3, <1>8, <1>u DEF Touched, RenamedObjects
  <2>1. CASE m = node
    BY <1>3, <1>5, <1>9, <2>1
  <2>2. CASE m # node
    <3>1. g[m] = h[m]
      BY <1>7, <2>2
    <3>2. PICK i \in 1 .. l : stack[i].node = m
      BY <1>0, <1>1, <1>h, <1>u, <3>1 DEF CodecInvariant, WalkInv, Touched, RenamedObjects
    <3>3. stack'[i].node = stack[i].node
      BY <1>3, <1>5, <1>9, <1>o
    <3> QED BY <1>9, <3>2, <3>3
  <2> QED BY <2>1, <2>2
<1> QED
  <2> DEFINE renamed == RenamedObjects(heap[phase], Given, Lookup)
  <2>1. PICK done \in SUBSET renamed :
           Full(h, done) /\ \A i \in 1 .. l : Entered(i, done)
    BY <1>0, <1>1, <1>h DEF CodecInvariant, WalkInv
  <2>2. \A m \in done : g[m] = h[m]
    BY <1>17, <1>h, <2>1
  <2>3. done \in SUBSET renamed'
    BY <1>3, <1>8, <1>h, <2>1, <2>2 DEF RenamedObjects
  <2>4. Full(g, done)
    BY <2>1, <2>2 DEF Full, Below
  <2>5. stack'[1].node = Root
    BY <1>1, <1>3, <1>5, <1>9, <1>o DEF CodecInvariant, WalkInv
  <2>6. \A i \in 1 .. l : Entered(i, done)'
    BY <1>15, <2>1
  <2> HIDE DEF renamed
  <2>7. WalkInv'
    BY <1>8, <1>9, <1>14, <1>18, <2>3, <2>4, <2>5, <2>6 DEF WalkInv, renamed
  <2> QED BY <1>1, <1>8, <1>10, <1>16, <1>h, <2>7

LEMMA LeaveStep ==
    ASSUME CodecInvariant, Leave
    PROVE  CodecTypes' /\ WalkInv'
<1>0. PICK l : l = Len(stack)
  OBVIOUS
<1>h. PICK h : h = heap[phase]
  OBVIOUS
<1>o. PICK node : node = Top.node
  OBVIOUS
<1>1. /\ Top.key = NoName /\ Top.todo = {} /\ phase \in DOMAIN heap /\ stack # <<>>
      /\ heap' = heap /\ phase' = phase /\ call' = call /\ stack' = Front(stack)
  BY DEF Leave, Walking
<1>2. /\ l \in Nat \ {0} /\ Top = stack[l] /\ Top \in Ranges /\ RangeOpen(l) /\ stack \in Seq(Ranges)
      /\ h \in Heaps /\ Given' = Given /\ Lookup' = Lookup /\ Lookup \in Lookups /\ node \in Nodes
  BY <1>0, <1>1, <1>h, <1>o, WalkingFacts, GivenStays DEF Ranges
<1>3. /\ stack' \in Seq(Ranges) /\ Len(stack') = l - 1
      /\ \A i \in 1 .. l - 1 : stack'[i] = stack[i]
  BY <1>0, <1>1, <1>2, PopRange
<1>4. CodecTypes'
  BY <1>1, <1>3 DEF CodecInvariant, CodecTypes
<1>5. h[node] = TransformBody(Given[node], Lookup)
  <2>1. Waiting(Top) = {}
    BY <1>1 DEF Waiting
  <2>2. RangeInv(Given[node], h[node], {}, Lookup)
    BY <1>2, <1>h, <1>o, <2>1 DEF RangeOpen
  <2> QED BY <1>2, <2>2, RangeEnds
<1>6. ASSUME NEW i \in 1 .. l - 1
      PROVE  /\ RangeOpen(i)'
             /\ \A done : Entered(i, done) => Entered(i, done \cup {node})'
  <2>1. RangeOpen(i) /\ i \in 1 .. Len(stack) /\ i < Len(stack) /\ i \in Nat
    BY <1>0, <1>1, <1>2, WalkingFacts
  <2>2. CASE i = l - 1
    <3>1. stack[i + 1] = Top /\ i = Len(stack') /\ ~ (i < Len(stack'))
      BY <1>2, <1>3, <2>2
    <3>2. RangeOpen(i)'
      BY <1>1, <1>2, <1>3, <2>1, <3>1 DEF RangeOpen
    <3>3. ASSUME NEW done, Entered(i, done) PROVE Entered(i, done \cup {node})'
      BY <1>1, <1>3, <1>o, <3>1, <3>3 DEF Entered
    <3> QED BY <3>2, <3>3
  <2>3. CASE i # l - 1
    <3>1. i + 1 \in 1 .. l - 1 /\ i < Len(stack')
      BY <1>2, <1>3, <2>3
    <3>2. /\ stack'[i + 1].node = stack[i + 1].node /\ stack'[i] = stack[i]
          /\ heap'[phase'][stack[i].node] = heap[phase][stack[i].node]
      BY <1>1, <1>3, <3>1
    <3>3. /\ RangeOpen(i)'
          /\ \A old, new : Entered(i, old) /\ old \subseteq new => Entered(i, new)'
      BY <1>2, <2>1, <3>1, <3>2, OuterRange
    <3> QED BY <3>3
  <2> QED BY <2>2, <2>3
<1> QED
  <2> DEFINE renamed == RenamedObjects(heap[phase], Given, Lookup)
  <2>1. renamed' = renamed /\ heap'[phase'] = h /\ node \in renamed
    BY <1>1, <1>2, <1>5, <1>h DEF RenamedObjects
  <2>2. PICK done \in SUBSET renamed :
           Full(h, done) /\ \A i \in 1 .. l : Entered(i, done)
    BY <1>0, <1>1, <1>h DEF CodecInvariant, WalkInv
  <2>3. Touched(renamed) /\ stack[1].node = Root
    BY <1>1 DEF CodecInvariant, WalkInv
  <2>4. Below(h, node) \subseteq done
    <3> SUFFICES ASSUME NEW n \in Names, NEW c \in ObjectsIn(h[node][n]), c \notin done PROVE FALSE
      BY DEF Below
    <3>1. n = Top.key
      BY <1>1, <1>2, <1>h, <1>o, <2>2 DEF Entered
    <3> QED BY <1>1, <3>1, CodecAssumption
  <2> HIDE DEF renamed
  <2>5. Full(h, done \cup {node}) /\ done \cup {node} \in SUBSET renamed'
    BY <2>1, <2>2, <2>4 DEF Full
  <2>6. Touched(renamed)'
    <3> SUFFICES ASSUME NEW m \in Nodes \ renamed, h[m] # Given[m]
                 PROVE  \E i \in 1 .. Len(stack') : stack'[i].node = m
      BY <1>2, <2>1 DEF Touched
    <3>1. PICK i \in 1 .. l : stack[i].node = m
      BY <1>0, <1>h, <2>3 DEF Touched
    <3>2. i \in 1 .. l - 1
      BY <1>2, <1>o, <2>1, <3>1
    <3> QED BY <1>3, <3>1, <3>2
  <2>7. stack' # <<>> => stack'[1].node = Root
    <3>1. stack' # <<>> => 1 \in 1 .. l - 1
      BY <1>2, <1>3, EmptySeq
    <3> QED BY <1>3, <2>3, <3>1
  <2>8. stack' = <<>> => Root \in done \cup {node}
    <3>1. stack' = <<>> => l = 1
      BY <1>2, <1>3
    <3> QED BY <1>2, <1>o, <2>3, <3>1
  <2>9. \A i \in 1 .. Len(stack') : RangeOpen(i)' /\ Entered(i, done \cup {node})'
    BY <1>2, <1>3, <1>6, <2>2
  <2> QED BY <1>4, <2>1, <2>5, <2>6, <2>7, <2>8, <2>9 DEF WalkInv, renamed

LEMMA WalkStarts ==
    ASSUME CodecTypes, NEW where \in {"outputs", "inputs", "body"}, NEW h \in Heaps,
           StartWalk(where, h), Given' = h, call' = call
    PROVE  CodecTypes' /\ WalkInv'
<1> DEFINE range == RangeOver(h, Root)
<1>1. /\ phase' = where /\ stack' = <<range>> /\ heap' = [heap EXCEPT ![where] = h]
  BY DEF StartWalk
<1>2. /\ range.node = Root /\ range.todo = Keys(h[Root]) /\ range.key = NoName
      /\ range.due = <<>> /\ range \in Ranges
  BY CodecAssumption DEF RangeOver, Ranges, Keys
<1> HIDE DEF range
<1>3. heap' \in [{"outputs", "inputs", "body"} -> Heaps] /\ heap'[phase'] = h
  BY <1>1 DEF CodecTypes
<1>4. /\ stack' \in Seq(Ranges) /\ Len(stack') = 1 /\ stack'[1] = range /\ stack' # <<>>
  BY <1>1, <1>2
<1>5. CodecTypes'
  BY <1>1, <1>3, <1>4 DEF CodecTypes
<1>6. Lookup' \in Lookups
  BY DEF Lookup, Lookups
<1>7. RangeInv(h[Root], h[Root], Keys(h[Root]), Lookup')
  <2>1. h[Root] = [n \in Names |-> h[Root][n]]
    BY CodecAssumption DEF Heaps
  <2> QED BY <1>6, <2>1, RangeStarts
<1>8. Waiting(range) = Keys(h[Root]) /\ NoName \notin Keys(h[Root])
  BY <1>2, CodecAssumption DEF Waiting, Keys
<1>9. ASSUME NEW n \in Names \ Keys(h[Root]) PROVE ObjectsIn(h[Root][n]) = {}
  <2>1. h[Root][n] = Absent
    BY DEF Keys
  <2> QED BY <2>1, ScalarsHoldNothing
<1>10. ASSUME NEW i \in 1 .. Len(stack') PROVE RangeOpen(i)' /\ Entered(i, {})'
  <2>1. i = 1 /\ stack'[i] = range
    BY <1>4
  <2>2. RangeOpen(i)'
    BY <1>2, <1>3, <1>4, <1>7, <1>8, <2>1 DEF RangeOpen
  <2>3. Entered(i, {})'
    BY <1>2, <1>3, <1>9, <2>1 DEF Entered
  <2> QED BY <2>2, <2>3
<1>11. Touched(RenamedObjects(heap[phase], Given, Lookup))'
  BY <1>3 DEF Touched
<1>12. Full(h, {}) /\ {} \in SUBSET RenamedObjects(heap[phase], Given, Lookup)'
  BY DEF Full
<1>13. WalkInv'
  BY <1>2, <1>3, <1>4, <1>10, <1>11, <1>12 DEF WalkInv
<1> QED BY <1>5, <1>13

-----------------------------------------------------------------------------
(* The handlers. *)

LEMMA NothingThere ==
    NoProps \in Heaps /\ \A m \in Nodes : Below(NoProps, m) = {}
<1>1. NoProps \in Heaps
  BY DEF NoProps, Empty, Heaps, JSONValues
<1>2. ASSUME NEW m \in Nodes, NEW n \in Names PROVE ObjectsIn(NoProps[m][n]) = {}
  <2>1. NoProps[m][n] = Absent
    BY DEF NoProps, Empty
  <2> QED BY <2>1, ScalarsHoldNothing
<1> QED BY <1>1, <1>2 DEF Below

LEMMA InvariantInit == Init => CodecInvariant
<1> SUFFICES ASSUME Init PROVE CodecInvariant
  OBVIOUS
<1>1. /\ call \in Answers /\ phase = "answered" /\ stack = <<>> /\ target = Absent
      /\ heap = [outputs |-> NoProps, inputs |-> NoProps, body |-> NoProps]
  BY DEF Init
<1>2. DOMAIN heap = {"outputs", "inputs", "body"} /\ heap.outputs = NoProps /\ heap.inputs = NoProps
  BY <1>1
<1>3. CodecTypes
  BY <1>1, NothingThere DEF CodecTypes
<1>4. WalkInv
  BY <1>1, <1>2 DEF WalkInv
<1>5. MadeInv
  BY <1>1, <1>2, NothingThere DEF MadeInv
<1> QED BY <1>3, <1>4, <1>5 DEF CodecInvariant

\* A walk that has ended has renamed the root and all there is below it.
LEMMA WalkEnds ==
    ASSUME CodecInvariant, phase \in DOMAIN heap, stack = <<>>
    PROVE  Renamed(heap[phase], Given, Lookup)
BY DEF CodecInvariant, WalkInv, Renamed

LEMMA AnsweredStays ==
    ASSUME call' = call PROVE Answered' = Answered
BY DEF Answered, Overlaid, Pinned, ConvertInvokeOutput

LEMMA InvariantWalk ==
    ASSUME CodecInvariant, TransformStep
    PROVE  CodecInvariant'
<1>1. /\ phase' = phase /\ call' = call /\ target' = target /\ phase \in {"outputs", "inputs", "body"}
      /\ DOMAIN heap = {"outputs", "inputs", "body"}
  <2>1. phase \in DOMAIN heap
    BY DEF TransformStep, Descend, Write, Leave, Visit, Walking
  <2> QED BY <2>1, WalkingFacts DEF TransformStep, Descend, Write, Leave, Visit, CodecInvariant, CodecTypes
<1>2. CodecTypes' /\ WalkInv'
  BY VisitStep, DescendStep, WriteStep, LeaveStep DEF TransformStep
<1>3. \A m \in Nodes : Below(heap'[phase], m) \subseteq Below(heap[phase], m)
  <2>1. CASE Write
    BY <2>1, WriteStep
  <2>2. CASE heap' = heap
    BY <2>2 DEF Below
  <2> QED BY <2>1, <2>2 DEF TransformStep, Descend, Leave, Visit
<1>4. \A w \in {"outputs", "inputs", "body"} \ {phase} : heap'[w] = heap[w]
  BY <1>1 DEF TransformStep, Descend, Write, Leave, Visit
<1>5. \A m \in Nodes : Below(heap'.inputs, m) \subseteq Below(call.heap, m)
  <2>1. \A m \in Nodes : Below(heap.inputs, m) \subseteq Below(call.heap, m)
    BY DEF CodecInvariant, MadeInv
  <2>2. CASE phase = "inputs"
    BY <1>3, <2>1, <2>2
  <2>3. CASE phase # "inputs"
    <3>1. heap'.inputs = heap.inputs
      BY <1>4, <2>3
    <3> QED BY <2>1, <3>1
  <2> QED BY <2>2, <2>3
<1>6. MadeInv'
  BY <1>1, <1>4, <1>5, AnsweredStays DEF CodecInvariant, MadeInv
<1> QED BY <1>2, <1>6 DEF CodecInvariant

\* Nothing is being walked when a handler has stopped.
LEMMA StopStep ==
    ASSUME CodecInvariant, call' = call, heap' = heap, stack' = stack, stack = <<>>,
           phase' \notin {"outputs", "inputs", "body"}
    PROVE  CodecTypes' /\ WalkInv'
BY DEF CodecInvariant, CodecTypes, WalkInv

LEMMA InvariantHandlers ==
    ASSUME CodecInvariant,
           \/ DecodeOutputs \/ NotAnObject \/ DecodeInputs \/ OverlayAnswer
           \/ ReportId \/ ReturnInvoke \/ FillPath \/ Sent
    PROVE  CodecInvariant'
<1>1. /\ call \in Answers /\ call.heap \in Heaps /\ Wrapped(call) \in Heaps
      /\ DOMAIN heap = {"outputs", "inputs", "body"} /\ \A w \in DOMAIN heap : heap[w] \in Heaps
      /\ CodecTypes
  BY AnswersAssumption DEF CodecInvariant, CodecTypes
<1>2. \A m \in Nodes : Below(heap.inputs, m) \subseteq Below(call.heap, m)
  BY DEF CodecInvariant, MadeInv
<1>3. CASE DecodeOutputs
  <2>1. PICK h : h = ConvertInvokeOutput
    OBVIOUS
  <2>2. StartWalk("outputs", h) /\ call' = call /\ call.op # "import" /\ phase = "answered" /\ target' = target
    BY <1>3, <2>1 DEF DecodeOutputs
  <2>3. /\ phase' = "outputs" /\ heap'.inputs = heap.inputs
    BY <1>1, <2>2 DEF StartWalk
  <2>4. h \in Heaps /\ Given' = h
    <3>1. Given' = Answered'
      BY <2>3 DEF Given
    <3> QED BY <1>1, <2>1, <2>2, <3>1, AnsweredStays DEF Answered, ConvertInvokeOutput
  <2>5. CodecTypes' /\ WalkInv'
    BY <1>1, <2>2, <2>4, WalkStarts
  <2>6. MadeInv'
    BY <1>2, <2>2, <2>3 DEF CodecInvariant, MadeInv
  <2> QED BY <2>5, <2>6 DEF CodecInvariant
<1>4. CASE DecodeInputs
  <2>1. PICK h : h = FilteredAnswer(call.heap)
    OBVIOUS
  <2>2. StartWalk("inputs", h) /\ call' = call /\ call.op = "import" /\ phase = "answered" /\ target' = target
    BY <1>4, <2>1 DEF DecodeInputs
  <2>3. /\ phase' = "inputs" /\ heap'.inputs = h
    BY <1>1, <2>2 DEF StartWalk
  <2>4. h \in Heaps /\ Given' = h /\ \A m \in Nodes : Below(h, m) \subseteq Below(call.heap, m)
    <3>1. Given' = FilteredAnswer(call'.heap)
      BY <2>3 DEF Given
    <3> QED BY <1>1, <2>1, <2>2, <3>1, FilteredIsLess
  <2>5. CodecTypes' /\ WalkInv'
    BY <1>1, <2>2, <2>4, WalkStarts
  <2>6. MadeInv'
    BY <2>2, <2>3, <2>4 DEF CodecInvariant, MadeInv
  <2> QED BY <2>5, <2>6 DEF CodecInvariant
<1>5. CASE OverlayAnswer
  <2>1. PICK h : h = Overlaid
    OBVIOUS
  <2>2. StartWalk("outputs", h) /\ call' = call /\ phase = "inputs" /\ stack = <<>> /\ target' = target
    BY <1>5, <2>1 DEF OverlayAnswer, Walked
  <2>3. /\ phase' = "outputs" /\ heap'.inputs = heap.inputs /\ call.op = "import" /\ target = Absent
    BY <1>1, <2>2 DEF StartWalk, CodecInvariant, MadeInv
  <2>4. h \in Heaps /\ Given' = h
    <3>1. Given' = Answered'
      BY <2>3 DEF Given
    <3>2. Answered = Overlaid
      BY <2>3 DEF Answered
    <3> QED BY <1>1, <2>1, <2>2, <2>3, <3>1, <3>2, AnsweredStays, OverlaidIsAnswer
  <2>5. CodecTypes' /\ WalkInv'
    BY <1>1, <2>2, <2>4, WalkStarts
  <2>6. Renamed(heap.inputs, FilteredAnswer(call.heap), APIToSDKNameMap)
    <3>1. Renamed(heap[phase], Given, Lookup)
      BY <1>1, <2>2, WalkEnds
    <3> QED BY <2>2, <3>1 DEF Given, Lookup
  <2>7. MadeInv'
    BY <1>2, <2>2, <2>3, <2>6 DEF CodecInvariant, MadeInv
  <2> QED BY <2>5, <2>7 DEF CodecInvariant
<1>6. CASE FillPath /\ StartWalk("body", PutBody) /\ call.op = "import"
  <2>1. PICK h : h = PutBody
    OBVIOUS
  <2>2. StartWalk("body", h) /\ call' = call /\ phase = "stored" /\ call.op = "import"
    BY <1>6, <2>1 DEF FillPath
  <2>3. /\ phase' = "body" /\ heap'.inputs = heap.inputs /\ heap'.outputs = heap.outputs
    BY <1>1, <2>2 DEF StartWalk
  <2>4. h \in Heaps /\ Given' = h
    <3>1. Given' = PutBody'
      BY <2>3 DEF Given
    <3>2. PutBody' = PutBody
      BY <2>3 DEF PutBody
    <3> QED BY <1>1, <2>1, <3>1, <3>2, PutBodyIsLess
  <2>5. CodecTypes' /\ WalkInv'
    BY <1>1, <2>2, <2>4, WalkStarts
  <2>6. MadeInv'
    BY <1>2, <2>2, <2>3, AnsweredStays DEF CodecInvariant, MadeInv
  <2> QED BY <2>5, <2>6 DEF CodecInvariant
<1>7. CASE NotAnObject \/ ReportId \/ ReturnInvoke \/ Sent \/ (FillPath /\ phase' # "body")
  <2>1. /\ call' = call /\ heap' = heap /\ stack' = stack
        /\ phase' \in {"failed", "panicked", "stored", "ended"}
        /\ phase \notin {"outputs", "inputs", "body"} \/ stack = <<>>
        /\ phase' = "stored" => call.op \in {"create", "import"}
    BY <1>7, <1>1 DEF NotAnObject, ReportId, ReturnInvoke, Sent, FillPath, Walked, StartWalk
  <2>2. stack = <<>>
    BY <1>1, <2>1 DEF CodecTypes
  <2>3. CodecTypes' /\ WalkInv'
    BY <2>1, <2>2, StopStep
  <2>4. CASE phase = "outputs" /\ phase' \in {"failed", "stored", "ended"} /\ target' = target
    <3>1. Renamed(heap[phase], Given, Lookup)
      BY <1>1, <2>2, <2>4, WalkEnds
    <3>2. Renamed(heap.outputs, Answered, APIToSDKNameMap)
      BY <2>4, <3>1 DEF Given, Lookup
    <3>3. MadeInv'
      BY <1>2, <2>1, <2>4, <3>2, AnsweredStays DEF CodecInvariant, MadeInv
    <3> QED BY <2>3, <3>3 DEF CodecInvariant
  <2>5. CASE phase \in {"stored", "body"} /\ phase' \in {"failed", "panicked", "ended"}
    <3>1. MadeInv'
      BY <1>2, <2>1, <2>5, AnsweredStays DEF CodecInvariant, MadeInv
    <3> QED BY <2>3, <3>1 DEF CodecInvariant
  <2>6. CASE phase = "answered" /\ phase' = "panicked"
    <3>1. MadeInv'
      BY <1>2, <2>1, <2>6, AnsweredStays DEF CodecInvariant, MadeInv
    <3> QED BY <2>3, <3>1 DEF CodecInvariant
  <2> QED
    BY <1>7, <2>4, <2>5, <2>6 DEF NotAnObject, ReportId, ReturnInvoke, Sent, FillPath, Walked, StartWalk
<1> QED BY <1>3, <1>4, <1>5, <1>6, <1>7 DEF FillPath

LEMMA InvariantStutter ==
    ASSUME CodecInvariant, UNCHANGED vars PROVE CodecInvariant'
<1>1. UNCHANGED <<call, heap, phase, stack, id, target>>
  BY DEF vars
<1>2. CodecTypes'
  BY <1>1 DEF CodecInvariant, CodecTypes
<1>3. Given' = Given /\ Lookup' = Lookup /\ Answered' = Answered
  BY <1>1, AnsweredStays DEF Given, Lookup, PutBody
<1>4. MadeInv'
  BY <1>1, <1>3 DEF CodecInvariant, MadeInv
<1>5. WalkInv'
  <2>1. ASSUME NEW i PROVE RangeOpen(i)' = RangeOpen(i) /\ \A done : Entered(i, done)' = Entered(i, done)
    BY <1>1, <1>3 DEF RangeOpen, Entered
  <2>2. \A renamed : Touched(renamed)' = Touched(renamed)
    BY <1>1, <1>3 DEF Touched
  <2> QED BY <1>1, <1>3, <2>1, <2>2 DEF CodecInvariant, WalkInv
<1> QED BY <1>2, <1>4, <1>5 DEF CodecInvariant

LEMMA InvariantNext ==
    ASSUME CodecInvariant, [Next]_vars PROVE CodecInvariant'
<1>1. CASE TransformStep
  BY <1>1, InvariantWalk
<1>2. CASE UNCHANGED vars
  BY <1>2, InvariantStutter
<1>3. CASE ~TransformStep /\ ~UNCHANGED vars
  BY <1>3, InvariantHandlers DEF Next
<1> QED BY <1>1, <1>2, <1>3

\* The inductive invariant of a handler: a walk has renamed what it has left
\* and what is below that, and what it has left stays so.
THEOREM HandlerInvariant == Spec => []CodecInvariant
<1>1. Init => CodecInvariant
  BY InvariantInit
<1>2. CodecInvariant /\ [Next]_vars => CodecInvariant'
  BY InvariantNext
<1> QED BY <1>1, <1>2, PTL DEF Spec

-----------------------------------------------------------------------------
(* The walk leaves what the renaming defines. *)

LEMMA ReachableIsLeast ==
    ASSUME NEW h, NEW S \in SUBSET Nodes, Closed(h, S)
    PROVE  Reachable(h) \subseteq S
BY DEF Reachable

\* What can be reached is closed itself.
LEMMA ReachableIsClosed ==
    ASSUME NEW h \in Heaps
    PROVE  Closed(h, Reachable(h)) /\ Reachable(h) \subseteq Nodes
<1>1. Root \in Reachable(h) /\ Reachable(h) \subseteq Nodes
  BY CodecAssumption DEF Reachable, Closed
<1>2. ASSUME NEW m \in Reachable(h), NEW x \in Below(h, m) PROVE x \in Reachable(h)
  <2>1. x \in Nodes
    BY DEF Below, ObjectsIn
  <2>2. ASSUME NEW S \in SUBSET Nodes, Closed(h, S) PROVE x \in S
    BY <2>2, <1>2 DEF Reachable, Closed
  <2> QED BY <2>1, <2>2 DEF Reachable
<1> QED BY <1>1, <1>2 DEF Closed

LEMMA RenamedReachable ==
    ASSUME NEW h, NEW of, NEW lookup, Renamed(h, of, lookup)
    PROVE  IsRenamed(h, of, lookup)
<1>1. PICK done \in SUBSET RenamedObjects(h, of, lookup) : Root \in done /\ Full(h, done)
  BY DEF Renamed
<1>2. Closed(h, done) /\ done \in SUBSET Nodes
  BY <1>1 DEF Full, Closed, RenamedObjects
<1> QED BY <1>2, ReachableIsLeast DEF IsRenamed, RenamedObjects

\* For every answer, every depth of it and every order of the keys, every
\* object that can be reached when a walk ends has exactly the properties that
\* the renaming defines (TransformBody changes the maps it ranges over).
THEOREM WalksTransform == Spec => []WalkIsTransform
<1>1. ASSUME CodecInvariant PROVE WalkIsTransform
  <2>1. ASSUME Walked("outputs")
        PROVE  IsRenamed(heap.outputs,
                         IF call.op = "import" THEN Overlaid ELSE ConvertInvokeOutput, APIToSDKNameMap)
    <3>1. phase = "outputs" /\ stack = <<>> /\ phase \in DOMAIN heap
      BY <1>1, <2>1 DEF Walked, CodecInvariant, CodecTypes
    <3>2. Renamed(heap.outputs, Answered, APIToSDKNameMap)
      BY <1>1, <3>1, WalkEnds DEF Given, Lookup
    <3>3. IsRenamed(heap.outputs, Answered, APIToSDKNameMap)
      BY <3>2, RenamedReachable
    <3> QED BY <3>3 DEF Answered
  <2>2. ASSUME Walked("inputs")
        PROVE  IsRenamed(heap.inputs, FilteredAnswer(call.heap), APIToSDKNameMap)
    <3>1. phase = "inputs" /\ stack = <<>> /\ phase \in DOMAIN heap
      BY <1>1, <2>2 DEF Walked, CodecInvariant, CodecTypes
    <3>2. Renamed(heap.inputs, FilteredAnswer(call.heap), APIToSDKNameMap)
      BY <1>1, <3>1, WalkEnds DEF Given, Lookup
    <3> QED BY <3>2, RenamedReachable
  <2> QED BY <2>1, <2>2 DEF WalkIsTransform
<1> QED BY <1>1, HandlerInvariant, PTL

-----------------------------------------------------------------------------
(* There and back. *)

LEMMA NotMoved ==
    ASSUME NEW lookup \in Lookups, NEW m, NEW n \in Names,
           \A k \in Names : k # n /\ lookup[k] = n => m[k] = Absent
    PROVE  TransformBody(m, lookup)[n] = IF lookup[n] = n THEN m[n] ELSE Absent
<1>1. MovedTo(m, lookup, n) = {}
  BY DEF MovedTo, Keys
<1> QED BY <1>1 DEF TransformBody

LEMMA MovedHere ==
    ASSUME NEW lookup \in Lookups, NEW m, NEW n \in Names, NEW k \in Names,
           k # n, lookup[k] = n, m[k] # Absent
    PROVE  TransformBody(m, lookup)[n] = m[k]
<1>1. k \in MovedTo(m, lookup, n)
  BY DEF MovedTo, Keys
<1>2. MovedTo(m, lookup, n) = {k}
  BY <1>1, OneMover
<1> QED BY <1>2 DEF TransformBody

\* API names become SDK names and API names again, whatever was taken out in
\* between under a name that is the same on both sides.
LEMMA ThereAndBack ==
    ASSUME MutualNames, NEW m, \A n \in Keys(m) : SDKToAPINameMap[n] = n, NEW ks \in SUBSET Names,
           \A n \in ks : SDKToAPINameMap[n] = n /\ APIToSDKNameMap[n] = n
    PROVE  TransformBody(Without(TransformBody(m, APIToSDKNameMap), ks), SDKToAPINameMap)
           = Without(m, ks)
<1> DEFINE there == TransformBody(m, APIToSDKNameMap)
           sent  == Without(there, ks)
           back  == TransformBody(sent, SDKToAPINameMap)
<1>1. /\ SDKToAPINameMap \in Lookups /\ APIToSDKNameMap \in Lookups
      /\ \A n \in Names : SDKToAPINameMap[n] \in Names /\ APIToSDKNameMap[n] \in Names
  BY NamesAssumption DEF Lookups
<1>2. \A n \in Names : sent[n] = IF n \in ks THEN Absent ELSE there[n]
  BY DEF Without
<1>3. \A n \in Names : SDKToAPINameMap[n] # n => m[n] = Absent
  BY DEF Keys
<1> SUFFICES ASSUME NEW n \in Names PROVE back[n] = IF n \in ks THEN Absent ELSE m[n]
  BY DEF TransformBody, Without
<1>4. CASE APIToSDKNameMap[n] # n
  <2>1. PICK x \in Names : x = APIToSDKNameMap[n]
    BY <1>1
  <2>2. /\ x # n /\ SDKToAPINameMap[x] = n /\ APIToSDKNameMap[x] = x /\ SDKToAPINameMap[n] = n
        /\ x \notin ks /\ n \notin ks /\ m[x] = Absent
    BY <1>1, <1>3, <1>4, <2>1, RenamingAssumption DEF MutualNames
  <2>3. CASE m[n] # Absent
    <3>1. there[x] = m[n]
      BY <1>1, <2>1, <2>2, <2>3, MovedHere
    <3>2. sent[x] = m[n]
      BY <1>2, <2>2, <3>1
    <3> HIDE DEF there, sent
    <3> QED BY <1>1, <2>2, <2>3, <3>2, MovedHere
  <2>4. CASE m[n] = Absent
    <3>1. \A k \in Names : k # x /\ APIToSDKNameMap[k] = x => m[k] = Absent
      BY <1>1, <1>4, <2>1, <2>4, RenamingAssumption
    <3>2. there[x] = Absent
      BY <1>1, <2>2, <3>1, NotMoved
    <3>3. \A k \in Names : k # n /\ APIToSDKNameMap[k] = n => m[k] = Absent
      BY <1>4, RenamingAssumption
    <3>4. there[n] = Absent
      BY <1>1, <1>4, <3>3, NotMoved
    <3>5. \A k \in Names : k # n /\ SDKToAPINameMap[k] = n => k = x
      BY <2>2, RenamingAssumption
    <3>6. \A k \in Names : k # n /\ SDKToAPINameMap[k] = n => sent[k] = Absent
      BY <1>2, <3>2, <3>5
    <3>7. sent[n] = Absent
      BY <1>2, <3>4
    <3> HIDE DEF there, sent
    <3> QED BY <1>1, <2>2, <2>4, <3>6, <3>7, NotMoved
  <2> QED BY <2>3, <2>4
<1>5. CASE APIToSDKNameMap[n] = n
  <2>1. \A k \in Names : k # n => SDKToAPINameMap[k] # n
    BY <1>1, <1>5 DEF MutualNames
  <2>2. back[n] = IF SDKToAPINameMap[n] = n THEN sent[n] ELSE Absent
    BY <1>1, <2>1, NotMoved
  <2>3. CASE SDKToAPINameMap[n] = n
    <3>1. \A k \in Names : k # n => APIToSDKNameMap[k] # n
      BY <1>1, <2>3 DEF MutualNames
    <3>2. there[n] = m[n]
      BY <1>1, <1>5, <3>1, NotMoved
    <3> QED BY <1>2, <2>2, <2>3, <3>2
  <2>4. CASE SDKToAPINameMap[n] # n
    BY <1>3, <2>2, <2>4
  <2> QED BY <2>3, <2>4
<1> QED BY <1>4, <1>5

\* For every answer in API names, the body that Update builds for a PUT after an
\* import, which validateRequest then fills up with the schema's defaults, is
\* what the cloud had answered: every object of it as it was, with what is
\* read-only inside of it, and at the top all but the scalars and lists that
\* are not writable and the path parameters (Read of an import, then Update):
\* nothing is lost between the two renamings.
THEOREM ImportsRoundTrip == MutualNames /\ PlainParams => (Spec => []RoundTrip)
<1> SUFFICES ASSUME MutualNames, PlainParams PROVE Spec => []RoundTrip
  OBVIOUS
<1>1. ASSUME CodecInvariant PROVE RoundTrip
  <2> SUFFICES ASSUME Walked("body"),
                      \A m \in Reachable(call.heap) : \A n \in Keys(call.heap[m]) : SDKToAPINameMap[n] = n
               PROVE  LET sent == FilteredAnswer(call.heap)
                      IN  \A m \in Reachable(heap.body) :
                             heap.body[m] = IF m = Root THEN RemovePathParams(sent[m], ItemParams) ELSE sent[m]
    BY DEF RoundTrip
  <2>1. PICK sent : sent = FilteredAnswer(call.heap)
    OBVIOUS
  <2>2. /\ phase = "body" /\ stack = <<>> /\ phase \in DOMAIN heap /\ call.op = "import"
        /\ call \in Answers /\ heap.inputs \in Heaps /\ call.heap \in Heaps
    BY <1>1, AnswersAssumption DEF Walked, CodecInvariant, CodecTypes, MadeInv
  <2>3. PICK done \in SUBSET RenamedObjects(heap.body, PutBody, SDKToAPINameMap) :
           Root \in done /\ Full(heap.body, done)
    BY <1>1, <2>2, WalkEnds DEF Given, Lookup, Renamed
  <2>4. PICK made \in SUBSET RenamedObjects(heap.inputs, sent, APIToSDKNameMap) :
           Root \in made /\ Full(heap.inputs, made)
    BY <1>1, <2>1, <2>2 DEF CodecInvariant, MadeInv, Renamed
  <2>5. PICK there : there = Reachable(call.heap)
    OBVIOUS
  <2>6. Closed(call.heap, there) /\ there \subseteq Nodes
    BY <2>2, <2>5, ReachableIsClosed
  <2>7. ASSUME NEW m \in done PROVE m \in Nodes /\ heap.body[m] = TransformBody(PutBody[m], SDKToAPINameMap)
    BY DEF RenamedObjects
  <2>8. ASSUME NEW m \in made PROVE m \in Nodes /\ heap.inputs[m] = TransformBody(sent[m], APIToSDKNameMap)
    BY DEF RenamedObjects
  <2>9. Closed(heap.body, done \cap made \cap there)
    <3>1. Root \in done \cap made \cap there
      BY <2>3, <2>4, <2>6 DEF Closed
    <3>2. ASSUME NEW m \in done \cap made \cap there
          PROVE  Below(heap.body, m) \subseteq done \cap made \cap there
      <4>1. ASSUME NEW n \in Names
            PROVE  \/ heap.body[m][n] \in Scalars \cup {Absent}
                   \/ \E k \in Names : heap.body[m][n] = PutBody[m][k]
        <5>1. SDKToAPINameMap \in Lookups
          BY DEF Lookups
        <5> QED BY <2>7, <5>1, RenamedValues
      <4>2. Below(heap.body, m) \subseteq Below(PutBody, m)
        BY <4>1, BelowLess
      <4>3. Below(PutBody, m) \subseteq Below(heap.inputs, m)
        BY <2>2, <2>7, PutBodyIsLess
      <4>4. Below(heap.inputs, m) \subseteq Below(call.heap, m)
        BY <1>1, <2>7 DEF CodecInvariant, MadeInv
      <4>5. /\ Below(heap.body, m) \subseteq done /\ Below(heap.inputs, m) \subseteq made
            /\ Below(call.heap, m) \subseteq there
        BY <2>3, <2>4, <2>6 DEF Full, Closed
      <4> QED BY <4>2, <4>3, <4>4, <4>5
    <3> QED BY <3>1, <3>2 DEF Closed
  <2>10. Reachable(heap.body) \subseteq done \cap made \cap there
    BY <2>6, <2>9, ReachableIsLeast
  <2>f. /\ \A m \in Nodes : sent[m] = [n \in Names |-> sent[m][n]]
        /\ \A m \in Nodes, n \in Names : sent[m][n] \in {Absent, call.heap[m][n]}
    <3>1. /\ \A m \in Nodes : FilteredAnswer(call.heap)[m] = [n \in Names |-> FilteredAnswer(call.heap)[m][n]]
          /\ \A m \in Nodes, n \in Names : FilteredAnswer(call.heap)[m][n] \in {Absent, call.heap[m][n]}
      BY <2>2, FilteredIsLess
    <3> QED BY <2>1, <3>1
  <2>11. ASSUME NEW m \in done \cap made \cap there
         PROVE  heap.body[m] = IF m = Root THEN RemovePathParams(sent[m], ItemParams) ELSE sent[m]
    <3>1. \A n \in Keys(sent[m]) : SDKToAPINameMap[n] = n
      BY <2>f, <2>5, <2>7 DEF Keys
    <3>2. sent[m] = [n \in Names |-> sent[m][n]]
      BY <2>f, <2>7
    <3>3. CASE m = Root
      <4> DEFINE ks == {PathParamNameMap[p] : p \in ItemParams}
      <4>1. ks \in SUBSET Names /\ \A n \in ks : SDKToAPINameMap[n] = n /\ APIToSDKNameMap[n] = n
        BY ParamsAssumption DEF PlainParams, ItemParams
      <4>2. PutBody[m] = Without(heap.inputs[m], ks)
        BY <2>2, <3>3, PutBodyIsLess DEF RemovePathParams
      <4> HIDE DEF ks
      <4>3. heap.body[m] = Without(sent[m], ks)
        BY <2>7, <2>8, <3>1, <4>1, <4>2, ThereAndBack
      <4> QED BY <3>3, <4>3 DEF RemovePathParams, ks
    <3>4. CASE m # Root
      <4>1. PutBody[m] = heap.inputs[m]
        BY <2>2, <2>7, <3>4, PutBodyIsLess
      <4>2. Without(heap.inputs[m], {}) = heap.inputs[m] /\ Without(sent[m], {}) = sent[m]
        BY <2>8, <3>2 DEF Without, TransformBody
      <4>3. TransformBody(Without(TransformBody(sent[m], APIToSDKNameMap), {}), SDKToAPINameMap)
            = Without(sent[m], {})
        BY <3>1, ThereAndBack
      <4> QED BY <2>7, <2>8, <3>4, <4>1, <4>2, <4>3
    <3> QED BY <3>3, <3>4
  <2> QED BY <2>1, <2>10, <2>11
<1> QED BY <1>1, HandlerInvariant, PTL

-----------------------------------------------------------------------------
(* The id. *)

\* Nothing is renamed to "id", and "id" is not renamed.
LEMMA IdStays ==
    ASSUME NEW m PROVE TransformBody(m, APIToSDKNameMap)[Id] = m[Id]
<1>1. /\ APIToSDKNameMap \in Lookups /\ Id \in Names /\ APIToSDKNameMap[Id] = Id
      /\ \A k \in Names : APIToSDKNameMap[k] = Id => k = Id
  BY NamesAssumption, RenamingAssumption DEF Lookups
<1> QED BY <1>1, NotMoved

\* A name is there after the renaming when it, or one that becomes it, was.
LEMMA NamesThere ==
    ASSUME NEW lookup \in Lookups, NEW m, NEW n \in Names
    PROVE  TransformBody(m, lookup)[n] # Absent
           <=> lookup[n] = n /\ \E k \in Names : m[k] # Absent /\ lookup[k] = n
<1>1. CASE \A k \in Names : k # n /\ lookup[k] = n => m[k] = Absent
  <2>1. TransformBody(m, lookup)[n] = IF lookup[n] = n THEN m[n] ELSE Absent
    BY <1>1, NotMoved
  <2> QED BY <1>1, <2>1
<1>2. CASE ~ \A k \in Names : k # n /\ lookup[k] = n => m[k] = Absent
  <2>1. PICK k \in Names : k # n /\ lookup[k] = n /\ m[k] # Absent
    BY <1>2
  <2>2. TransformBody(m, lookup)[n] = m[k]
    BY <2>1, MovedHere
  <2>3. lookup[n] = n
    BY <2>1, RenamingAssumption DEF Lookups
  <2> QED BY <2>1, <2>2, <2>3
<1> QED BY <1>1, <1>2

\* A name other than "id" does not notice what the id is.
LEMMA OtherNames ==
    ASSUME NEW a, NEW b, \A k \in Names \ {Id} : a[k] = b[k], NEW n \in Names \ {Id}
    PROVE  TransformBody(a, APIToSDKNameMap)[n] = TransformBody(b, APIToSDKNameMap)[n]
<1>1. APIToSDKNameMap \in Lookups /\ \A k \in Names : APIToSDKNameMap[k] = n => k # Id
  BY RenamingAssumption DEF Lookups
<1>2. CASE \A k \in Names : k # n /\ APIToSDKNameMap[k] = n => a[k] = Absent
  <2>1. \A k \in Names : k # n /\ APIToSDKNameMap[k] = n => b[k] = Absent
    BY <1>1, <1>2
  <2> QED BY <1>1, <1>2, <2>1, NotMoved
<1>3. CASE ~ \A k \in Names : k # n /\ APIToSDKNameMap[k] = n => a[k] = Absent
  <2>1. PICK k \in Names : k # n /\ APIToSDKNameMap[k] = n /\ a[k] # Absent
    BY <1>3
  <2>2. a[k] = b[k]
    BY <1>1, <2>1
  <2> QED BY <1>1, <2>1, <2>2, MovedHere
<1> QED BY <1>2, <1>3

Resourceful == call.op \in {"create", "import"}

\* What the outputs of a resource were before the renaming.
LEMMA AnsweredValues ==
    ASSUME CodecInvariant, Resourceful
    PROVE  /\ \A m \in Nodes \ {Root} : Answered[m] = call.heap[m]
           /\ \A n \in Names \ {Id} : Answered[Root][n] = call.heap[Root][n]
           /\ call.op = "create" => Answered[Root][Id] = call.heap[Root][Id]
           /\ call.op = "import" => /\ Answered[Root][Id] = Else(call.heap[Root][Id], call.pinned)
                                    /\ call.pinned \in Texts
<1>1. call \in Answers
  BY DEF CodecInvariant, CodecTypes
<1>2. CASE call.op = "import"
  BY <1>1, <1>2, OverlaidIsAnswer DEF Answered
<1>3. CASE call.op = "create"
  BY <1>3 DEF Answered, ConvertInvokeOutput, Wrapped
<1> QED BY <1>2, <1>3 DEF Resourceful

Made == Renamed(heap.outputs, Answered, APIToSDKNameMap)

\* The ids in the outputs are those of the answer, and an object that a lookup
\* may find is among those that were renamed.
LEMMA OutputIds ==
    ASSUME CodecInvariant, Resourceful, Made
    PROVE  /\ heap.outputs[Root] = TransformBody(Answered[Root], APIToSDKNameMap)
           /\ heap.outputs[Root][Id] = Answered[Root][Id]
           /\ \A name : \A nested \in Plucked(heap.outputs, name) :
                 nested = Empty \/ \E m \in Nodes : nested[Id] = Answered[m][Id]
<1>1. PICK done \in SUBSET RenamedObjects(heap.outputs, Answered, APIToSDKNameMap) :
         Root \in done /\ Full(heap.outputs, done)
  BY DEF Made, Renamed
<1>2. ASSUME NEW m \in done
      PROVE  m \in Nodes /\ heap.outputs[m] = TransformBody(Answered[m], APIToSDKNameMap)
  BY DEF RenamedObjects
<1>3. ASSUME NEW m \in done PROVE heap.outputs[m][Id] = Answered[m][Id]
  BY <1>2, IdStays
<1>4. ASSUME NEW name, NEW nested \in Plucked(heap.outputs, name), nested # Empty
      PROVE  \E m \in Nodes : nested[Id] = Answered[m][Id]
  <2>1. PICK m \in Nodes : m \in {heap.outputs[Root][n] : n \in Names} /\ nested = heap.outputs[m]
    BY <1>4 DEF Plucked
  <2>2. PICK n \in Names : m = heap.outputs[Root][n]
    BY <2>1
  <2>3. ItemsOf(m) = <<m>> /\ m \in ToSet(<<m>>)
    BY DEF ItemsOf, ToSet
  <2>4. m \in ObjectsIn(heap.outputs[Root][n])
    BY <2>2, <2>3 DEF ObjectsIn
  <2>5. m \in done
    BY <1>1, <2>4, HeldBelow DEF Full
  <2> QED BY <1>3, <2>1, <2>5
<1> QED BY <1>1, <1>2, <1>3, <1>4

\* The next request is addressed by the id: the item parameter is looked up
\* under its own name only when the outputs repeat the id there.
LEMMA AddressedById ==
    ASSUME CodecInvariant, NamedByItsId, Resourceful, Made, phase = "stored"
    PROVE  \/ /\ LookupName(ItemParam, heap.outputs[Root], heap.inputs[Root]) = Id
              /\ heap.inputs[Root][Id] = Absent
           \/ /\ LookupName(ItemParam, heap.outputs[Root], heap.inputs[Root]) = ItemName
              /\ heap.outputs[Root][ItemName] = heap.outputs[Root][Id]
              /\ heap.outputs[Root][ItemName] # Absent
<1> DEFINE outputs == heap.outputs[Root]
           inputs  == heap.inputs[Root]
           answer  == call.heap[Root]
           named   == TransformBody(answer, APIToSDKNameMap)
<1>1. call \in Answers /\ call.heap \in Heaps /\ ItemName \in Names /\ APIToSDKNameMap \in Lookups
  BY AnswersAssumption, ParamsAssumption DEF CodecInvariant, CodecTypes, ItemName, Lookups
<1>2. outputs = TransformBody(Answered[Root], APIToSDKNameMap) /\ outputs[Id] = Answered[Root][Id]
  BY OutputIds
<1>3. named[ItemName] \in {Absent, answer[Id]}
  BY <1>1, IdStays DEF NamedByItsId
<1>4. ItemName # Id => outputs[ItemName] = named[ItemName]
  BY <1>1, <1>2, AnsweredValues, OtherNames
<1>5. outputs[ItemName] \in {Absent, outputs[Id]}
  <2>1. CASE ItemName = Id
    BY <2>1
  <2>2. CASE ItemName # Id
    <3>1. answer[Id] # Absent => outputs[Id] = answer[Id]
      BY <1>2, AnsweredValues DEF Else, Resourceful
    <3> QED BY <1>3, <1>4, <2>2, <3>1
  <2> QED BY <2>1, <2>2
<1>6. inputs[Id] = Absent /\ (inputs[ItemName] # Absent => outputs[ItemName] # Absent)
  <2>1. CASE call.op # "import"
    BY <1>1, <2>1, NamesAssumption, CodecAssumption DEF CodecInvariant, MadeInv, NoProps, Empty
  <2>2. CASE call.op = "import"
    <3>1. PICK sent : sent = FilteredAnswer(call.heap)[Root]
      OBVIOUS
    <3>2. inputs = TransformBody(sent, APIToSDKNameMap)
      BY <2>2, <3>1 DEF CodecInvariant, MadeInv, Renamed, RenamedObjects
    <3>3. sent[Id] = Absent /\ \A n \in Names : sent[n] \in {Absent, answer[n]}
      <4>1. /\ FilteredAnswer(call.heap)[Root][Id] = Absent
            /\ \A n \in Names : FilteredAnswer(call.heap)[Root][n] \in {Absent, call.heap[Root][n]}
        BY <1>1, FilteredIsLess, CodecAssumption
      <4> QED BY <3>1, <4>1
    <3>4. inputs[Id] = Absent
      BY <3>2, <3>3, IdStays
    <3>5. CASE ItemName = Id
      BY <3>4, <3>5
    <3>6. CASE ItemName # Id
      <4>1. inputs[ItemName] # Absent => named[ItemName] # Absent
        BY <1>1, <3>2, <3>3, NamesThere
      <4> QED BY <1>4, <3>4, <3>6, <4>1
    <3> QED BY <3>5, <3>6
  <2> QED BY <2>1, <2>2
<1> HIDE DEF outputs, inputs
<1>7. LookupName(ItemParam, outputs, inputs)
      = IF outputs[ItemName] = Absent /\ inputs[ItemName] = Absent THEN Id ELSE ItemName
  BY DEF LookupName, ItemName
<1> QED BY <1>5, <1>6, <1>7 DEF outputs, inputs

\* When the outputs hold one id, whoever looks for an id finds that one.
LEMMA OneIdFound ==
    ASSUME NEW h, NEW i, i # Absent, IdsFound(h) = {i}, NEW nested \in Plucked(h, Id)
    PROVE  Else(h[Root][Id], nested[Id]) = i
<1>1. CASE h[Root][Id] # Absent
  <2>1. h[Root][Id] \in IdsFound(h)
    BY <1>1 DEF IdsFound
  <2> QED BY <1>1, <2>1 DEF Else
<1>2. CASE h[Root][Id] = Absent
  <2>1. IdsFound(h) = {h[h[Root][n]][Id] : n \in {n \in Names : h[Root][n] \in Nodes}} \ {Absent}
    BY <1>2 DEF IdsFound
  <2> DEFINE holders == {m \in Nodes : m \in {h[Root][n] : n \in Names} /\ h[m][Id] # Absent}
  <2>2. holders # {}
    <3>1. PICK n \in Names : h[Root][n] \in Nodes /\ h[h[Root][n]][Id] = i
      BY <2>1
    <3>2. h[Root][n] \in holders
      BY <3>1
    <3> QED BY <3>2
  <2>3. PICK m \in holders : nested = h[m]
    BY <2>2 DEF Plucked
  <2>4. h[m][Id] \in IdsFound(h)
    BY <2>1
  <2> QED BY <1>2, <2>3, <2>4 DEF Else
<1> QED BY <1>1, <1>2

LEMMA PathIsId ==
    ASSUME CodecInvariant, NamedByItsId, Resourceful, phase = "stored",
           NEW i \in Texts, IdsFound(heap.outputs) = {i}, NEW v \in PathFound
    PROVE  v = i
<1> DEFINE outputs == heap.outputs[Root]
           inputs  == heap.inputs[Root]
<1>1. i # Absent /\ Made
  BY CodecAssumption DEF CodecInvariant, MadeInv, Made
<1>2. PICK name : name = LookupName(ItemParam, outputs, inputs)
  OBVIOUS
<1>3. PICK nested \in Plucked(heap.outputs, name) :
         v = Else(outputs[name], Else(nested[name], Else(Empty[name], inputs[name])))
  BY <1>2 DEF PathFound, PathParam
<1>4. CASE name = Id
  <2>1. Else(outputs[Id], nested[Id]) = i
    BY <1>1, <1>3, <1>4, OneIdFound
  <2> QED BY <1>1, <1>3, <1>4, <2>1 DEF Else
<1>5. CASE name # Id
  <2>1. name = ItemName /\ outputs[name] = outputs[Id] /\ outputs[name] # Absent
    BY <1>1, <1>2, <1>5, AddressedById
  <2>2. outputs[Id] \in IdsFound(heap.outputs)
    BY <2>1 DEF IdsFound
  <2> QED BY <1>3, <2>1, <2>2 DEF Else
<1> QED BY <1>4, <1>5

LEMMA SameIdStep ==
    ASSUME NamedByItsId, CodecInvariant, SameId, [Next]_vars PROVE SameId'
<1>1. call' = call
  BY DEF Next, vars, TransformStep, Descend, Write, Leave, Visit, DecodeOutputs, NotAnObject,
         DecodeInputs, OverlayAnswer, ReportId, ReturnInvoke, FillPath, Sent
<1> SUFFICES ASSUME phase' \in {"stored", "body", "failed", "panicked", "ended"}, Resourceful,
                    NEW i \in Texts, IdsFound(heap'.outputs) = {i}
             PROVE  /\ phase' \notin {"failed", "panicked"}
                    /\ id' = i
                    /\ target' \in {Absent, i}
                    /\ phase' \in {"body", "ended"} => target' = i
  BY <1>1 DEF SameId, Resourceful, IdsFound
<1>2. i # Absent /\ DOMAIN heap = {"outputs", "inputs", "body"}
  BY CodecAssumption DEF CodecInvariant, CodecTypes
<1>3. CASE phase \in {"stored", "body", "failed", "panicked", "ended"} /\ heap'.outputs = heap.outputs
           /\ phase' = phase /\ id' = id /\ target' = target
  BY <1>3 DEF SameId, Resourceful
<1>4. CASE UNCHANGED vars
  BY <1>3, <1>4 DEF vars
<1>5. CASE TransformStep
  <2>1. phase' = phase /\ phase \in DOMAIN heap /\ id' = id /\ target' = target
    BY <1>5 DEF TransformStep, Descend, Write, Leave, Visit, Walking
  <2>2. phase = "body"
    BY <1>2, <2>1
  <2>3. heap'.outputs = heap.outputs
    BY <1>2, <1>5, <2>2 DEF TransformStep, Descend, Write, Leave, Visit
  <2> QED BY <1>3, <2>1, <2>2, <2>3
<1>6. CASE DecodeOutputs \/ DecodeInputs \/ OverlayAnswer
  BY <1>6 DEF DecodeOutputs, DecodeInputs, OverlayAnswer, StartWalk
<1>7. CASE NotAnObject
  <2>1. heap'.outputs = NoProps
    BY <1>7 DEF NotAnObject, CodecInvariant, MadeInv
  <2>2. \A m \in Nodes, n \in Names : NoProps[m][n] = Absent
    BY DEF NoProps, Empty
  <2>3. Root \in Nodes /\ Id \in Names /\ Absent \notin Nodes
    BY CodecAssumption, NamesAssumption
  <2>4. IdsFound(NoProps) = {}
    BY <2>2, <2>3 DEF IdsFound
  <2> QED BY <2>1, <2>4
<1>8. CASE ReportId
  <2>1. PICK nested \in Plucked(heap.outputs, Id) :
           LET found == Else(heap.outputs[Root][Id], nested[Id])
           IN  /\ id' = ConvertNumericIDToString(found)
               /\ phase' = IF found = Absent THEN "failed" ELSE "stored"
    BY <1>8 DEF ReportId
  <2>2. heap' = heap /\ target' = target /\ target = Absent
    BY <1>8 DEF ReportId, Walked, CodecInvariant, MadeInv
  <2>3. Else(heap.outputs[Root][Id], nested[Id]) = i
    BY <1>2, <2>2, OneIdFound
  <2>4. i \notin Numbers
    BY CodecAssumption
  <2> QED BY <1>2, <2>1, <2>2, <2>3, <2>4 DEF ConvertNumericIDToString
<1>9. CASE ReturnInvoke
  BY <1>9 DEF ReturnInvoke, Resourceful
<1>10. CASE FillPath
  <2>1. heap'.outputs = heap.outputs /\ id' = id /\ phase = "stored" /\ target' \in PathFound
    BY <1>2, <1>10 DEF FillPath, StartWalk
  <2>2. id = i
    BY <2>1 DEF SameId, Resourceful
  <2>3. target' = i
    BY <2>1, PathIsId
  <2> QED BY <1>2, <1>10, <2>1, <2>2, <2>3 DEF FillPath, StartWalk
<1>11. CASE Sent
  <2>1. phase = "body" /\ heap' = heap /\ id' = id /\ target' = target
    BY <1>11 DEF Sent, Walked
  <2>2. id = i /\ target = i
    BY <2>1 DEF SameId, Resourceful
  <2> QED BY <1>11, <2>1, <2>2 DEF Sent
<1> QED BY <1>4, <1>5, <1>6, <1>7, <1>8, <1>9, <1>10, <1>11 DEF Next

\* For every answer: when the outputs hold one id and it is a string, nothing
\* fails, the engine is told that id, and the next request goes to it (Create
\* and Read pick the id, getPathParamsMap looks for it again).
THEOREM SameIdEverywhere == NamedByItsId => (Spec => []SameId)
<1> SUFFICES ASSUME NamedByItsId PROVE Spec => []SameId
  OBVIOUS
<1>1. Init => SameId
  BY DEF Init, SameId
<1>2. CodecInvariant /\ SameId /\ [Next]_vars => SameId'
  BY SameIdStep
<1> QED BY <1>1, <1>2, HandlerInvariant, PTL DEF Spec

\* An import reports the id that it was asked for, and addresses the next
\* request by it, whatever ids the objects in the answer have (Read, the state
\* that pins the id).
THEOREM ImportsKeepTheId == NamedByItsId => (Spec => []ImportKeepsId)
<1> SUFFICES ASSUME NamedByItsId PROVE Spec => []ImportKeepsId
  OBVIOUS
<1>1. ASSUME CodecInvariant, SameId PROVE ImportKeepsId
  <2> SUFFICES ASSUME call.op = "import", phase \in {"stored", "body", "ended"},
                      call.heap[Root][Id] = Absent
               PROVE  id = call.pinned /\ target \in {Absent, id}
    BY DEF ImportKeepsId
  <2>1. Resourceful /\ Made
    BY <1>1 DEF Resourceful, Made, CodecInvariant, MadeInv
  <2>2. heap.outputs[Root][Id] = call.pinned /\ call.pinned \in Texts
    BY <1>1, <2>1, OutputIds, AnsweredValues DEF Else
  <2>3. call.pinned # Absent
    BY <2>2, CodecAssumption
  <2>4. IdsFound(heap.outputs) = {call.pinned}
    BY <2>2, <2>3 DEF IdsFound
  <2> QED BY <1>1, <2>2, <2>4 DEF SameId
<1> QED BY <1>1, HandlerInvariant, SameIdEverywhere, PTL

-----------------------------------------------------------------------------
(* Types. *)

LEMMA ScalarIdsFound ==
    ASSUME CodecInvariant, ScalarIds, Resourceful, Made
    PROVE  /\ heap.outputs[Root][Id] \in Scalars \cup {Absent}
           /\ \A name : \A nested \in Plucked(heap.outputs, name) : nested[Id] \in Scalars \cup {Absent}
<1>1. call \in Answers /\ Id \in Names /\ Root \in Nodes
  BY CodecAssumption, NamesAssumption DEF CodecInvariant, CodecTypes
<1>2. \A m \in Nodes : call.heap[m][Id] \in Scalars \cup {Absent}
  BY <1>1 DEF ScalarIds
<1>3. Answered[Root][Id] \in Scalars \cup {Absent}
  BY <1>1, <1>2, AnsweredValues DEF Else, Scalars, Resourceful
<1>4. ASSUME NEW m \in Nodes PROVE Answered[m][Id] \in Scalars \cup {Absent}
  <2>1. CASE m = Root
    BY <1>3, <2>1
  <2>2. CASE m # Root
    <3>1. Answered[m] = call.heap[m]
      BY <2>2, AnsweredValues
    <3> QED BY <1>2, <3>1
  <2> QED BY <2>1, <2>2
<1>5. ASSUME NEW name, NEW nested \in Plucked(heap.outputs, name)
      PROVE  nested[Id] \in Scalars \cup {Absent}
  <2>1. CASE nested = Empty
    BY <1>1, <2>1 DEF Empty
  <2>2. CASE nested # Empty
    <3>1. PICK m \in Nodes : nested[Id] = Answered[m][Id]
      BY <2>2, OutputIds
    <3> QED BY <1>4, <3>1
  <2> QED BY <2>1, <2>2
<1> QED BY <1>3, <1>5, OutputIds

LEMMA TypesStep ==
    ASSUME ScalarIds, NamedByItsId, CodecInvariant, CodecInvariant', TypeOK, [Next]_vars
    PROVE  TypeOK'
<1>1. \A i \in 1 .. Len(stack') : stack'[i].todo \subseteq Keys(heap'[phase'][stack'[i].node])
  <2>1. CASE phase' \in DOMAIN heap'
    <3> SUFFICES ASSUME NEW i \in 1 .. Len(stack')
                 PROVE  stack'[i].todo \subseteq Keys(heap'[phase'][stack'[i].node])
      OBVIOUS
    <3>1. RangeOpen(i)'
      BY <2>1 DEF CodecInvariant, WalkInv
    <3> QED BY <3>1 DEF RangeOpen, RangeInv, Waiting
  <2>2. CASE phase' \notin DOMAIN heap'
    <3>1. stack' = <<>>
      BY <2>2 DEF CodecInvariant, CodecTypes
    <3> QED BY <3>1
  <2> QED BY <2>1, <2>2
<1>2. CASE ReportId
  <2>1. PICK nested \in Plucked(heap.outputs, Id) :
           id' = ConvertNumericIDToString(Else(heap.outputs[Root][Id], nested[Id]))
    BY <1>2 DEF ReportId
  <2>2. /\ phase = "outputs" /\ stack = <<>> /\ phase \in DOMAIN heap /\ Resourceful
        /\ target' = target /\ phase' \in {"failed", "stored"}
    BY <1>2 DEF ReportId, Walked, Resourceful, CodecInvariant, CodecTypes
  <2>3. Made
    BY <2>2, WalkEnds DEF Made, Given, Lookup
  <2>4. Else(heap.outputs[Root][Id], nested[Id]) \in Scalars \cup {Absent}
    BY <2>2, <2>3, ScalarIdsFound DEF Else
  <2>5. id' \in Texts \cup {Absent}
    BY <2>1, <2>4, CodecAssumption DEF ConvertNumericIDToString, Scalars
  <2> QED BY <1>1, <2>2, <2>5 DEF TypeOK
<1>3. CASE FillPath
  <2>1. /\ phase = "stored" /\ target' \in PathFound /\ id' = id
        /\ phase' \in {"failed", "panicked", "ended", "body"}
    BY <1>3 DEF FillPath, StartWalk
  <2>2. Resourceful /\ Made
    BY <2>1 DEF Resourceful, Made, CodecInvariant, MadeInv
  <2>3. PICK name : name = LookupName(ItemParam, heap.outputs[Root], heap.inputs[Root])
    OBVIOUS
  <2>4. PICK nested \in Plucked(heap.outputs, name) :
           target' = Else(heap.outputs[Root][name],
                          Else(nested[name], Else(Empty[name], heap.inputs[Root][name])))
    BY <2>1, <2>3 DEF PathFound, PathParam
  <2>5. target' \in Scalars \cup {Absent}
    <3>1. CASE name = Id
      <4>1. heap.inputs[Root][Id] = Absent \/ (name = ItemName /\ heap.outputs[Root][Id] # Absent)
        BY <2>1, <2>2, <2>3, <3>1, AddressedById
      <4> QED BY <2>2, <2>4, <3>1, <4>1, ScalarIdsFound, NamesAssumption DEF Else, Empty
    <3>2. CASE name # Id
      <4>1. heap.outputs[Root][name] = heap.outputs[Root][Id] /\ heap.outputs[Root][name] # Absent
        BY <2>1, <2>2, <2>3, <3>2, AddressedById
      <4> QED BY <2>2, <2>4, <4>1, ScalarIdsFound DEF Else
    <3> QED BY <3>1, <3>2
  <2> QED BY <1>1, <2>1, <2>5 DEF TypeOK, Scalars
<1>4. CASE ~ReportId /\ ~FillPath
  <2>1. /\ id' = id /\ target' = target
        /\ phase' = phase \/ phase' \in {"outputs", "inputs", "panicked", "ended"}
    BY <1>4 DEF Next, vars, TransformStep, Descend, Write, Leave, Visit, DecodeOutputs, NotAnObject,
                DecodeInputs, OverlayAnswer, ReturnInvoke, Sent, StartWalk
  <2> QED BY <1>1, <2>1 DEF TypeOK
<1> QED BY <1>2, <1>3, <1>4

\* Types hold for every answer whose ids are strings or numbers: the engine
\* always gets a string, and a range never waits for a key that its map has
\* not got.
THEOREM CodecTypesHold == ScalarIds /\ NamedByItsId => (Spec => []TypeOK)
<1> SUFFICES ASSUME ScalarIds, NamedByItsId PROVE Spec => []TypeOK
  OBVIOUS
<1>1. Init => TypeOK
  BY DEF Init, TypeOK
<1>2. CodecInvariant /\ CodecInvariant' /\ TypeOK /\ [Next]_vars => TypeOK'
  BY TypesStep
<1> QED BY <1>1, <1>2, HandlerInvariant, PTL DEF Spec

=============================================================================
