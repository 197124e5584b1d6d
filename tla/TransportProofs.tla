---------------------------- MODULE TransportProofs ----------------------------
(***************************************************************************)
(* What holds of a retried request whatever the number of calls, the       *)
(* delays and the bodies, provided that no callback replaces a body and    *)
(* leaves the old GetBody, and that no delay overflows a Duration.         *)
(***************************************************************************)
EXTENDS RateLimitTransport, TLAPS

Replayable == "replaceBody" \notin Callbacks
ShortDelays == \A d \in Delays : d * Second <= MaxDuration

\* A body that is still unread, and the one GetBody makes, is the wanted one.
BodyInv ==
    \A c \in Calls :
        /\ body[c] \in {wanted[c], Consumed}
        /\ getBody[c] \in {wanted[c], NoGetBody, BadGetBody}
        /\ getBody[c] = NoGetBody => wanted[c] = NoBody
        /\ wanted[c] = NoBody => body[c] = NoBody
        /\ phase[c] = "ready" => body[c] = wanted[c]
        /\ received[c] \subseteq {wanted[c]}
        /\ phase[c] = "new" => received[c] = {}

\* The cloud's time runs out no later than the timer.
WaitInv ==
    \A c \in Calls :
        /\ phase[c] \in {"new", "ready", "sent"} => owed[c] = 0
        /\ phase[c] = "throttled" /\ header[c] # NoRetryAfter => owed[c] <= header[c] * Second
        /\ phase[c] = "waiting" => owed[c] <= timer[c]

ExecutionInv ==
    \A c \in Calls :
        /\ phase[c] # "returned" => executed[c] = 0 /\ result[c] = "none"
        /\ phase[c] = "returned" => \/ result[c] = "response" /\ executed[c] = 1
                                    \/ result[c] = "429" /\ executed[c] = 0
                                    \/ result[c] = "error" /\ executed[c] \in {0, 1}

LEMMA DurationIsExact ==
    ASSUME ShortDelays, NEW d \in Delays
    PROVE  d * Second \in Nat /\ Wait(Duration(d)) = d * Second
<1>1. d \in Nat /\ Second \in Nat /\ MaxDuration \in Nat /\ d * Second <= MaxDuration
  BY TransportAssumption DEF ShortDelays
<1> DEFINE x == d * Second
<1>2. x \in Nat /\ x <= MaxDuration
  BY <1>1
<1>3. Duration(d) = ((x + MaxDuration + 1) % (2 * MaxDuration + 2)) - (MaxDuration + 1)
  BY DEF Duration
<1> HIDE DEF x
<1>4. (x + MaxDuration + 1) % (2 * MaxDuration + 2) = x + MaxDuration + 1
  BY <1>1, <1>2
<1>5. Duration(d) = x
  BY <1>1, <1>2, <1>3, <1>4
<1>6. Wait(Duration(d)) = x
  BY <1>2, <1>5 DEF Wait
<1> QED BY <1>2, <1>6 DEF x

-----------------------------------------------------------------------------
(* Types. *)

LEMMA TypeInit == Init => TypeOK
<1> SUFFICES ASSUME Init PROVE TypeOK
  OBVIOUS
<1>1. /\ phase \in [Calls -> {"new", "ready", "sent", "throttled", "waiting", "returned"}]
      /\ result \in [Calls -> {"none", "response", "429", "error"}]
      /\ cancelled \in BOOLEAN
  BY DEF Init
<1>2. /\ body \in [Calls -> Contents \cup {Consumed}] /\ wanted \in [Calls -> Contents]
      /\ getBody \in [Calls -> Bodies \cup {NoGetBody, BadGetBody}]
      /\ header \in [Calls -> Delays \cup {NoRetryAfter}]
      /\ received \in [Calls -> SUBSET Contents]
  BY DEF Init, Contents
<1>3. timer \in [Calls -> Nat] /\ executed \in [Calls -> Nat] /\ owed \in [Calls -> Nat]
  BY DEF Init
<1> QED BY <1>1, <1>2, <1>3 DEF TypeOK

LEMMA TypeStep == TypeOK /\ [Next]_vars => TypeOK'
<1> SUFFICES ASSUME TypeOK, [Next]_vars PROVE TypeOK'
  OBVIOUS
<1> USE DEF TypeOK, request, cloud
<1>1. ASSUME NEW c \in Calls, NEW b \in Contents, NEW callback \in Callbacks,
             NEW replacement \in Bodies, Start(c, b, callback, replacement)
      PROVE  TypeOK'
  <2>1. wanted' \in [Calls -> Contents] /\ body' \in [Calls -> Contents \cup {Consumed}]
    BY <1>1 DEF Start, Contents
  <2>2. getBody' \in [Calls -> Bodies \cup {NoGetBody, BadGetBody}]
    BY <1>1 DEF Start, Contents
  <2>3. phase' \in [Calls -> {"new", "ready", "sent", "throttled", "waiting", "returned"}]
    BY <1>1 DEF Start
  <2> QED BY <1>1, <2>1, <2>2, <2>3 DEF Start
<1>2. ASSUME NEW c \in Calls, Send(c) PROVE TypeOK'
  <2>1. body[c] \in Contents
    BY <1>2 DEF Send
  <2> QED BY <1>2, <2>1 DEF Send, Contents
<1>3. ASSUME NEW c \in Calls, Answered(c) PROVE TypeOK'
  BY <1>3 DEF Answered, Return
<1>4. ASSUME NEW c \in Calls, NEW d \in Delays \cup {NoRetryAfter}, Throttled(c, d) PROVE TypeOK'
  <2>1. (IF d = NoRetryAfter THEN 0 ELSE d * Second) \in Nat
    BY TransportAssumption
  <2> QED BY <1>4, <2>1 DEF Throttled
<1>5. ASSUME NEW c \in Calls, Fails(c) PROVE TypeOK'
  BY <1>5 DEF Fails, Return
<1>6. ASSUME NEW c \in Calls, GiveUp(c) \/ CannotReset(c) \/ ContextEnds(c) PROVE TypeOK'
  BY <1>6 DEF GiveUp, CannotReset, ContextEnds, Return
<1>7. ASSUME NEW c \in Calls, Sleep(c) PROVE TypeOK'
  <2>1. header[c] \in Nat
    BY <1>7, TransportAssumption DEF Sleep
  <2> DEFINE x == header[c] * Second
  <2>2. x \in Int /\ MaxDuration \in Nat
    BY <2>1, TransportAssumption
  <2>3. Duration(header[c]) = ((x + MaxDuration + 1) % (2 * MaxDuration + 2)) - (MaxDuration + 1)
    BY DEF Duration
  <2> HIDE DEF x
  <2>4. Duration(header[c]) \in Int
    BY <2>2, <2>3
  <2>5. Wait(Duration(header[c])) \in Nat
    BY <2>4 DEF Wait
  <2> QED BY <1>7, <2>5 DEF Sleep
<1>8. ASSUME NEW c \in Calls, Wake(c) PROVE TypeOK'
  BY <1>8 DEF Wake, Contents
<1>9. CASE Tick
  BY <1>9 DEF Tick, Left
<1>10. CASE Cancel
  BY <1>10 DEF Cancel
<1>11. CASE UNCHANGED vars
  BY <1>11 DEF vars
<1> QED BY <1>1, <1>2, <1>3, <1>4, <1>5, <1>6, <1>7, <1>8, <1>9, <1>10, <1>11
        DEF Next, RoundTrip, Cloud

\* The state of every call stays well typed, its timer never negative.
THEOREM TransportTypes == Spec => []TypeOK
BY TypeInit, TypeStep, PTL DEF Spec

-----------------------------------------------------------------------------
(* The bodies of the attempts. *)

LEMMA BodyStep ==
    ASSUME Replayable, TypeOK, BodyInv, [Next]_vars PROVE BodyInv'
<1> USE DEF TypeOK, request, cloud
<1>1. ASSUME NEW c \in Calls, NEW b \in Contents, NEW callback \in Callbacks,
             NEW replacement \in Bodies, Start(c, b, callback, replacement)
      PROVE  BodyInv'
  <2> DEFINE sent == IF callback = "keep" THEN b ELSE replacement
             get  == IF callback = "replace" THEN replacement
                     ELSE IF callback = "unreadable" THEN BadGetBody
                     ELSE IF b = NoBody THEN NoGetBody ELSE b
  <2>1. /\ wanted' = [wanted EXCEPT ![c] = sent] /\ body' = [body EXCEPT ![c] = sent]
        /\ getBody' = [getBody EXCEPT ![c] = get] /\ received' = received
        /\ phase[c] = "new" /\ phase' = [phase EXCEPT ![c] = "ready"]
    BY <1>1 DEF Start
  <2>2. callback \in {"keep", "replace", "unreadable"}
    BY TransportAssumption DEF Replayable
  <2>3. get \in {sent, NoGetBody, BadGetBody}
    BY <2>2
  <2>4. get = NoGetBody => sent = NoBody
    BY <2>2, TransportAssumption DEF Contents
  <2> HIDE DEF sent, get
  <2> QED BY <2>1, <2>3, <2>4 DEF BodyInv
<1>2. ASSUME NEW c \in Calls, Send(c) PROVE BodyInv'
  <2>1. body[c] = wanted[c]
    BY <1>2 DEF BodyInv, Send
  <2> QED BY <1>2, <2>1 DEF BodyInv, Send
<1>3. ASSUME NEW c \in Calls, Answered(c) \/ Fails(c) \/ GiveUp(c) \/ CannotReset(c)
             \/ ContextEnds(c) \/ Sleep(c)
      PROVE  BodyInv'
  BY <1>3 DEF BodyInv, Answered, Fails, GiveUp, CannotReset, ContextEnds, Sleep, Return
<1>4. ASSUME NEW c \in Calls, NEW d \in Delays \cup {NoRetryAfter}, Throttled(c, d) PROVE BodyInv'
  BY <1>4 DEF BodyInv, Throttled
<1>5. ASSUME NEW c \in Calls, Wake(c) PROVE BodyInv'
  <2>1. getBody[c] \in {wanted[c], NoGetBody}
    BY <1>5 DEF BodyInv, Wake
  <2> QED BY <1>5, <2>1 DEF BodyInv, Wake
<1>6. CASE Tick \/ Cancel
  BY <1>6 DEF Tick, Cancel, BodyInv
<1>7. CASE UNCHANGED vars
  BY <1>7 DEF vars, BodyInv
<1> QED BY <1>1, <1>2, <1>3, <1>4, <1>5, <1>6, <1>7 DEF Next, RoundTrip, Cloud

\* Every attempt carries the body the handler and its callback prepared, for
\* any number of attempts.
THEOREM EveryAttemptAlike == Replayable => (Spec => []AttemptsAlike)
<1> SUFFICES ASSUME Replayable PROVE Spec => []AttemptsAlike
  OBVIOUS
<1>1. Init => BodyInv
  BY DEF Init, BodyInv
<1>2. TypeOK /\ BodyInv /\ [Next]_vars => BodyInv'
  BY BodyStep
<1>3. BodyInv => AttemptsAlike
  BY DEF BodyInv, AttemptsAlike
<1> QED BY <1>1, <1>2, <1>3, TransportTypes, PTL DEF Spec

-----------------------------------------------------------------------------
(* The time between the attempts. *)

LEMMA WaitStep ==
    ASSUME ShortDelays, TypeOK, WaitInv, [Next]_vars PROVE WaitInv'
<1> USE DEF TypeOK, request, cloud
<1>1. ASSUME NEW c \in Calls, NEW b, NEW callback, NEW replacement,
             Start(c, b, callback, replacement)
      PROVE  WaitInv'
  BY <1>1 DEF Start, WaitInv
<1>2. ASSUME NEW c \in Calls, Send(c) \/ Answered(c) \/ Fails(c) \/ GiveUp(c) \/ CannotReset(c)
             \/ ContextEnds(c)
      PROVE  WaitInv'
  BY <1>2 DEF WaitInv, Send, Answered, Fails, GiveUp, CannotReset, ContextEnds, Return
<1>3. ASSUME NEW c \in Calls, NEW d \in Delays \cup {NoRetryAfter}, Throttled(c, d) PROVE WaitInv'
  <2> DEFINE x == d * Second
  <2>1. d # NoRetryAfter => x \in Nat
    BY TransportAssumption
  <2>2. /\ owed' = [owed EXCEPT ![c] = IF d = NoRetryAfter THEN 0 ELSE x]
        /\ header' = [header EXCEPT ![c] = d] /\ phase' = [phase EXCEPT ![c] = "throttled"]
        /\ timer' = timer
    BY <1>3 DEF Throttled
  <2>3. ASSUME NEW k \in Calls, k # c
        PROVE  owed'[k] = owed[k] /\ header'[k] = header[k] /\ phase'[k] = phase[k]
    BY <2>2, <2>3
  <2>4. header'[c] = d /\ phase'[c] = "throttled" /\ (d # NoRetryAfter => owed'[c] = d * Second)
    BY <2>2
  <2>5. d # NoRetryAfter => owed'[c] <= header'[c] * Second
    BY <2>1, <2>4
  <2> HIDE DEF x
  <2> QED BY <2>2, <2>3, <2>4, <2>5 DEF WaitInv
<1>4. ASSUME NEW c \in Calls, Sleep(c) PROVE WaitInv'
  <2>1. header[c] \in Delays /\ phase[c] = "throttled" /\ header[c] # NoRetryAfter
    BY <1>4 DEF Sleep
  <2>2. owed[c] <= Wait(Duration(header[c]))
    BY <2>1, DurationIsExact DEF WaitInv
  <2>3. /\ timer' = [timer EXCEPT ![c] = Wait(Duration(header[c]))]
        /\ phase' = [phase EXCEPT ![c] = "waiting"] /\ owed' = owed /\ header' = header
    BY <1>4 DEF Sleep
  <2> QED BY <2>2, <2>3 DEF WaitInv
<1>5. ASSUME NEW c \in Calls, Wake(c) PROVE WaitInv'
  <2>1. owed[c] = 0
    BY <1>5 DEF Wake, WaitInv
  <2> QED BY <1>5, <2>1 DEF Wake, WaitInv
<1>6. CASE Tick
  <2>1. ASSUME NEW c \in Calls
        PROVE  /\ owed'[c] <= owed[c] /\ owed'[c] \in Nat /\ timer'[c] = Left(timer[c])
               /\ owed'[c] = Left(owed[c])
               /\ owed[c] <= timer[c] => owed'[c] <= timer'[c]
    BY <1>6 DEF Tick, Left
  <2>2. ASSUME NEW c \in Calls, phase[c] = "throttled", header[c] # NoRetryAfter
        PROVE  owed'[c] <= header[c] * Second
    <3>1. header[c] \in Delays
      BY <2>2
    <3>2. header[c] * Second \in Nat
      BY <3>1, DurationIsExact
    <3>3. owed[c] <= header[c] * Second
      BY <2>2 DEF WaitInv
    <3> DEFINE x == header[c] * Second
    <3> HIDE DEF x
    <3>4. owed'[c] <= x
      BY <2>1, <3>2, <3>3 DEF x
    <3> QED BY <3>4 DEF x
  <2> QED BY <1>6, <2>1, <2>2 DEF Tick, WaitInv
<1>7. CASE Cancel \/ UNCHANGED vars
  BY <1>7 DEF Cancel, vars, WaitInv
<1> QED BY <1>1, <1>2, <1>3, <1>4, <1>5, <1>6, <1>7 DEF Next, RoundTrip, Cloud

\* No attempt comes before the cloud's Retry-After has passed.
THEOREM RetriesInTime == ShortDelays => (Spec => []RespectsRetryAfter)
<1> SUFFICES ASSUME ShortDelays PROVE Spec => []RespectsRetryAfter
  OBVIOUS
<1>1. Init => WaitInv
  BY DEF Init, WaitInv
<1>2. TypeOK /\ WaitInv /\ [Next]_vars => WaitInv'
  BY WaitStep
<1>3. WaitInv => RespectsRetryAfter
  BY DEF WaitInv, RespectsRetryAfter
<1> QED BY <1>1, <1>2, <1>3, TransportTypes, PTL DEF Spec

-----------------------------------------------------------------------------
(* What the cloud has done. *)

LEMMA ExecutionStep ==
    ASSUME TypeOK, ExecutionInv, [Next]_vars PROVE ExecutionInv'
<1> USE DEF TypeOK, request, cloud
<1>1. ASSUME NEW c \in Calls, NEW b, NEW callback, NEW replacement,
             Start(c, b, callback, replacement)
      PROVE  ExecutionInv'
  BY <1>1 DEF Start, ExecutionInv
<1>2. ASSUME NEW c \in Calls, Send(c) \/ Sleep(c) \/ Wake(c)
      PROVE  ExecutionInv'
  BY <1>2 DEF ExecutionInv, Send, Sleep, Wake
<1>3. ASSUME NEW c \in Calls, NEW d, Throttled(c, d) PROVE ExecutionInv'
  BY <1>3 DEF ExecutionInv, Throttled
<1>4. ASSUME NEW c \in Calls, Answered(c) PROVE ExecutionInv'
  BY <1>4 DEF ExecutionInv, Answered, Return
<1>5. ASSUME NEW c \in Calls, Fails(c) PROVE ExecutionInv'
  BY <1>5 DEF ExecutionInv, Fails, Return
<1>6. ASSUME NEW c \in Calls, GiveUp(c) \/ CannotReset(c) \/ ContextEnds(c) PROVE ExecutionInv'
  BY <1>6 DEF ExecutionInv, GiveUp, CannotReset, ContextEnds, Return
<1>7. CASE Tick \/ Cancel \/ UNCHANGED vars
  BY <1>7 DEF Tick, Cancel, vars, ExecutionInv
<1> QED BY <1>1, <1>2, <1>3, <1>4, <1>5, <1>6, <1>7 DEF Next, RoundTrip, Cloud

\* A retry never repeats what the cloud has already done.
THEOREM NeverTwice == Spec => []ExecutedOnce
<1>1. Init => ExecutionInv
  BY DEF Init, ExecutionInv
<1>2. ExecutionInv => ExecutedOnce
  <2> SUFFICES ASSUME ExecutionInv, NEW c \in Calls
               PROVE  /\ phase[c] # "returned" \/ result[c] = "429" => executed[c] = 0
                      /\ result[c] = "response" => executed[c] = 1
                      /\ executed[c] <= 1
    BY DEF ExecutedOnce
  <2>1. CASE phase[c] # "returned"
    BY <2>1 DEF ExecutionInv
  <2>2. CASE phase[c] = "returned"
    BY <2>2 DEF ExecutionInv
  <2> QED BY <2>1, <2>2
<1>3. TypeOK /\ ExecutionInv /\ [Next]_vars => ExecutionInv'
  BY ExecutionStep
<1> QED BY <1>1, <1>2, <1>3, TransportTypes, PTL DEF Spec

=============================================================================
