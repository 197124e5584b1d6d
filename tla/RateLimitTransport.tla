-------------------------- MODULE RateLimitTransport --------------------------
(***************************************************************************)
(* The HTTP client below every handler: rateLimitTransport.RoundTrip       *)
(* (rest/rate_limit_transport.go), which sends a request again as long as  *)
(* the cloud answers 429 with a usable Retry-After, and the provider's     *)
(* Cancel, which does not reach it.                                        *)
(*                                                                         *)
(* Handlers run concurrently on one client; they share nothing but time.   *)
(* A tick is the unit of time.Duration, Second ticks make a second, and a  *)
(* Duration is a signed integer that wraps around at MaxDuration.          *)
(***************************************************************************)
EXTENDS Integers

CONSTANTS
    Calls,        \* RoundTrips, one by handler
    Bodies,       \* request bodies
    NoBody,       \* a request without a body
    Consumed,     \* a body that has been read to its end
    NoGetBody,    \* http.Request.GetBody is nil
    BadGetBody,   \* http.Request.GetBody returns an error
    Callbacks,    \* what OnPre callbacks may do to the request
    Delays,       \* the non-negative Retry-After values the cloud sends
    NoRetryAfter, \* Retry-After absent, negative or not an integer
    Second,       \* ticks of a second
    MaxDuration   \* the largest Duration

ASSUME TransportAssumption ==
    /\ Delays \subseteq Nat /\ Second \in Nat \ {0} /\ MaxDuration \in Nat
    /\ NoRetryAfter \notin Delays
    /\ {NoBody, Consumed, NoGetBody, BadGetBody} \cap Bodies = {}
    /\ NoBody # Consumed /\ NoGetBody # BadGetBody
    /\ Callbacks \subseteq {"keep", "replace", "replaceBody", "unreadable"}

VARIABLES
    phase,     \* by call: where RoundTrip is
    body,      \* by call: req.Body
    getBody,   \* by call: req.GetBody
    header,    \* by call: the last 429's Retry-After
    timer,     \* by call: ticks until time.After fires
    result,    \* by call: what RoundTrip returned
    cancelled, \* the engine called Cancel
    wanted,    \* history, by call: the body the handler means to send
    received,  \* history, by call: bodies the cloud received
    executed,  \* history, by call: how often the cloud did what it was asked
    owed       \* history, by call: ticks the cloud asked to wait, still to pass

vars == <<phase, body, getBody, header, timer, result, cancelled,
          wanted, received, executed, owed>>
request == <<body, getBody, wanted>>
cloud   == <<received, executed, owed>>

Contents == Bodies \cup {NoBody}

TypeOK ==
    /\ phase \in [Calls -> {"new", "ready", "sent", "throttled", "waiting", "returned"}]
    /\ body \in [Calls -> Contents \cup {Consumed}]
    /\ getBody \in [Calls -> Bodies \cup {NoGetBody, BadGetBody}]
    /\ header \in [Calls -> Delays \cup {NoRetryAfter}]
    /\ timer \in [Calls -> Nat]
    /\ result \in [Calls -> {"none", "response", "429", "error"}]
    /\ cancelled \in BOOLEAN
    /\ wanted \in [Calls -> Contents]
    /\ received \in [Calls -> SUBSET Contents]
    /\ executed \in [Calls -> Nat]
    /\ owed \in [Calls -> Nat]

\* Mutant: the delay is taken for a Duration.
DurationInTicks(delay) == delay

\* time.Duration(delay) * time.Second
Duration(delay) ==
    ((delay * Second + MaxDuration + 1) % (2 * MaxDuration + 2)) - (MaxDuration + 1)

\* time.After fires at once for a Duration that is not positive.
Wait(duration) == IF duration > 0 THEN duration ELSE 0

-----------------------------------------------------------------------------

\* Mutant: GetBody always yields the handler's own buffer.
StartWithOwnBuffer(c, b, callback, replacement) ==
    /\ phase[c] = "new" /\ ~cancelled
    /\ phase' = [phase EXCEPT ![c] = "ready"]
    /\ wanted' = [wanted EXCEPT ![c] = IF callback = "keep" THEN b ELSE replacement]
    /\ body' = wanted'
    /\ getBody' = [getBody EXCEPT ![c] = IF b = NoBody THEN NoGetBody ELSE b]
    /\ UNCHANGED <<header, timer, result, cancelled, cloud>>

\* The handler builds the request from a buffer, which gives it a GetBody, and
\* an OnPre callback modifies it: it may replace body and GetBody, the body
\* alone, or both with a body that cannot be read twice.  The engine starts
\* nothing after Cancel.
Start(c, b, callback, replacement) ==
    /\ phase[c] = "new" /\ ~cancelled
    /\ phase' = [phase EXCEPT ![c] = "ready"]
    /\ LET sent == IF callback = "keep" THEN b ELSE replacement
           own  == IF b = NoBody THEN NoGetBody ELSE b
       IN  /\ wanted'  = [wanted EXCEPT ![c] = sent]
           /\ body'    = [body EXCEPT ![c] = sent]
           /\ getBody' = [getBody EXCEPT ![c] =
                             IF callback = "replace" THEN replacement
                             ELSE IF callback = "unreadable" THEN BadGetBody
                             ELSE own]
    /\ UNCHANGED <<header, timer, result, cancelled, cloud>>

\* wrapped.RoundTrip reads the body to its end.  It refuses to send a consumed
\* one (fewer bytes than the request's ContentLength).
Send(c) ==
    /\ phase[c] = "ready" /\ body[c] # Consumed
    /\ phase' = [phase EXCEPT ![c] = "sent"]
    /\ body' = [body EXCEPT ![c] = IF @ = NoBody THEN NoBody ELSE Consumed]
    /\ received' = [received EXCEPT ![c] = @ \cup {body[c]}]
    /\ UNCHANGED <<getBody, header, timer, result, cancelled, wanted, executed, owed>>

Return(c, what) ==
    /\ phase' = [phase EXCEPT ![c] = "returned"]
    /\ result' = [result EXCEPT ![c] = what]

\* Mutant: other answers (a 503, say) are tried again too.
AnsweredOrRetried(c) ==
    /\ phase[c] = "sent"
    /\ phase' = [phase EXCEPT ![c] = "waiting"]
    /\ executed' = [executed EXCEPT ![c] = @ + 1]
    /\ UNCHANGED <<request, header, timer, result, cancelled, received, owed>>

\* Any answer but a 429 is returned as it is.
Answered(c) ==
    /\ phase[c] = "sent"
    /\ Return(c, "response")
    /\ executed' = [executed EXCEPT ![c] = @ + 1]
    /\ UNCHANGED <<request, header, timer, cancelled, received, owed>>

\* A 429: the cloud has done nothing and asks to be left alone for a while.
Throttled(c, retryAfter) ==
    /\ phase[c] = "sent"
    /\ phase' = [phase EXCEPT ![c] = "throttled"]
    /\ header' = [header EXCEPT ![c] = retryAfter]
    /\ owed' = [owed EXCEPT ![c] = IF retryAfter = NoRetryAfter THEN 0 ELSE retryAfter * Second]
    /\ UNCHANGED <<request, timer, result, cancelled, received, executed>>

\* wrapped.RoundTrip fails, before or after the cloud has done its part: no
\* connection, a lost answer, the request's context has ended.
Fails(c) ==
    /\ phase[c] \in {"ready", "sent"}
    /\ Return(c, "error")
    /\ \/ executed' = executed
       \/ phase[c] = "sent" /\ executed' = [executed EXCEPT ![c] = @ + 1]
    /\ UNCHANGED <<request, header, timer, cancelled, received, owed>>

\* A 429 without a usable Retry-After: its body, read already, is restored
\* and the response returned, unless reading it failed.
GiveUp(c) ==
    /\ phase[c] = "throttled" /\ header[c] = NoRetryAfter
    /\ \E what \in {"429", "error"} : Return(c, what)
    /\ UNCHANGED <<request, header, timer, cancelled, cloud>>

Sleep(c) ==
    /\ phase[c] = "throttled" /\ header[c] # NoRetryAfter
    /\ phase' = [phase EXCEPT ![c] = "waiting"]
    /\ timer' = [timer EXCEPT ![c] = Wait(Duration(header[c]))]
    /\ UNCHANGED <<request, header, result, cancelled, cloud>>

\* Mutant: a request without GetBody is never tried again.
WakeWithGetBody(c) ==
    /\ phase[c] = "waiting" /\ timer[c] = 0 /\ getBody[c] \notin {BadGetBody, NoGetBody}
    /\ phase' = [phase EXCEPT ![c] = "ready"]
    /\ body' = [body EXCEPT ![c] = getBody[c]]
    /\ UNCHANGED <<getBody, wanted, header, timer, result, cancelled, cloud>>

\* The timer has fired: the body is reset, if it can be, for the next attempt.
Wake(c) ==
    /\ phase[c] = "waiting" /\ timer[c] = 0 /\ getBody[c] # BadGetBody
    /\ phase' = [phase EXCEPT ![c] = "ready"]
    /\ body' = [body EXCEPT ![c] = IF getBody[c] = NoGetBody THEN @ ELSE getBody[c]]
    /\ UNCHANGED <<getBody, wanted, header, timer, result, cancelled, cloud>>

CannotReset(c) ==
    /\ phase[c] = "waiting" /\ timer[c] = 0 /\ getBody[c] = BadGetBody
    /\ Return(c, "error")
    /\ UNCHANGED <<request, header, timer, cancelled, cloud>>

\* The context ends while the call sleeps (the engine hangs up).
ContextEnds(c) ==
    /\ phase[c] = "waiting"
    /\ Return(c, "error")
    /\ UNCHANGED <<request, header, timer, cancelled, cloud>>

\* Mutant: timers run on after they have fired.
LeftBelowZero(ticks) == ticks - 1

Left(ticks) == IF ticks > 0 THEN ticks - 1 ELSE 0

Tick ==
    /\ \E c \in Calls : timer[c] > 0 \/ owed[c] > 0
    /\ timer' = [c \in Calls |-> Left(timer[c])]
    /\ owed' = [c \in Calls |-> Left(owed[c])]
    /\ UNCHANGED <<phase, request, header, result, cancelled, received, executed>>

\* The provider's Cancel answers and does nothing.
Cancel ==
    /\ ~cancelled /\ cancelled' = TRUE
    /\ UNCHANGED <<phase, request, header, timer, result, cloud>>

Init ==
    /\ phase = [c \in Calls |-> "new"]
    /\ body = [c \in Calls |-> NoBody]
    /\ getBody = [c \in Calls |-> NoGetBody]
    /\ header = [c \in Calls |-> NoRetryAfter]
    /\ timer = [c \in Calls |-> 0]
    /\ result = [c \in Calls |-> "none"]
    /\ cancelled = FALSE
    /\ wanted = [c \in Calls |-> NoBody]
    /\ received = [c \in Calls |-> {}]
    /\ executed = [c \in Calls |-> 0]
    /\ owed = [c \in Calls |-> 0]

RoundTrip(c) == Send(c) \/ GiveUp(c) \/ Sleep(c) \/ Wake(c) \/ CannotReset(c)

Cloud(c) == Answered(c) \/ \E d \in Delays \cup {NoRetryAfter} : Throttled(c, d)

Next ==
    \/ \E c \in Calls :
          \/ \E b \in Contents, callback \in Callbacks, replacement \in Bodies :
                Start(c, b, callback, replacement)
          \/ RoundTrip(c) \/ Cloud(c) \/ Fails(c) \/ ContextEnds(c)
    \/ Tick
    \/ Cancel

\* The code goes on, time passes, and a consumed body makes the call fail.
Progress ==
    /\ \A c \in Calls : WF_vars(RoundTrip(c)) /\ WF_vars(body[c] = Consumed /\ Fails(c))
    /\ WF_vars(Tick)

\* The cloud answers every request, if only with a 429.
Responsive == \A c \in Calls : WF_vars(Cloud(c))

\* It does not throttle the same call for ever.
Lenient == \A c \in Calls : SF_vars(Answered(c))

Spec == Init /\ [][Next]_vars /\ Progress /\ Responsive

LenientSpec == Spec /\ Lenient

-----------------------------------------------------------------------------

\* However often it is throttled, every attempt of a request carries the body
\* that the handler and its callback prepared, and so will the next one: it
\* starts from a fresh reader and not from the one the last attempt consumed.
AttemptsAlike ==
    \A c \in Calls : /\ received[c] \subseteq {wanted[c]}
                      /\ phase[c] = "ready" => body[c] = wanted[c]

\* A request is sent again only when the time the cloud asked for has passed
\* ("the request is retried after that many seconds").
RespectsRetryAfter == \A c \in Calls : phase[c] = "ready" => owed[c] = 0

\* A retry never repeats what the cloud has done already: a call that is still
\* going on has had no effect, a response stands for one execution, a 429 for
\* none, and only an error leaves it open.
ExecutedOnce ==
    \A c \in Calls :
        /\ phase[c] # "returned" \/ result[c] = "429" => executed[c] = 0
        /\ result[c] = "response" => executed[c] = 1
        /\ executed[c] <= 1

\* Every request comes back, as long as the cloud is lenient.
EveryCallReturns == \A c \in Calls : phase[c] = "ready" ~> phase[c] = "returned"

\* Cancel is to "abort any ongoing resource operations" (provider.go 1111).
CancelAborts ==
    \A c \in Calls : (cancelled /\ phase[c] # "new") ~> phase[c] = "returned"

=============================================================================
