---------------------------- MODULE RetryableGet ----------------------------
(***************************************************************************)
(* The HTTP helper of the backfill (src/ingestion/httpclient.go) and the   *)
(* loop over the symbols that calls it (backfill.go).  Durations are in    *)
(* units of 200 ms, the initial back-off.                                  *)
(***************************************************************************)
EXTENDS Integers

CONSTANTS
  MaxRetries,     \* maxRetries
  InitialBackoff, \* initialBackoff
  MaxBackoff,     \* maxBackoff
  RetryAfters,    \* how long a Retry-After header may ask to wait
  Calls           \* len(symbols)

ASSUME RetryAssumption ==
  /\ MaxRetries \in Nat
  /\ InitialBackoff \in Nat \ {0}
  /\ MaxBackoff \in Nat /\ MaxBackoff >= InitialBackoff
  /\ RetryAfters \subseteq Nat \ {0}
  /\ Calls \in Nat \ {0}

VARIABLES
  call,           \* which symbol the call is for; Calls + 1 after the last
  attempt,
  backoff,
  at,             \* loop, request, returned
  result,         \* of the call that returned: ok, rejected, exhausted
  last,           \* history: kind of the last answer of this call
  heard,          \* history: its Retry-After header
  asked,          \* history: for how much longer that header asks for silence
  requests        \* history: requests of this call

vars == << call, attempt, backoff, at, result, asked, last, heard, requests >>

\* A Retry-After header is a number of seconds or an HTTP date; any answer may carry
\* one, and so may one whose body cannot be read.
None == [wait |-> 0, seconds |-> FALSE]
Headers == [wait : RetryAfters, seconds : BOOLEAN] \cup {None}

\* The answers the helper tells apart: a network or read error, 408 and 5XX other
\* than 503; 429 and 503; 418 and 403; 200; any other status.
Answers == {"failed", "throttled", "banned", "ok", "rejected"}

\* Types; attempts are bounded by the loop.
TypeOK ==
  /\ call \in 1 .. Calls + 1
  /\ attempt \in 0 .. MaxRetries + 1
  /\ backoff \in Nat
  /\ at \in {"loop", "request", "returned"}
  /\ result \in {"none", "ok", "rejected", "exhausted"}
  /\ asked \in Nat
  /\ last \in Answers \cup {"none"}
  /\ heard \in Headers
  /\ requests \in Nat

Fresh(c) ==
  /\ call' = c /\ attempt' = 0 /\ backoff' = InitialBackoff /\ at' = "loop"
  /\ result' = "none" /\ asked' = 0 /\ last' = "none" /\ heard' = None /\ requests' = 0

Init ==
  /\ call = 1 /\ attempt = 0 /\ backoff = InitialBackoff /\ at = "loop"
  /\ result = "none" /\ asked = 0 /\ last = "none" /\ heard = None /\ requests = 0

-----------------------------------------------------------------------------
\* Mistake: no cap.
DoubledUncapped(d) == 2 * d

Doubled(d) == IF 2 * d < MaxBackoff THEN 2 * d ELSE MaxBackoff

\* nextBackoff
NextBackoff(current) == IF Doubled(current) < InitialBackoff THEN InitialBackoff
                                                             ELSE Doubled(current)

\* Mistake: the cap applies to Retry-After too.
RetryAfterCapped(header, current) ==
  IF header.seconds /\ header.wait <= MaxBackoff THEN header.wait ELSE NextBackoff(current)

\* retryAfterOrBackoff: Atoi fails on a date, which counts as no header.
RetryAfterOrBackoff(header, current) ==
  IF header.seconds THEN header.wait ELSE NextBackoff(current)

\* The back-off after an answer with this header.
BackoffAfter(answer, header) ==
  CASE answer = "throttled" -> RetryAfterOrBackoff(header, backoff)
    [] answer = "banned"    -> RetryAfterOrBackoff(header, MaxBackoff)
    [] OTHER                -> NextBackoff(backoff)

-----------------------------------------------------------------------------
\* What is left of the silence asked for after a sleep of d.
Quiet(d) == IF asked > d THEN asked - d ELSE 0

\* Mistake: one attempt too many.
MayTryOnceMore == attempt <= MaxRetries + 1

\* The condition of the loop.
MayTry == attempt <= MaxRetries

\* The top of the loop: sleep before every attempt but the first.
Iterate ==
  /\ at = "loop" /\ call <= Calls
  /\ MayTry
  /\ at' = "request"
  /\ asked' = IF attempt > 0 THEN Quiet(backoff) ELSE asked
  /\ UNCHANGED << call, attempt, backoff, result, last, heard, requests >>

\* The result is handed to the caller, and the call's variables are gone.
Return(r) ==
  /\ at' = "returned" /\ result' = r
  /\ attempt' = 0 /\ backoff' = InitialBackoff
  /\ heard' = None /\ asked' = 0

Exhausted ==
  /\ at = "loop" /\ call <= Calls
  /\ ~MayTry
  /\ Return("exhausted")
  /\ UNCHANGED << call, last, requests >>

\* The answers that end a call, and its result.
Returns == [ok |-> "ok", rejected |-> "rejected"]

\* client.Get and the switch on what came back.
Request ==
  /\ at = "request"
  /\ requests' = requests + 1
  /\ \E answer \in Answers : \E header \in Headers :
       /\ last' = answer
       /\ IF answer \in DOMAIN Returns
          THEN Return(Returns[answer])
          ELSE /\ at' = "loop" /\ attempt' = attempt + 1
               /\ backoff' = BackoffAfter(answer, header)
               /\ heard' = header /\ asked' = header.wait
               /\ UNCHANGED result
  /\ UNCHANGED call

\* backfillHistorical goes on with the next symbol, whatever came of this one.
NextCall ==
  /\ at = "returned"
  /\ Fresh(call + 1)

Next == Iterate \/ Exhausted \/ Request \/ NextCall

Spec == Init /\ [][Next]_vars

-----------------------------------------------------------------------------
(* Properties.                                                             *)

\* At most one request and MaxRetries retries, and all of them before a call is
\* given up (httpclient.go:27, 43).
RequestsBounded ==
  /\ requests <= MaxRetries + 1
  /\ result = "exhausted" => requests = MaxRetries + 1

\* The helper looks at the header after 429, 503, 418 and 403, and reads seconds.
Heeded == last \in {"throttled", "banned"} /\ heard.seconds

\* "Honour Retry-After, then retry" (httpclient.go:20): within a call, no request
\* goes out before the time such an answer asked for is over, whatever the helper
\* waited for before. Other answers it does not look at: see WaitsBounded.
RetryAfterHonoured == at = "request" /\ requests > 0 /\ Heeded => asked = 0

\* When there is nothing the helper heeds (no header, a date, or a 408 or 5XX whose
\* header it ignores), every wait is between the initial back-off and the cap, a long
\* Retry-After before notwithstanding; after a ban it is the cap (74-97, 119-126).
WaitsBounded ==
  at = "loop" /\ last # "none" /\ ~Heeded =>
    /\ InitialBackoff <= backoff /\ backoff <= MaxBackoff
    /\ last = "banned" => backoff = MaxBackoff

=============================================================================
