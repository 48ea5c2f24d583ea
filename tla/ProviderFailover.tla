-------------------------- MODULE ProviderFailover --------------------------
(***************************************************************************)
(* One read of an account over the providers of a network: the chain of    *)
(* withHorizonFailover, and under it the attempts of upstreamGetJson.      *)
(*                                                                         *)
(* A read is several requests, all to one provider.  Each attempt takes    *)
(* time from the deadline the whole read shares, and a provider before the *)
(* last gets an even share of what is left and no second attempt.          *)
(***************************************************************************)
EXTENDS Integers, Sequences

CONSTANTS
    MaxProviders,  \* configured providers: up to this many
    Pieces,        \* requests of one read
    ReadDeadline,  \* REQUEST_DEADLINE_MS
    PerAttempt,    \* perAttemptMs
    MaxAttempts,   \* maxRetries + 1
    MaxWait        \* the longest backoff or Retry-After

ASSUME FailoverAssumption ==
    /\ MaxProviders \in Nat \ {0} /\ Pieces \in Nat \ {0} /\ MaxAttempts \in Nat \ {0}
    /\ ReadDeadline \in Nat /\ PerAttempt \in Nat /\ MaxWait \in Nat

VARIABLES
    providers,  \* how many are configured
    elapsed,    \* of the deadline
    at,         \* the provider that is asked
    cap,        \* perAttemptMs of the attempts on it
    attempt,    \* the attempt of the request under way
    pieces,     \* observed: which provider answered each request of this read
    deadSoFar,  \* observed: no provider before this one answered anything at all
    result      \* "pending", "read", "missing", "unavailable", "other"

failoverVars == <<providers, elapsed, at, cap, attempt, pieces, deadSoFar, result>>

Remaining == ReadDeadline - elapsed
Smaller(a, b) == IF a < b THEN a ELSE b

\* boundAttempt: an even share for every provider but the last, which gets what is left.
CapUnshared(left, remaining) == PerAttempt
Cap(left, remaining) ==
    IF left = 1 THEN PerAttempt ELSE Smaller(PerAttempt, remaining \div left)

\* The retries of the provider that is asked: none before the last.
AttemptsAllowed == IF at < providers THEN 1 ELSE MaxAttempts

FailoverInit ==
    /\ providers \in 1 .. MaxProviders
    /\ elapsed = 0
    /\ at = 1
    /\ cap = Cap(providers, ReadDeadline)
    /\ attempt = 1
    /\ pieces = <<>>
    /\ deadSoFar = TRUE
    /\ result = "pending"

Allowance == Smaller(cap, Remaining)
Asking == result = "pending" /\ Remaining > 0

\* An attempt is answered after some time, and the next request of the read begins; the
\* answer of the last one ends it.
Answers ==
    /\ Asking
    /\ \E d \in 0 .. Allowance :
          /\ elapsed' = elapsed + d
          /\ pieces' = Append(pieces, at)
          /\ attempt' = 1
          /\ result' = IF Len(pieces) + 1 = Pieces THEN "read" ELSE "pending"
    /\ UNCHANGED <<providers, at, cap, deadSoFar>>

\* The read starts again on the next provider, or ends when there is none or no time.
Resumed == pieces
Restarted == <<>>

MovesOn(spent, silent) ==
    /\ elapsed' = elapsed + spent
    /\ IF at < providers /\ elapsed + spent < ReadDeadline
       THEN /\ at' = at + 1
            /\ cap' = Cap(providers - at, Remaining - spent)
            /\ attempt' = 1
            /\ pieces' = Restarted
            /\ deadSoFar' = (deadSoFar /\ silent)
            /\ UNCHANGED result
       ELSE /\ result' = "unavailable"
            /\ UNCHANGED <<at, cap, attempt, pieces, deadSoFar>>
    /\ UNCHANGED providers

\* A 429, a 5xx, a network fault: tried again after a wait that ends before the deadline,
\* as often as this provider may be.
Fails ==
    /\ Asking
    /\ \E d \in 0 .. Allowance, w \in 0 .. MaxWait :
          IF attempt < AttemptsAllowed /\ w < Remaining - d
          THEN /\ elapsed' = elapsed + d + w
               /\ attempt' = attempt + 1
               /\ UNCHANGED <<providers, at, cap, pieces, deadSoFar, result>>
          ELSE MovesOn(d, FALSE)

\* No answer at all: the attempt is given up at its cap, or at the deadline.
TimesOut ==
    /\ Asking
    /\ \E w \in 0 .. MaxWait :
          IF attempt < AttemptsAllowed /\ w < Remaining - Allowance
          THEN /\ elapsed' = elapsed + Allowance + w
               /\ attempt' = attempt + 1
               /\ UNCHANGED <<providers, at, cap, pieces, deadSoFar, result>>
          ELSE MovesOn(Allowance, pieces = <<>>)

\* An answer that does not conform: never tried again on this provider.
Malforms ==
    /\ Asking
    /\ \E d \in 0 .. Allowance : MovesOn(d, FALSE)

\* 404 for the account: an answer of the first provider only, since a fallback may be
\* behind.
Believed == at = 1

Misses ==
    /\ Asking
    /\ \E d \in 0 .. Allowance :
          IF Believed
          THEN /\ elapsed' = elapsed + d
               /\ result' = "missing"
               /\ UNCHANGED <<providers, at, cap, attempt, pieces, deadSoFar>>
          ELSE MovesOn(d, FALSE)

\* An error nobody classified ends the read.
Breaks ==
    /\ Asking
    /\ result' = "other"
    /\ UNCHANGED <<providers, elapsed, at, cap, attempt, pieces, deadSoFar>>

\* The deadline passed between two requests.
Expires ==
    /\ result = "pending" /\ Remaining = 0
    /\ result' = "unavailable"
    /\ UNCHANGED <<providers, elapsed, at, cap, attempt, pieces, deadSoFar>>

FailoverNext ==
    Answers \/ Fails \/ TimesOut \/ Malforms \/ Misses \/ Breaks \/ Expires

FailoverSpec == FailoverInit /\ [][FailoverNext]_failoverVars
=============================================================================
