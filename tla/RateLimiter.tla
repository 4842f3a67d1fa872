----------------------------- MODULE RateLimiter -----------------------------
(***************************************************************************)
(* The middleware's rate limiter of failed authentications (auth.rs).  The *)
(* attempts of an address are a vector of instants in the code; here each  *)
(* attempt is a record with a number of its own, so that a set and its     *)
(* cardinality stand for the vector and its length.                        *)
(***************************************************************************)
EXTENDS Naturals, FiniteSets

CONSTANTS
    Ips,
    MaxFailures,    \* 20 in the code
    Window,         \* 60 seconds in the code
    MaxNow,         \* bound: the last instant of the clock
    MaxAttempts     \* bound: failed requests in a behaviour

ASSUME LimiterAssumption ==
    /\ MaxFailures \in Nat \ {0} /\ Window \in Nat \ {0}
    /\ MaxNow \in Nat /\ MaxAttempts \in Nat

VARIABLES
    attempts,   \* the map: per address, the attempts it remembers
    refused,    \* history: the attempts answered 401 since the last success
    answer,     \* the answer given in this instant: an address and a code
    count,      \* failed requests so far
    clock       \* Instant::now()

vars == <<attempts, refused, answer, count, clock>>

Attempt == [n: Nat, at: Nat]

NoAnswer == [ip |-> "none", code |-> 0]

\* Those younger than the window.
Recent(as) == {a \in as: clock < a.at + Window}

Init ==
    /\ attempts = [ip \in Ips |-> {}]
    /\ refused = [ip \in Ips |-> {}]
    /\ answer = NoAnswer
    /\ count = 0 /\ clock = 0

\* reset: a valid key clears the address, blocked or not.
Succeed(ip) ==
    /\ attempts' = [attempts EXCEPT ![ip] = {}]
    /\ refused' = [refused EXCEPT ![ip] = {}]
    /\ answer' = [ip |-> ip, code |-> 200]
    /\ UNCHANGED <<count, clock>>

\* Bug: the attempt remembered before the length is tested.
Kept_Blocked(ip, a) == Recent(attempts[ip]) \cup {a}

\* What `retain` leaves of an address that is found blocked.
Kept(ip, a) == Recent(attempts[ip])

\* Bug: one failure too many.
Blocked_OffByOne(ip) == Cardinality(Recent(attempts[ip])) > MaxFailures

\* entry.len() >= max_failures, after `retain`
Blocked(ip) == Cardinality(Recent(attempts[ip])) >= MaxFailures

\* check, for a key that is missing or invalid: old attempts are forgotten;
\* a blocked address is refused with 429 and nothing is added, another gets
\* its attempt remembered and 401.
Fail(ip) ==
    /\ count < MaxAttempts
    /\ LET a == [n |-> count, at |-> clock] IN
        \/ /\ Blocked(ip)
           /\ attempts' = [attempts EXCEPT ![ip] = Kept(ip, a)]
           /\ answer' = [ip |-> ip, code |-> 429]
           /\ UNCHANGED refused
        \/ /\ ~ Blocked(ip)
           /\ attempts' = [attempts EXCEPT ![ip] = Recent(attempts[ip]) \cup {a}]
           /\ answer' = [ip |-> ip, code |-> 401]
           /\ refused' = [refused EXCEPT ![ip] = @ \cup {a}]
    /\ count' = count + 1
    /\ UNCHANGED clock

Tick ==
    /\ clock < MaxNow
    /\ clock' = clock + 1
    /\ answer' = NoAnswer
    /\ UNCHANGED <<attempts, refused, count>>

Next == (\E ip \in Ips: Succeed(ip) \/ Fail(ip)) \/ Tick

Spec == Init /\ [][Next]_vars

------------------------------------------------------------------------------

\* Types; attempts carry numbers below the count, none is in the future, and
\* an address remembers only failures that were answered 401.
TypeOK ==
    /\ attempts \in [Ips -> SUBSET Attempt] /\ refused \in [Ips -> SUBSET Attempt]
    /\ \A ip \in Ips: \A a \in attempts[ip] \cup refused[ip]: a.n < count /\ a.at <= clock
    /\ \A ip \in Ips: attempts[ip] \subseteq refused[ip] /\ IsFiniteSet(refused[ip])
    /\ answer = NoAnswer \/ answer \in [ip: Ips, code: {200, 401, 429}]
    /\ count \in Nat /\ clock \in Nat

\* In no window of time are more than MaxFailures failures of an address
\* answered 401 without a valid key in between, however the attempts of the
\* addresses and the forgetting of old ones interleave.  The keys themselves
\* are validated first, blocked or not: this bounds the answers.
AtMostMaxFailures ==
    \A ip \in Ips: Cardinality(Recent(refused[ip])) <= MaxFailures

\* Why: an address remembers each failure answered 401 for as long as it is
\* recent; what is forgotten is old.
RecentRemembered == \A ip \in Ips: Recent(refused[ip]) \subseteq attempts[ip]

\* An address is refused with 429 only for failures that were answered 401
\* in the last window: refusals do not prolong themselves.
BlockedByFailuresOnly ==
    answer.code = 429 => Cardinality(Recent(refused[answer.ip])) >= MaxFailures
=============================================================================
