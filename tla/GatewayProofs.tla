---------------------------- MODULE GatewayProofs ----------------------------
(***************************************************************************)
(* Proofs about RateLimiter and Gateway: how many 401 answers an address   *)
(* gets, that the limiter in Gateway is that one, and that what is         *)
(* recorded is what was asked and answered, for any number of requests,    *)
(* keys and models and however requests, revocations and departures        *)
(* interleave.                                                             *)
(***************************************************************************)
EXTENDS Gateway, FiniteSetTheorems, SequenceTheorems, TLAPS

------------------------------------------------------------------------------
(* The limiter by itself, for any limit, window and addresses.             *)

\* The invariant of the proofs; it is inductive.
IInv == TypeOK /\ RecentRemembered /\ AtMostMaxFailures /\ BlockedByFailuresOnly

\* What the limiter counts is what it answered 401 recently.
LEMMA RecentSame ==
    ASSUME TypeOK, RecentRemembered, NEW ip \in Ips
    PROVE  /\ Recent(attempts[ip]) = Recent(refused[ip])
           /\ IsFiniteSet(Recent(refused[ip]))
           /\ Cardinality(Recent(refused[ip])) \in Nat
<1>1. Recent(attempts[ip]) = Recent(refused[ip])
  BY DEF TypeOK, RecentRemembered, Recent
<1>2. IsFiniteSet(refused[ip]) /\ Recent(refused[ip]) \in SUBSET refused[ip]
  BY DEF TypeOK, Recent
<1>3. IsFiniteSet(Recent(refused[ip]))
  BY <1>2, FS_Subset
<1> QED BY <1>1, <1>3, FS_CardinalityType

LEMMA InitInv == Init => IInv
<1> SUFFICES ASSUME Init PROVE IInv
  OBVIOUS
<1>1. \A ip \in Ips: attempts[ip] = {} /\ refused[ip] = {}
  BY DEF Init
<1>2. IsFiniteSet({}) /\ Cardinality({}) = 0
  BY FS_EmptySet
<1>3. TypeOK
  BY <1>1, <1>2 DEF Init, TypeOK
<1>4. RecentRemembered
  BY <1>1 DEF RecentRemembered, Recent
<1>5. AtMostMaxFailures
  <2>1. \A ip \in Ips: Recent(refused[ip]) = {}
    BY <1>1 DEF Recent
  <2> QED BY <2>1, <1>2, LimiterAssumption DEF AtMostMaxFailures
<1>6. BlockedByFailuresOnly
  BY DEF Init, NoAnswer, BlockedByFailuresOnly
<1> QED BY <1>3, <1>4, <1>5, <1>6 DEF IInv

\* A valid key: the address starts afresh, the others are not touched.
LEMMA SucceedStep ==
    ASSUME IInv, NEW ip \in Ips, Succeed(ip)
    PROVE  IInv'
<1>1. /\ attempts' \in [Ips -> SUBSET Attempt] /\ refused' \in [Ips -> SUBSET Attempt]
      /\ attempts'[ip] = {} /\ refused'[ip] = {}
      /\ \A j \in Ips \ {ip}: attempts'[j] = attempts[j] /\ refused'[j] = refused[j]
      /\ answer' = [ip |-> ip, code |-> 200] /\ count' = count /\ clock' = clock
  BY DEF Succeed, IInv, TypeOK
<1>2. IsFiniteSet({}) /\ Cardinality({}) = 0
  BY FS_EmptySet
<1>3. TypeOK'
  <2>1. \A j \in Ips: \A a \in attempts'[j] \cup refused'[j]: a.n < count' /\ a.at <= clock'
    <3> SUFFICES ASSUME NEW j \in Ips
                 PROVE  \A a \in attempts'[j] \cup refused'[j]: a.n < count' /\ a.at <= clock'
      OBVIOUS
    <3>1. \A a \in attempts[j] \cup refused[j]: a.n < count /\ a.at <= clock
      BY DEF IInv, TypeOK
    <3> QED BY <1>1, <3>1
  <2>2. \A j \in Ips: attempts'[j] \subseteq refused'[j] /\ IsFiniteSet(refused'[j])
    <3> SUFFICES ASSUME NEW j \in Ips
                 PROVE  attempts'[j] \subseteq refused'[j] /\ IsFiniteSet(refused'[j])
      OBVIOUS
    <3>1. attempts[j] \subseteq refused[j] /\ IsFiniteSet(refused[j])
      BY DEF IInv, TypeOK
    <3> QED BY <1>1, <1>2, <3>1
  <2>3. answer' \in [ip: Ips, code: {200, 401, 429}]
    BY <1>1
  <2>4. count' \in Nat /\ clock' \in Nat
    BY <1>1 DEF IInv, TypeOK
  <2> QED BY <1>1, <2>1, <2>2, <2>3, <2>4, Zenon DEF TypeOK
<1>4. RecentRemembered'
  BY <1>1 DEF IInv, RecentRemembered, Recent
<1>5. AtMostMaxFailures'
  <2> SUFFICES ASSUME NEW j \in Ips PROVE Cardinality(Recent(refused[j])') <= MaxFailures
    BY DEF AtMostMaxFailures
  <2>1. CASE j = ip
    <3>1. Recent(refused[j])' = {}
      BY <1>1, <2>1 DEF Recent
    <3> QED BY <3>1, <1>2, LimiterAssumption
  <2>2. CASE j # ip
    <3>1. Recent(refused[j])' = Recent(refused[j])
      BY <1>1, <2>2 DEF Recent
    <3> QED BY <3>1 DEF IInv, AtMostMaxFailures
  <2> QED BY <2>1, <2>2
<1>6. BlockedByFailuresOnly'
  BY <1>1 DEF BlockedByFailuresOnly
<1> QED BY <1>3, <1>4, <1>5, <1>6 DEF IInv

\* A blocked address: old attempts are forgotten, nothing is added.
LEMMA BlockedStep ==
    ASSUME IInv, NEW ip \in Ips, Blocked(ip),
           attempts' = [attempts EXCEPT ![ip] = Recent(attempts[ip])],
           answer' = [ip |-> ip, code |-> 429],
           refused' = refused, count' = count + 1, clock' = clock
    PROVE  IInv'
<1>1. /\ attempts' \in [Ips -> SUBSET Attempt]
      /\ attempts'[ip] = Recent(attempts[ip])
      /\ \A j \in Ips \ {ip}: attempts'[j] = attempts[j]
  BY DEF IInv, TypeOK, Recent
<1>2. \A j \in Ips: attempts'[j] \subseteq attempts[j]
  BY <1>1 DEF Recent
<1>3. TypeOK'
  <2>1. count \in Nat /\ count' \in Nat /\ clock' \in Nat
    BY DEF IInv, TypeOK
  <2>2. \A j \in Ips: \A a \in attempts'[j] \cup refused'[j]: a.n < count' /\ a.at <= clock'
    BY <1>2, <2>1 DEF IInv, TypeOK, Attempt
  <2> QED BY <1>1, <1>2, <2>1, <2>2 DEF IInv, TypeOK
<1>4. RecentRemembered'
  BY <1>1 DEF IInv, RecentRemembered, Recent
<1>5. \A j \in Ips: Recent(refused[j])' = Recent(refused[j])
  BY DEF Recent
<1>6. AtMostMaxFailures'
  BY <1>5 DEF IInv, AtMostMaxFailures
<1>7. BlockedByFailuresOnly'
  BY <1>5, RecentSame DEF IInv, BlockedByFailuresOnly, Blocked
<1> QED BY <1>3, <1>4, <1>6, <1>7 DEF IInv

\* Another address: the attempt is remembered and answered 401.
LEMMA RefusedStep ==
    ASSUME IInv, NEW ip \in Ips, ~ Blocked(ip), NEW a,
           a = [n |-> count, at |-> clock],
           attempts' = [attempts EXCEPT ![ip] = Recent(attempts[ip]) \cup {a}],
           answer' = [ip |-> ip, code |-> 401],
           refused' = [refused EXCEPT ![ip] = @ \cup {a}],
           count' = count + 1, clock' = clock
    PROVE  IInv'
<1>0. a \in Attempt /\ a.n = count /\ a.at = clock /\ count \in Nat /\ clock \in Nat
  BY DEF IInv, TypeOK, Attempt
<1>1. /\ attempts' \in [Ips -> SUBSET Attempt] /\ refused' \in [Ips -> SUBSET Attempt]
      /\ attempts'[ip] = Recent(attempts[ip]) \cup {a}
      /\ refused'[ip] = refused[ip] \cup {a}
      /\ \A j \in Ips \ {ip}: attempts'[j] = attempts[j] /\ refused'[j] = refused[j]
  BY <1>0 DEF IInv, TypeOK, Recent
<1>2. TypeOK'
  <2>1. \A j \in Ips: \A b \in attempts'[j] \cup refused'[j]: b.n < count' /\ b.at <= clock'
    BY <1>0, <1>1 DEF IInv, TypeOK, Attempt, Recent
  <2>2. \A j \in Ips: attempts'[j] \subseteq refused'[j]
    BY <1>1 DEF IInv, TypeOK, Recent
  <2>3. ASSUME NEW j \in Ips PROVE IsFiniteSet(refused'[j])
    <3>1. IsFiniteSet(refused[j])
      BY DEF IInv, TypeOK
    <3>2. IsFiniteSet(refused[j] \cup {a})
      BY <3>1, FS_AddElement
    <3>3. refused'[j] = refused[j] \/ refused'[j] = refused[j] \cup {a}
      BY <1>1
    <3> QED BY <3>1, <3>2, <3>3
  <2>4. answer' \in [ip: Ips, code: {200, 401, 429}]
    OBVIOUS
  <2>5. count' \in Nat /\ clock' \in Nat
    BY <1>0
  <2>6. attempts' \in [Ips -> SUBSET Attempt] /\ refused' \in [Ips -> SUBSET Attempt]
    BY <1>1
  <2>7. \A j \in Ips: attempts'[j] \subseteq refused'[j] /\ IsFiniteSet(refused'[j])
    BY <2>2, <2>3, Zenon
  <2>8. answer' = NoAnswer \/ answer' \in [ip: Ips, code: {200, 401, 429}]
    BY <2>4, Zenon
  <2> QED BY <2>1, <2>5, <2>6, <2>7, <2>8, Zenon DEF TypeOK
<1>3. RecentRemembered'
  BY <1>1 DEF IInv, RecentRemembered, Recent
<1>4. AtMostMaxFailures'
  <2> SUFFICES ASSUME NEW j \in Ips PROVE Cardinality(Recent(refused[j])') <= MaxFailures
    BY DEF AtMostMaxFailures
  <2>1. CASE j = ip
    <3>1. Recent(refused[j])' = Recent(refused[j]) \cup {a}
      BY <1>0, <1>1, <2>1, LimiterAssumption DEF Recent
    <3>2. Cardinality(Recent(refused[j])) < MaxFailures
      BY <2>1, RecentSame, LimiterAssumption DEF IInv, Blocked
    <3>3. /\ IsFiniteSet(Recent(refused[j]))
          /\ Cardinality(Recent(refused[j])) \in Nat
      BY RecentSame DEF IInv
    <3>4. \/ Cardinality(Recent(refused[j]) \cup {a}) = Cardinality(Recent(refused[j]))
          \/ Cardinality(Recent(refused[j]) \cup {a}) = Cardinality(Recent(refused[j])) + 1
      BY <3>3, FS_AddElement, Zenon
    <3>5. Cardinality(Recent(refused[j])') = Cardinality(Recent(refused[j]) \cup {a})
      BY <3>1, Zenon
    <3> QED BY <3>2, <3>3, <3>4, <3>5, LimiterAssumption
  <2>2. CASE j # ip
    <3>1. Recent(refused[j])' = Recent(refused[j])
      BY <1>1, <2>2 DEF Recent
    <3> QED BY <3>1 DEF IInv, AtMostMaxFailures
  <2> QED BY <2>1, <2>2
<1>5. BlockedByFailuresOnly'
  BY DEF BlockedByFailuresOnly
<1> QED BY <1>2, <1>3, <1>4, <1>5 DEF IInv

\* Time passes: attempts get older, none gets younger.
LEMMA TickStep ==
    ASSUME IInv, Tick
    PROVE  IInv'
<1>1. /\ attempts' = attempts /\ refused' = refused /\ answer' = NoAnswer
      /\ count' = count /\ clock' = clock + 1 /\ clock \in Nat
  BY DEF Tick, IInv, TypeOK
<1>2. \A j \in Ips: \A a \in refused[j]: a.at \in Nat
  BY DEF IInv, TypeOK, Attempt
<1>3. \A j \in Ips: Recent(refused[j])' \in SUBSET Recent(refused[j])
  BY <1>1, <1>2, LimiterAssumption DEF Recent
<1>4. TypeOK'
  <2>1. \A j \in Ips: \A a \in attempts[j] \cup refused[j]: a.at <= clock'
    BY <1>1 DEF IInv, TypeOK, Attempt
  <2> QED BY <1>1, <2>1 DEF IInv, TypeOK
<1>5. RecentRemembered'
  BY <1>1, <1>3 DEF IInv, RecentRemembered
<1>6. AtMostMaxFailures'
  <2> SUFFICES ASSUME NEW j \in Ips PROVE Cardinality(Recent(refused[j])') <= MaxFailures
    BY DEF AtMostMaxFailures
  <2>1. IsFiniteSet(Recent(refused[j])) /\ Cardinality(Recent(refused[j])) \in Nat
    BY RecentSame DEF IInv
  <2>2. /\ Cardinality(Recent(refused[j])') \in Nat
        /\ Cardinality(Recent(refused[j])') <= Cardinality(Recent(refused[j]))
    BY <1>3, <2>1, FS_Subset, FS_CardinalityType
  <2> QED BY <2>1, <2>2, LimiterAssumption DEF IInv, AtMostMaxFailures
<1>7. BlockedByFailuresOnly'
  BY <1>1 DEF BlockedByFailuresOnly, NoAnswer
<1> QED BY <1>4, <1>5, <1>6, <1>7 DEF IInv

\* The limiter's invariant holds in every reachable state.
THEOREM Invariance == Spec => []IInv
<1>1. ASSUME IInv, [Next]_vars PROVE IInv'
  <2>1. ASSUME NEW ip \in Ips, Fail(ip) PROVE IInv'
    <3> DEFINE a == [n |-> count, at |-> clock]
    <3>1. CASE Blocked(ip)
      <4>1. /\ attempts' = [attempts EXCEPT ![ip] = Recent(attempts[ip])]
            /\ answer' = [ip |-> ip, code |-> 429]
            /\ refused' = refused /\ count' = count + 1 /\ clock' = clock
        BY <2>1, <3>1 DEF Fail, Kept
      <4> QED BY <1>1, <3>1, <4>1, BlockedStep
    <3>2. CASE ~ Blocked(ip)
      <4>1. /\ attempts' = [attempts EXCEPT ![ip] = Recent(attempts[ip]) \cup {a}]
            /\ answer' = [ip |-> ip, code |-> 401]
            /\ refused' = [refused EXCEPT ![ip] = @ \cup {a}]
            /\ count' = count + 1 /\ clock' = clock
        BY <2>1, <3>2 DEF Fail
      <4> QED BY <1>1, <3>2, <4>1, RefusedStep
    <3> QED BY <3>1, <3>2
  <2>2. CASE UNCHANGED vars
    BY <1>1, <2>2 DEF vars, IInv, TypeOK, RecentRemembered, AtMostMaxFailures,
                     BlockedByFailuresOnly, Recent
  <2> QED BY <1>1, <2>1, <2>2, SucceedStep, TickStep DEF Next
<1> QED BY InitInv, <1>1, PTL DEF Spec

\* No address gets more than MaxFailures failures answered 401 in a window
\* without presenting a valid key, for every limit and window.  It is a bound
\* on the answers: a key is validated before the limiter is asked.
THEOREM FailuresBounded == Spec => []AtMostMaxFailures
<1>1. IInv => AtMostMaxFailures
  BY DEF IInv
<1> QED BY <1>1, Invariance, PTL

\* A 429 is always backed by MaxFailures recent 401 answers: refusals are not
\* themselves counted.
THEOREM BlockedJustly == Spec => []BlockedByFailuresOnly
<1>1. IInv => BlockedByFailuresOnly
  BY DEF IInv
<1> QED BY <1>1, Invariance, PTL

------------------------------------------------------------------------------
(* The gateway: the invariant of the requests in flight.                   *)

Names == {Nothing} \cup {KeyName[k]: k \in Keys} \cup {Fallback(k): k \in Keys}

Stages == Handled \cup {"relaying", "ended"}

Rows == [req: Requests, key: Keys, name: Names, model: DOMAIN Models]

GatewayTypes ==
    /\ input \in [Requests -> Input]
    /\ stage \in [Requests -> Stages] /\ DOMAIN status = Requests
    /\ name \in [Requests -> Names]
    /\ misread \in [Requests -> BOOLEAN] /\ DOMAIN asked = Requests
    /\ valid \subseteq Keys
    /\ usage \in Seq(Rows)

\* Where a request stands.  A request that is not over has no row.
RequestInv(r) ==
    /\ stage[r] \in Handled => status[r] = 0
    /\ stage[r] = "relaying" => status[r] = Passed
    /\ stage[r] # "ended" => RowsOf(r) = {}
    /\ status[r] \in {400, 401, 429, 500, 502} => RowsOf(r) = {}
    /\ status[r] = Passed /\ stage[r] = "ended" => RowsOf(r) # {}
    /\ \A m, n \in RowsOf(r): m = n
    /\ stage[r] \in {"accepted", "validated", "admitted", "asking", "buffering", "relaying"}
         => input[r].key \in Keys
    /\ stage[r] = "rejected" => input[r].key \notin valid
    /\ stage[r] \in {"admitted", "asking", "buffering", "relaying"}
         => name[r] = KeyName[input[r].key] \/ input[r].key \notin valid \/ misread[r]
    /\ stage[r] \in {"asking", "buffering", "relaying"}
         => input[r].model \in DOMAIN Models /\ asked[r] = Models[input[r].model]
    /\ status[r] \in {401, 429} => input[r].key \notin valid

\* What a row says of its request.
RowInv(n) ==
    LET r == usage[n].req
    IN  /\ usage[n].model = input[r].model /\ asked[r] = Models[usage[n].model]
        /\ usage[n].key = input[r].key
        /\ usage[n].name = KeyName[usage[n].key] \/ usage[n].key \notin valid \/ misread[r]

GInv ==
    /\ GatewayTypes
    /\ \A r \in Requests: RequestInv(r)
    /\ \A n \in DOMAIN usage: RowInv(n)

LEMMA UsageFacts ==
    ASSUME usage \in Seq(Rows)
    PROVE  /\ Len(usage) \in Nat /\ DOMAIN usage = 1 .. Len(usage)
           /\ \A n \in DOMAIN usage: usage[n] \in Rows
<1>1. Len(usage) \in Nat /\ DOMAIN usage = 1 .. Len(usage)
  BY LenProperties
<1>2. \A n \in 1 .. Len(usage): usage[n] \in Rows
  BY ElementOfSeq
<1> QED BY <1>1, <1>2

LEMMA GatewayInit == ChatInit => GInv
<1> SUFFICES ASSUME ChatInit PROVE GInv
  OBVIOUS
<1>1. usage = <<>> /\ usage \in Seq(Rows) /\ DOMAIN usage = {}
  BY EmptySeq DEF ChatInit
<1>2. GatewayTypes
  BY <1>1 DEF ChatInit, Stages, Handled, GatewayTypes, Names
<1>3. ASSUME NEW r \in Requests PROVE RequestInv(r)
  BY <1>1 DEF ChatInit, RequestInv, RowsOf, Passed
<1> QED BY <1>1, <1>2, <1>3 DEF GInv

------------------------------------------------------------------------------
(* One request moves and nothing is recorded: it suffices to look at it.   *)

Others(r) ==
    \A q \in Requests \ {r}:
        /\ stage'[q] = stage[q] /\ name'[q] = name[q] /\ misread'[q] = misread[q]
        /\ asked'[q] = asked[q] /\ status'[q] = status[q]

LEMMA Quiet ==
    ASSUME GInv, NEW r \in Requests, stage[r] # "ended",
           GatewayTypes', Others(r), UNCHANGED <<input, valid, usage>>, RequestInv(r)'
    PROVE  GInv'
<1>1. input' = input /\ valid' = valid /\ usage' = usage
  OBVIOUS
<1>2. \A q \in Requests: RowsOf(q)' = RowsOf(q)
  BY <1>1 DEF RowsOf
<1>3. ASSUME NEW q \in Requests, q # r PROVE RequestInv(q)'
  <2>1. /\ stage'[q] = stage[q] /\ name'[q] = name[q] /\ misread'[q] = misread[q]
        /\ asked'[q] = asked[q] /\ status'[q] = status[q]
    BY <1>3 DEF Others
  <2>2. RequestInv(q)
    BY DEF GInv
  <2> QED BY <1>1, <1>2, <2>1, <2>2 DEF RequestInv
<1>4. ASSUME NEW n \in DOMAIN usage PROVE RowInv(n)'
  <2> DEFINE q == usage[n].req
  <2>1. q \in Requests
    BY UsageFacts DEF GInv, GatewayTypes, Rows
  <2>2. q # r
    BY DEF GInv, RequestInv, RowsOf
  <2>3. asked'[q] = asked[q] /\ misread'[q] = misread[q]
    BY <2>1, <2>2 DEF Others
  <2>4. RowInv(n)
    BY DEF GInv
  <2> QED BY <1>1, <2>3, <2>4 DEF RowInv
<1> QED BY <1>1, <1>3, <1>4 DEF GInv

LEMMA ValidateInv ==
    ASSUME GInv, NEW r \in Requests, Validate(r)
    PROVE  GInv'
<1>1. /\ stage[r] = "new" /\ status[r] = 0 /\ RowsOf(r) = {} /\ RequestInv(r)
      /\ valid \subseteq Keys
      /\ UNCHANGED <<input, valid, usage, name, misread, asked, status>>
  BY DEF Validate, GInv, RequestInv, Handled, GatewayTypes
<1>2. RowsOf(r)' = {}
  BY <1>1 DEF RowsOf
<1>3. \/ Admits(r) /\ To(r, "accepted")
      \/ ~ Admits(r) /\ To(r, "rejected")
  BY DEF Validate
<1>4. GatewayTypes' /\ Others(r) /\ stage'[r] \in {"accepted", "rejected"} /\ status'[r] = 0
  BY <1>1, <1>3 DEF To, Stages, Handled, GInv, GatewayTypes, Others
<1>5. \/ Admits(r) /\ stage'[r] = "accepted"
      \/ ~ Admits(r) /\ stage'[r] = "rejected"
  BY <1>3 DEF To, GInv, GatewayTypes
<1>6. RequestInv(r)'
  BY <1>1, <1>2, <1>4, <1>5 DEF RequestInv, Passed, Admits, Handled
<1> QED BY <1>1, <1>4, <1>6, Quiet

LEMMA AcceptInv ==
    ASSUME GInv, NEW r \in Requests, Accept(r)
    PROVE  GInv'
<1>1. /\ stage[r] = "accepted" /\ status[r] = 0 /\ RowsOf(r) = {} /\ RequestInv(r)
      /\ UNCHANGED <<input, valid, usage, name, misread, asked, status>> /\ To(r, "validated")
  BY DEF Accept, GInv, RequestInv, Handled
<1>2. RowsOf(r)' = {}
  BY <1>1 DEF RowsOf
<1>3. GatewayTypes' /\ Others(r) /\ stage'[r] = "validated" /\ status'[r] = 0
  BY <1>1 DEF To, Stages, Handled, GInv, GatewayTypes, Others
<1>4. RequestInv(r)'
  BY <1>1, <1>2, <1>3 DEF RequestInv, Passed, Handled
<1> QED BY <1>1, <1>3, <1>4, Quiet

LEMMA RejectInv ==
    ASSUME GInv, NEW r \in Requests, Reject(r)
    PROVE  GInv'
<1>1. /\ stage[r] = "rejected" /\ RowsOf(r) = {} /\ RequestInv(r)
      /\ UNCHANGED <<input, valid, usage, name, misread, asked>> /\ To(r, "ended")
  BY DEF Reject, GInv, RequestInv, Handled
<1>2. RowsOf(r)' = {}
  BY <1>1 DEF RowsOf
<1>3. PICK code \in {401, 429}: Answer(r, code)
  BY DEF Reject, Fail
<1>4. GatewayTypes' /\ Others(r) /\ stage'[r] = "ended" /\ status'[r] = code
  BY <1>1, <1>3 DEF To, Answer, Stages, Handled, GInv, GatewayTypes, Others
<1>5. RequestInv(r)'
  BY <1>1, <1>2, <1>4 DEF RequestInv, Passed, Handled
<1> QED BY <1>1, <1>4, <1>5, Quiet

LEMMA RefuseInv ==
    ASSUME GInv, NEW r \in Requests, stage[r] \in Handled,
           NEW code \in {400, 500, 502}, Answer(r, code), To(r, "ended"),
           UNCHANGED <<input, valid, usage, name, misread, asked>>
    PROVE  GInv'
<1>1. stage[r] # "ended" /\ RowsOf(r) = {} /\ RequestInv(r)
  BY DEF GInv, RequestInv, Handled
<1>2. RowsOf(r)' = {}
  BY <1>1 DEF RowsOf
<1>3. GatewayTypes' /\ Others(r) /\ stage'[r] = "ended" /\ status'[r] = code
  BY DEF To, Answer, Stages, Handled, GInv, GatewayTypes, Others
<1>4. RequestInv(r)'
  BY <1>1, <1>2, <1>3 DEF RequestInv, Passed, Handled
<1> QED BY <1>1, <1>3, <1>4, Quiet

LEMMA LookupNameInv ==
    ASSUME GInv, NEW r \in Requests, LookupName(r)
    PROVE  GInv'
<1>1. /\ stage[r] = "validated" /\ RowsOf(r) = {} /\ RequestInv(r) /\ input[r].key \in Keys
      /\ status[r] = 0
  BY DEF LookupName, GInv, RequestInv, Handled
<1>2. UNCHANGED <<input, valid, usage, asked, status>> /\ To(r, "admitted")
  BY DEF LookupName
<1>3. RowsOf(r)' = {}
  BY <1>1, <1>2 DEF RowsOf
<1>4. stage' \in [Requests -> Stages] /\ stage'[r] = "admitted"
      /\ \A q \in Requests \ {r}: stage'[q] = stage[q]
  BY <1>2 DEF To, Stages, Handled, GInv, GatewayTypes
<1>5. CASE name' = [name EXCEPT ![r] = NameOf(input[r].key)] /\ UNCHANGED misread
  <2>1. NameOf(input[r].key) \in Names
    BY <1>1 DEF NameOf, Names
  <2>2. /\ name' \in [Requests -> Names] /\ name'[r] = NameOf(input[r].key)
        /\ \A q \in Requests \ {r}: name'[q] = name[q]
    BY <1>5, <2>1 DEF GInv, GatewayTypes
  <2>3. GatewayTypes' /\ Others(r)
    BY <1>2, <1>4, <1>5, <2>2 DEF GInv, GatewayTypes, Others
  <2>4. name'[r] = KeyName[input'[r].key] \/ input'[r].key \notin valid'
    BY <1>2, <2>2 DEF NameOf
  <2>5. RequestInv(r)'
    BY <1>1, <1>2, <1>3, <1>4, <2>4 DEF RequestInv, Passed, Handled
  <2> QED BY <1>1, <1>2, <2>3, <2>5, Quiet
<1>6. CASE /\ name' = [name EXCEPT ![r] = Fallback(input[r].key)]
           /\ misread' = [misread EXCEPT ![r] = TRUE]
  <2>1. Fallback(input[r].key) \in Names
    BY <1>1 DEF Names
  <2>2. /\ name' \in [Requests -> Names]
        /\ \A q \in Requests \ {r}: name'[q] = name[q]
    BY <1>6, <2>1 DEF GInv, GatewayTypes
  <2>3. /\ misread' \in [Requests -> BOOLEAN] /\ misread'[r]
        /\ \A q \in Requests \ {r}: misread'[q] = misread[q]
    BY <1>6 DEF GInv, GatewayTypes
  <2>4. GatewayTypes' /\ Others(r)
    BY <1>2, <1>4, <2>2, <2>3 DEF GInv, GatewayTypes, Others
  <2>5. RequestInv(r)'
    BY <1>1, <1>2, <1>3, <1>4, <2>3 DEF RequestInv, Passed, Handled
  <2> QED BY <1>1, <1>2, <2>4, <2>5, Quiet
<1> QED BY <1>5, <1>6 DEF LookupName

LEMMA AskInv ==
    ASSUME GInv, NEW r \in Requests, Ask(r)
    PROVE  GInv'
<1>1. /\ stage[r] = "admitted" /\ RowsOf(r) = {} /\ RequestInv(r) /\ status[r] = 0
      /\ UNCHANGED <<input, valid, usage, name, misread>>
  BY DEF Ask, GInv, RequestInv, Handled
<1>2. CASE input[r].model \in DOMAIN Models
  <2>1. /\ asked' = [asked EXCEPT ![r] = Models[input[r].model]]
        /\ To(r, "asking") /\ UNCHANGED status
    BY <1>2 DEF Ask
  <2>2. /\ GatewayTypes' /\ Others(r) /\ stage'[r] = "asking"
        /\ asked'[r] = Models[input[r].model]
    BY <1>1, <2>1 DEF To, Stages, Handled, GInv, GatewayTypes, Others
  <2>3. RowsOf(r)' = {}
    BY <1>1 DEF RowsOf
  <2>4. RequestInv(r)'
    BY <1>1, <1>2, <2>1, <2>2, <2>3 DEF RequestInv, Passed, Handled
  <2> QED BY <1>1, <2>2, <2>4, Quiet
<1>3. CASE input[r].model \notin DOMAIN Models
  <2>1. Answer(r, 400) /\ To(r, "ended") /\ UNCHANGED asked
    BY <1>3 DEF Ask
  <2>2. stage[r] \in Handled
    BY <1>1 DEF Handled
  <2> QED BY <1>1, <2>1, <2>2, RefuseInv
<1> QED BY <1>2, <1>3

LEMMA RespondInv ==
    ASSUME GInv, NEW r \in Requests, Respond(r)
    PROVE  GInv'
<1>1. /\ stage[r] = "asking" /\ RowsOf(r) = {} /\ RequestInv(r) /\ status[r] = 0
      /\ UNCHANGED <<input, valid, usage, name, misread, asked>>
  BY DEF Respond, GInv, RequestInv, Handled
<1>2. RowsOf(r)' = {}
  BY <1>1 DEF RowsOf
<1>3. CASE Answer(r, Passed) /\ To(r, "relaying")
  <2>1. GatewayTypes' /\ Others(r) /\ stage'[r] = "relaying" /\ status'[r] = Passed
    BY <1>1, <1>3 DEF To, Answer, Stages, Handled, GInv, GatewayTypes, Others
  <2>2. RequestInv(r)'
    BY <1>1, <1>2, <2>1 DEF RequestInv, Passed, Handled
  <2> QED BY <1>1, <2>1, <2>2, Quiet
<1>4. CASE To(r, "buffering") /\ UNCHANGED status
  <2>1. GatewayTypes' /\ Others(r) /\ stage'[r] = "buffering" /\ status'[r] = 0
    BY <1>1, <1>4 DEF To, Stages, Handled, GInv, GatewayTypes, Others
  <2>2. RequestInv(r)'
    BY <1>1, <1>2, <2>1 DEF RequestInv, Passed, Handled
  <2> QED BY <1>1, <2>1, <2>2, Quiet
<1> QED BY <1>3, <1>4 DEF Respond

LEMMA CancelInv ==
    ASSUME GInv, NEW r \in Requests, Cancel(r)
    PROVE  GInv'
<1>1. /\ stage[r] # "ended" /\ status[r] = 0 /\ RowsOf(r) = {} /\ RequestInv(r)
      /\ UNCHANGED <<input, valid, usage, name, misread, asked, status>> /\ To(r, "ended")
  BY DEF Cancel, GInv, RequestInv, Handled
<1>2. RowsOf(r)' = {}
  BY <1>1 DEF RowsOf
<1>3. GatewayTypes' /\ Others(r) /\ stage'[r] = "ended" /\ status'[r] = 0
  BY <1>1 DEF To, Stages, Handled, GInv, GatewayTypes, Others
<1>4. RequestInv(r)'
  BY <1>1, <1>2, <1>3 DEF RequestInv, Passed, Handled
<1> QED BY <1>1, <1>3, <1>4, Quiet

------------------------------------------------------------------------------
(* A request is recorded and ends, all at once.                            *)

LEMMA RecordInv ==
    ASSUME GInv, NEW r \in Requests, stage[r] \in {"buffering", "relaying"},
           Record(r), To(r, "ended"),
           DOMAIN status' = Requests, status'[r] = Passed,
           \A q \in Requests \ {r}: status'[q] = status[q],
           UNCHANGED <<input, valid, name, misread, asked>>
    PROVE  GInv'
<1>1. /\ RequestInv(r) /\ RowsOf(r) = {} /\ input[r].key \in Keys
      /\ input[r].model \in DOMAIN Models /\ asked[r] = Models[input[r].model]
      /\ name[r] = KeyName[input[r].key] \/ input[r].key \notin valid \/ misread[r]
      /\ usage \in Seq(Rows) /\ name[r] \in Names
  BY DEF GInv, RequestInv, GatewayTypes
<1>2. Row(r) \in Rows
  BY <1>1 DEF Row, Rows
<1>3. Len(usage) \in Nat /\ DOMAIN usage = 1 .. Len(usage)
  BY <1>1, UsageFacts
<1>4. /\ usage' \in Seq(Rows) /\ Len(usage') = Len(usage) + 1
      /\ \A n \in 1 .. Len(usage): usage'[n] = usage[n]
      /\ usage'[Len(usage) + 1] = Row(r)
  <2>1. usage' = Append(usage, Row(r))
    BY DEF Record
  <2> QED BY <1>1, <1>2, <2>1, AppendProperties
<1>5. DOMAIN usage' = 1 .. Len(usage) + 1
  BY <1>3, <1>4, LenProperties
<1>6. /\ stage' \in [Requests -> Stages] /\ stage'[r] = "ended"
      /\ \A q \in Requests \ {r}: stage'[q] = stage[q]
  BY DEF To, Stages, Handled, GInv, GatewayTypes
<1>7. GatewayTypes'
  BY <1>4, <1>6 DEF GInv, GatewayTypes
<1>8. RowsOf(r)' = {Len(usage) + 1}
  <2>1. \A n \in 1 .. Len(usage): usage'[n].req # r
    BY <1>1, <1>3, <1>4 DEF RowsOf
  <2>2. usage'[Len(usage) + 1].req = r
    BY <1>4 DEF Row
  <2> QED BY <1>3, <1>5, <2>1, <2>2 DEF RowsOf
<1>9. RequestInv(r)'
  BY <1>1, <1>6, <1>8 DEF RequestInv, Passed, Handled
<1>10. ASSUME NEW q \in Requests, q # r PROVE RequestInv(q)'
  <2>1. usage'[Len(usage) + 1].req = r
    BY <1>4 DEF Row
  <2>2. RowsOf(q)' = RowsOf(q)
    BY <1>3, <1>4, <1>5, <1>10, <2>1 DEF RowsOf
  <2>3. stage'[q] = stage[q] /\ status'[q] = status[q] /\ RequestInv(q)
    BY <1>6, <1>10 DEF GInv
  <2> QED BY <2>2, <2>3 DEF RequestInv
<1>11. ASSUME NEW n \in 1 .. Len(usage) PROVE RowInv(n)'
  <2>1. usage'[n] = usage[n] /\ RowInv(n)
    BY <1>3, <1>4 DEF GInv
  <2> QED BY <2>1 DEF RowInv
<1>12. ASSUME NEW n, n = Len(usage) + 1 PROVE RowInv(n)'
  <2>1. usage'[n] = Row(r)
    BY <1>4, <1>12
  <2>2. /\ usage'[n].req = r /\ usage'[n].key = input[r].key /\ usage'[n].name = name[r]
        /\ usage'[n].model = input[r].model
    BY <2>1 DEF Row
  <2> QED BY <1>1, <2>2 DEF RowInv
<1>13. ASSUME NEW n \in DOMAIN usage' PROVE RowInv(n)'
  <2>1. n \in 1 .. Len(usage) \/ n = Len(usage) + 1
    BY <1>3, <1>5
  <2> QED BY <1>11, <1>12, <2>1
<1> QED BY <1>7, <1>9, <1>10, <1>13 DEF GInv

------------------------------------------------------------------------------
(* Steps that move no request.                                             *)

LEMMA RevokeInv ==
    ASSUME GInv, NEW k \in Keys, Revoke(k)
    PROVE  GInv'
<1>1. /\ input' = input /\ usage' = usage /\ stage' = stage /\ name' = name
      /\ misread' = misread /\ asked' = asked /\ status' = status
      /\ valid' \subseteq valid
  BY DEF Revoke, request
<1>2. GatewayTypes'
  BY <1>1 DEF GInv, GatewayTypes
<1>3. ASSUME NEW r \in Requests PROVE RequestInv(r)'
  <2>1. RequestInv(r) /\ RowsOf(r)' = RowsOf(r)
    BY <1>1 DEF GInv, RowsOf
  <2> QED BY <1>1, <2>1 DEF RequestInv
<1>4. ASSUME NEW n \in DOMAIN usage PROVE RowInv(n)'
  <2>1. RowInv(n)
    BY DEF GInv
  <2> QED BY <1>1, <2>1 DEF RowInv
<1> QED BY <1>1, <1>2, <1>3, <1>4 DEF GInv

LEMMA IdleInv ==
    ASSUME GInv, UNCHANGED <<input, valid, usage, request>>
    PROVE  GInv'
<1>1. /\ input' = input /\ usage' = usage /\ stage' = stage /\ name' = name
      /\ misread' = misread /\ asked' = asked /\ status' = status
      /\ valid' = valid
  BY DEF request
<1>2. GatewayTypes'
  BY <1>1 DEF GInv, GatewayTypes
<1>3. ASSUME NEW r \in Requests PROVE RequestInv(r)'
  <2>1. RequestInv(r) /\ RowsOf(r)' = RowsOf(r)
    BY <1>1 DEF GInv, RowsOf
  <2> QED BY <1>1, <2>1 DEF RequestInv
<1>4. ASSUME NEW n \in DOMAIN usage PROVE RowInv(n)'
  <2>1. RowInv(n)
    BY DEF GInv
  <2> QED BY <1>1, <2>1 DEF RowInv
<1> QED BY <1>1, <1>2, <1>3, <1>4 DEF GInv

LEMMA GatewayNext == GInv /\ [ChatNext]_chatVars => GInv'
<1>1. ASSUME GInv, NEW r \in Requests, ValidateFails(r) PROVE GInv'
  BY <1>1, RefuseInv DEF ValidateFails, Handled
<1>2. ASSUME GInv, NEW r \in Requests, UpstreamFails(r) PROVE GInv'
  BY <1>2, RefuseInv DEF UpstreamFails, Handled
<1>3. ASSUME GInv, NEW r \in Requests, FinishBuffered(r) PROVE GInv'
  <2>1. /\ DOMAIN status' = Requests /\ status'[r] = Passed
        /\ \A q \in Requests \ {r}: status'[q] = status[q]
    BY <1>3 DEF FinishBuffered, Answer, GInv, GatewayTypes
  <2> QED BY <1>3, <2>1, RecordInv DEF FinishBuffered
<1>4. ASSUME GInv, NEW r \in Requests, FinishRelay(r) PROVE GInv'
  <2>1. DOMAIN status' = Requests /\ status'[r] = Passed /\ status' = status
    BY <1>4 DEF FinishRelay, GInv, GatewayTypes, RequestInv
  <2> QED BY <1>4, <2>1, RecordInv DEF FinishRelay
<1>5. ASSUME GInv, NEW r \in Requests, ClientLeaves(r) PROVE GInv'
  BY <1>5, IdleInv DEF ClientLeaves
<1>6. ASSUME GInv, NEW ip \in Ips, OtherRequest(ip) PROVE GInv'
  BY <1>6, IdleInv DEF OtherRequest
<1>7. ASSUME GInv, Elapse PROVE GInv'
  BY <1>7, IdleInv DEF Elapse
<1>8. ASSUME GInv, UNCHANGED chatVars PROVE GInv'
  BY <1>8, IdleInv DEF chatVars
<1> QED BY <1>1, <1>2, <1>3, <1>4, <1>5, <1>6, <1>7, <1>8,
           ValidateInv, AcceptInv, RejectInv, LookupNameInv, AskInv, RespondInv, CancelInv, RevokeInv
        DEF ChatNext

LEMMA GatewayInvariant == ChatSpec => []GInv
<1> QED BY GatewayInit, GatewayNext, PTL DEF ChatSpec

------------------------------------------------------------------------------
(* The limiter is RateLimiter's.                                           *)

LEMMA StepsOfLimiter == GInv /\ [ChatNext]_chatVars => [Next]_vars
<1>1. ASSUME NEW ip \in Ips, Succeed(ip) \/ Fail(ip) PROVE Next
  BY <1>1 DEF Next
<1>2. ASSUME NEW r \in Requests, GInv, Accept(r) \/ Reject(r) PROVE Next
  <2>1. input[r].ip \in Ips
    BY <1>2 DEF GInv, GatewayTypes, Input
  <2> QED BY <1>1, <1>2, <2>1 DEF Accept, Reject
<1>3. ASSUME NEW ip \in Ips, OtherRequest(ip) PROVE Next
  BY <1>1, <1>3 DEF OtherRequest
<1>4. ASSUME Elapse PROVE Next
  BY <1>4 DEF Elapse, Next
<1>5. ASSUME NEW r \in Requests,
             \/ Validate(r) \/ ValidateFails(r) \/ LookupName(r) \/ Ask(r) \/ UpstreamFails(r) \/ Respond(r)
             \/ FinishBuffered(r) \/ FinishRelay(r) \/ ClientLeaves(r) \/ Cancel(r)
      PROVE  UNCHANGED vars
  BY <1>5 DEF Validate, ValidateFails, LookupName, Ask, UpstreamFails, Respond, FinishBuffered,
              FinishRelay, ClientLeaves, Cancel, vars
<1>6. ASSUME NEW k \in Keys, Revoke(k) PROVE UNCHANGED vars
  BY <1>6 DEF Revoke, vars
<1>7. ASSUME UNCHANGED chatVars PROVE UNCHANGED vars
  BY <1>7 DEF chatVars, vars
<1> QED BY <1>2, <1>3, <1>4, <1>5, <1>6, <1>7 DEF ChatNext

LEMMA ImplementsLimiter == ChatSpec => Spec
<1>1. ChatInit => Init
  BY DEF ChatInit
<1> QED BY <1>1, StepsOfLimiter, GatewayInvariant, PTL DEF ChatSpec, Spec

------------------------------------------------------------------------------

\* Whatever requests, revocations and departures there are, no address gets
\* more than MaxFailures 401 answers in a window (auth.rs, check); the rest of
\* its wrong keys, validated all the same, are answered 429.
THEOREM GatewayFailuresBounded == ChatSpec => []AtMostMaxFailures
<1> QED BY ImplementsLimiter, FailuresBounded, PTL

\* A 429 is backed by MaxFailures recent 401 answers of the whole proxy, and
\* not by other refusals (auth.rs, check).
THEOREM GatewayBlocksJustly == ChatSpec => []BlockedByFailuresOnly
<1> QED BY ImplementsLimiter, BlockedJustly, PTL

\* No request is refused with a 401 or a 429 while its key is in the table:
\* neither the address's other users nor the limiter can keep a key out.
THEOREM NoValidKeyIsRefused == ChatSpec => []ValidKeyNotRefused
<1>1. GInv => ValidKeyNotRefused
  BY DEF GInv, RequestInv, ValidKeyNotRefused
<1> QED BY <1>1, GatewayInvariant, PTL

\* Every request that got the provider's answer is recorded exactly once, and
\* none the proxy refused or failed itself (handlers.rs, record).
THEOREM AnsweredMeansRecorded == ChatSpec => []RecordedWhenAnswered
<1>1. GInv => RecordedWhenAnswered
  BY DEF GInv, RequestInv, RecordedWhenAnswered
<1> QED BY <1>1, GatewayInvariant, PTL

\* A row names the key and the advertised model of its request, and the
\* provider was asked for the model's own id, whatever else is in flight.
THEOREM RowsMatchRequests == ChatSpec => []RecordedAsRequested
<1>1. GInv => RecordedAsRequested
  <2> SUFFICES ASSUME GInv, NEW n \in DOMAIN usage
               PROVE  /\ usage[n].model = input[usage[n].req].model
                      /\ asked[usage[n].req] = Models[usage[n].model]
                      /\ usage[n].key = input[usage[n].req].key /\ usage[n].key \in Keys
    BY DEF RecordedAsRequested
  <2>1. usage[n].key \in Keys
    BY UsageFacts DEF GInv, GatewayTypes, Rows
  <2> QED BY <2>1 DEF GInv, RowInv
<1> QED BY <1>1, GatewayInvariant, PTL

\* A row carries the fallback name only when its key has been revoked or the
\* name could not be read (auth.rs, lookup_name).
THEOREM FallbackIsExplained == ChatSpec => []FallbackMeansRevoked
<1>1. GInv => FallbackMeansRevoked
  BY DEF GInv, RowInv, FallbackMeansRevoked
<1> QED BY <1>1, GatewayInvariant, PTL
==============================================================================
