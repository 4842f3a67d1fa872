------------------------------- MODULE Gateway -------------------------------
(***************************************************************************)
(* A chat request on its way through the proxy: the middleware validates   *)
(* its key and looks up the key's name in two reads of the key table       *)
(* (auth.rs), the handler routes it, asks the provider, and records it     *)
(* (handlers.rs), while keys are revoked and clients leave.  A client that *)
(* leaves has its handler dropped at the next await; the task that relays  *)
(* a streamed answer is the server's own and goes on.                      *)
(*                                                                         *)
(* The middleware's calls of the rate limiter are RateLimiter's actions;   *)
(* the chunks of a stream are Streaming's subject.                         *)
(***************************************************************************)
EXTENDS RateLimiter, Sequences

CONSTANTS
    Requests,
    Keys,           \* the keys that exist at first
    NoKey,          \* the header has no key, or one that never existed
    KeyName,        \* Keys -> display names, which keys may share
    Models,         \* advertised id -> the upstream's id
    NoModel,        \* the body is no JSON, names no model or an unknown one
    Nothing

ASSUME GatewayAssumption ==
    /\ NoKey \notin Keys /\ NoModel \notin DOMAIN Models

Input == [ip: Ips, key: Keys \cup {NoKey}, model: DOMAIN Models \cup {NoModel}, stream: BOOLEAN]

VARIABLES
    input,      \* what the clients send
    stage,      \* how far each request came
    name,       \* AuthInfo::key_name
    misread,    \* history: the name could not be read from the database
    asked,      \* the id sent to the provider
    client,     \* "here" or "gone"
    status,     \* the status sent, 0 before, Passed for the provider's own
    valid,      \* the keys in keys.db
    usage       \* the recorded rows

request == <<stage, name, misread, asked, status>>
chatVars == <<vars, input, client, valid, usage, request>>

Passed == 200

Fallback(k) == <<"key", k>>

ChatInit ==
    /\ Init
    /\ input \in [Requests -> Input]
    /\ stage = [r \in Requests |-> "new"]
    /\ name = [r \in Requests |-> Nothing]
    /\ misread = [r \in Requests |-> FALSE]
    /\ asked = [r \in Requests |-> Nothing]
    /\ client = [r \in Requests |-> "here"]
    /\ status = [r \in Requests |-> 0]
    /\ valid = Keys
    /\ usage = <<>>

------------------------------------------------------------------------------
(* The middleware.                                                         *)

To(r, s) == stage' = [stage EXCEPT ![r] = s]

Answer(r, code) == status' = [status EXCEPT ![r] = code]

\* Bug: the limiter is asked before the key.
Admits_LimitFirst(r) == input[r].key \in valid /\ ~ Blocked(input[r].ip)

\* validate
Admits(r) == input[r].key \in valid

Validate(r) ==
    /\ stage[r] = "new"
    /\ To(r, IF Admits(r) THEN "accepted" ELSE "rejected")
    /\ UNCHANGED <<vars, input, client, valid, usage, name, misread, asked, status>>

\* With the limiter's lock, for which a request waits: the address is cleared,
Accept(r) ==
    /\ stage[r] = "accepted"
    /\ Succeed(input[r].ip)
    /\ To(r, "validated")
    /\ UNCHANGED <<input, client, valid, usage, name, misread, asked, status>>

\* or the attempt checked, and refused one way or the other.
Reject(r) ==
    /\ stage[r] = "rejected"
    /\ Fail(input[r].ip)
    /\ Answer(r, answer'.code) /\ To(r, "ended")
    /\ UNCHANGED <<input, client, valid, usage, name, misread, asked>>

\* The key table cannot be read; without a key it is not asked.
ValidateFails(r) ==
    /\ stage[r] = "new"
    /\ Answer(r, 500) /\ To(r, "ended")
    /\ UNCHANGED <<vars, input, client, valid, usage, name, misread, asked>>

\* Bug: a row looked up by its name, which two keys may share.
NameOf_Shared(k) ==
    IF k \in valid /\ \A l \in valid \ {k}: KeyName[l] # KeyName[k] THEN KeyName[k] ELSE Fallback(k)

\* lookup_name, a key-<hash> when there is no row.
NameOf(k) == IF k \in valid THEN KeyName[k] ELSE Fallback(k)

\* A second read of the key table; its errors read as no row.
LookupName(r) ==
    /\ stage[r] = "validated"
    /\ \/ /\ name' = [name EXCEPT ![r] = NameOf(input[r].key)]
          /\ UNCHANGED misread
       \/ /\ name' = [name EXCEPT ![r] = Fallback(input[r].key)]
          /\ misread' = [misread EXCEPT ![r] = TRUE]
    /\ To(r, "admitted")
    /\ UNCHANGED <<vars, input, client, valid, usage, asked, status>>

------------------------------------------------------------------------------
(* The handler.                                                            *)

\* A body that cannot be routed is refused; another is sent to the provider,
\* under the id the provider knows the model by.
Ask(r) ==
    /\ stage[r] = "admitted"
    /\ IF input[r].model \in DOMAIN Models
       THEN /\ asked' = [asked EXCEPT ![r] = Models[input[r].model]]
            /\ To(r, "asking")
            /\ UNCHANGED status
       ELSE Answer(r, 400) /\ To(r, "ended") /\ UNCHANGED asked
    /\ UNCHANGED <<vars, input, client, valid, usage, name, misread>>

\* The request cannot be sent, or the answer cannot be read to its end.
UpstreamFails(r) ==
    /\ stage[r] \in {"asking", "buffering"}
    /\ Answer(r, 502) /\ To(r, "ended")
    /\ UNCHANGED <<vars, input, client, valid, usage, name, misread, asked>>

\* The provider's head of the answer is there, success or not: a streamed one
\* is passed on at once and a task takes over the body.
Respond(r) ==
    /\ stage[r] = "asking"
    /\ IF input[r].stream
       THEN Answer(r, Passed) /\ To(r, "relaying")
       ELSE To(r, "buffering") /\ UNCHANGED status
    /\ UNCHANGED <<vars, input, client, valid, usage, name, misread, asked>>

\* Bug: recorded under the id in the body, which has been rewritten by now.
Row_Upstream(r) == [req |-> r, key |-> input[r].key, name |-> name[r], model |-> asked[r]]

\* UsageTracker::record; that a count is stored whole is StorageCounters'.
Row(r) == [req |-> r, key |-> input[r].key, name |-> name[r], model |-> input[r].model]

\* Bug: only answers that can be parsed are recorded.
Record_Parsed(r) == usage' = Append(usage, Row(r)) \/ UNCHANGED usage

Record(r) == usage' = Append(usage, Row(r))

\* The whole body is there: recorded, then answered, with no await between.
\* Whatever its status, it counts as a request.
FinishBuffered(r) ==
    /\ stage[r] = "buffering"
    /\ Record(r)
    /\ Answer(r, Passed) /\ To(r, "ended")
    /\ UNCHANGED <<vars, input, client, valid, name, misread, asked>>

\* The stream is over: complete, broken off, or the client is gone.
FinishRelay(r) ==
    /\ stage[r] = "relaying"
    /\ Record(r)
    /\ To(r, "ended")
    /\ UNCHANGED <<vars, input, client, valid, name, misread, asked, status>>

------------------------------------------------------------------------------
(* Everybody else.                                                         *)

ClientLeaves(r) ==
    /\ client[r] = "here" /\ stage[r] # "ended"
    /\ client' = [client EXCEPT ![r] = "gone"]
    /\ UNCHANGED <<vars, input, valid, usage, request>>

\* Bug: the relay is part of the handler.
Handled_Relay ==
    {"new", "accepted", "rejected", "validated", "admitted", "asking", "buffering", "relaying"}

\* Where a request's future is the connection's, to be dropped with it.
Handled == {"new", "accepted", "rejected", "validated", "admitted", "asking", "buffering"}

Cancel(r) ==
    /\ client[r] = "gone" /\ stage[r] \in Handled
    /\ To(r, "ended")
    /\ UNCHANGED <<vars, input, client, valid, usage, name, misread, asked, status>>

Revoke(k) ==
    /\ k \in valid
    /\ valid' = valid \ {k}
    /\ UNCHANGED <<vars, input, client, usage, request>>

\* The middleware's part of a request that is not followed any further.
OtherRequest(ip) ==
    /\ Fail(ip) \/ (Keys # {} /\ Succeed(ip))
    /\ UNCHANGED <<input, client, valid, usage, request>>

Elapse == Tick /\ UNCHANGED <<input, client, valid, usage, request>>

ChatNext ==
    \/ \E r \in Requests:
        \/ Validate(r) \/ ValidateFails(r) \/ Accept(r) \/ Reject(r) \/ LookupName(r)
        \/ Ask(r) \/ UpstreamFails(r) \/ Respond(r) \/ FinishBuffered(r) \/ FinishRelay(r)
        \/ ClientLeaves(r) \/ Cancel(r)
    \/ \E k \in Keys: Revoke(k)
    \/ \E ip \in Ips: OtherRequest(ip)
    \/ Elapse

\* The relay of a client that left ends: the next send fails, or the provider
\* does not answer within the HTTP client's 120 seconds.  A client that stays
\* without reading may hold it up for ever.
Fairness == \A r \in Requests: WF_chatVars(client[r] = "gone" /\ FinishRelay(r))

ChatSpec == ChatInit /\ [][ChatNext]_chatVars

FairChatSpec == ChatSpec /\ Fairness

------------------------------------------------------------------------------

\* The rows of a request, by their positions.
RowsOf(r) == {n \in DOMAIN usage: usage[n].req = r}

\* A request the proxy itself refused or failed leaves no row; one that got
\* the provider's answer has exactly one, a streamed one once its relay ended,
\* whether the answer was a success and whether the client waited for it.
RecordedWhenAnswered ==
    \A r \in Requests:
        /\ status[r] \in {400, 401, 429, 500, 502} => RowsOf(r) = {}
        /\ (status[r] = Passed /\ stage[r] = "ended") => RowsOf(r) # {}
        /\ \A m, n \in RowsOf(r): m = n

\* "Usage rows are recorded under the namespaced id": a row carries the id the
\* client asked for while the provider was asked for its own, and the key the
\* request came with, which was a real one.
RecordedAsRequested ==
    \A n \in DOMAIN usage:
        LET r == usage[n].req
        IN  /\ usage[n].model = input[r].model
            /\ asked[r] = Models[usage[n].model]
            /\ usage[n].key = input[r].key /\ usage[n].key \in Keys

\* A key's rows carry its name.  The fallback name stands in only when the key
\* was revoked between the middleware's two reads, or the second one failed.
FallbackMeansRevoked ==
    \A n \in DOMAIN usage:
        LET row == usage[n]
        IN  row.name # KeyName[row.key] => row.key \notin valid \/ misread[row.req]

\* "Reset on success": whoever else fails from its address, a request with a
\* key that is still valid was not refused for its key or for the address.
ValidKeyNotRefused ==
    \A r \in Requests: status[r] \in {401, 429} => input[r].key \notin valid

\* A client that leaves in the middle of a stream has used the provider all
\* the same: its request is recorded in the end.
LeftStreamRecorded ==
    \A r \in Requests:
        (stage[r] = "relaying" /\ client[r] = "gone") ~> RowsOf(r) # {}
=============================================================================
