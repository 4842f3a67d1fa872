------------------------------ MODULE Streaming ------------------------------
(***************************************************************************)
(* A streamed chat completion (handlers.rs): a task reads the upstream's   *)
(* chunks, copies each into the accounting window (UsageCapture) and sends *)
(* it through a bounded channel to the response body the client reads;     *)
(* when the stream is over, whatever ended it, the task records the        *)
(* request, and only then drops its end of the channel.                    *)
(***************************************************************************)
EXTENDS UsageCapture

CONSTANT Capacity   \* of the channel, 16 in the code

ASSUME StreamAssumption == Capacity \in Nat \ {0}

VARIABLES
    task,       \* the task: "reading", "sending", "failing", "ended", "done"
    chunk,      \* the chunk the task has in hand, a sequence of bytes
    channel,    \* what is in the channel: chunks, or Error
    client,     \* the client: "reading", "finished", "broken" or "gone"
    received,   \* the bytes the client received, in order
    records     \* the rows recorded for this request

vars == <<captureVars, task, chunk, channel, client, received, records>>

\* An error in the channel; no chunk is empty.
Error == <<>>

Init ==
    /\ CaptureInit
    /\ task = "reading" /\ chunk = <<>>
    /\ channel = <<>>
    /\ client = "reading" /\ received = <<>>
    /\ records = 0

Listening == client = "reading"

------------------------------------------------------------------------------
(* The task.                                                               *)

\* capture.push, before the chunk is sent.
ReadChunk ==
    /\ task = "reading"
    /\ \E n \in 1 .. Size:
        /\ Push(n)
        /\ chunk' = [i \in 1 .. n |-> sent + i]
    /\ task' = "sending"
    /\ UNCHANGED <<channel, client, received, records>>

\* The upstream fails, or the 120 s timeout of the client strikes.
ReadError ==
    /\ task = "reading"
    /\ task' = "failing"
    /\ UNCHANGED <<captureVars, chunk, channel, client, received, records>>

\* The upstream ends the stream: after its last line, whose newline it may
\* leave out.
ReadEnd ==
    /\ task = "reading"
    /\ sent \in {Size - 1, Size}
    /\ task' = "ended"
    /\ UNCHANGED <<captureVars, chunk, channel, client, received, records>>

\* Bug: an unbounded channel.
Send_Unbounded ==
    /\ task = "sending"
    /\ Listening
    /\ channel' = Append(channel, chunk)
    /\ chunk' = <<>>
    /\ task' = "reading"
    /\ UNCHANGED <<captureVars, client, received, records>>

\* tx.send: waits while the channel is full.
Send ==
    /\ task = "sending"
    /\ Listening /\ Len(channel) < Capacity
    /\ channel' = Append(channel, chunk)
    /\ chunk' = <<>>
    /\ task' = "reading"
    /\ UNCHANGED <<captureVars, client, received, records>>

\* The send fails: the client is gone, and the loop is left.
SendToNobody ==
    /\ task = "sending"
    /\ ~ Listening
    /\ chunk' = <<>>
    /\ task' = "ended"
    /\ UNCHANGED <<captureVars, channel, client, received, records>>

\* Bug: the error logged but not passed on: the body ends as if complete.
SendError_Silent ==
    /\ task = "failing"
    /\ task' = "ended"
    /\ UNCHANGED <<captureVars, chunk, channel, client, received, records>>

\* The error is passed on, if there is still a client; the loop is left.
SendError ==
    /\ task = "failing"
    /\ IF Listening
       THEN Len(channel) < Capacity /\ channel' = Append(channel, Error)
       ELSE UNCHANGED channel
    /\ task' = "ended"
    /\ UNCHANGED <<captureVars, chunk, client, received, records>>

\* Bug: the sender dropped before the request is recorded.
EndsBody_Early == task \in {"ended", "done"}

\* The receiver sees the end once the task, and with it the sender, is gone.
EndsBody == task = "done"

\* Bug: a request whose client left is not recorded.
Counts_ListenersOnly == Listening

\* An authenticated request is recorded, however its stream ended.
Counts == TRUE

\* capture.finish and tracker.record.
Record ==
    /\ task = "ended"
    /\ Finish
    /\ records' = IF Counts THEN records + 1 ELSE records
    /\ task' = "done"
    /\ UNCHANGED <<chunk, channel, client, received>>

------------------------------------------------------------------------------
(* The client.                                                             *)

ClientReads ==
    /\ Listening /\ channel # <<>>
    /\ channel' = Tail(channel)
    /\ IF Head(channel) = Error
       THEN client' = "broken" /\ UNCHANGED received
       ELSE received' = received \o Head(channel) /\ UNCHANGED client
    /\ UNCHANGED <<captureVars, task, chunk, records>>

ClientFinishes ==
    /\ Listening /\ channel = <<>> /\ EndsBody
    /\ client' = "finished"
    /\ UNCHANGED <<captureVars, task, chunk, channel, received, records>>

\* The connection is closed and the receiver dropped with what it held.
ClientLeaves ==
    /\ Listening
    /\ client' = "gone"
    /\ channel' = <<>>
    /\ UNCHANGED <<captureVars, task, chunk, received, records>>

TaskNext ==
    ReadChunk \/ ReadError \/ ReadEnd \/ Send \/ SendToNobody \/ SendError \/ Record

ClientNext == ClientReads \/ ClientFinishes \/ ClientLeaves

Next == TaskNext \/ ClientNext

\* The runtime polls the task, and the upstream answers, ends or times out.
\* A client that neither reads nor leaves is waited for without a limit: that
\* it does one or the other is an assumption on clients, not on the code.
Spec == Init /\ [][Next]_vars /\ WF_vars(TaskNext) /\ WF_vars(ClientNext)

------------------------------------------------------------------------------

\* Types, and the channel's bound: a slow client holds the upstream back.
TypeOK ==
    /\ task \in {"reading", "sending", "failing", "ended", "done"}
    /\ sent \in 0 .. Size
    /\ Len(channel) <= Capacity
    /\ client \in {"reading", "finished", "broken", "gone"}
    /\ records \in {0, 1} /\ (records = 1 => counted # Unknown)

\* The body is byte-transparent: whatever the client has is a prefix of what
\* the upstream sent, and a body that ended without an error is all of it, to
\* the last line, which the upstream may have ended without a newline.
ByteTransparent ==
    /\ \A n \in DOMAIN received: received[n] = n
    /\ client = "finished" => Len(received) = sent /\ sent \in {Size - 1, Size}

\* A client that has seen the end of the body is already accounted for, with
\* the counts of the whole body: the dashboard never lags behind an answer.
FinishedIsRecorded ==
    client = "finished" =>
        /\ records = 1
        /\ \A field \in DOMAIN counted:
               LET last == Max({i \in DOMAIN stream: stream[i].kind \in {field, "both"}} \cup {0})
               IN  (last # 0 /\ Recent(last)) => counted[field] = last

\* Every stream is recorded, exactly once: also one the upstream broke off or
\* the client left.
RecordedOnce == <>[](records = 1)
=============================================================================
