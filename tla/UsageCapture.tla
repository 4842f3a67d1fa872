---------------------------- MODULE UsageCapture ----------------------------
(***************************************************************************)
(* The accounting copy of a streamed answer (handlers.rs, UsageCapture):   *)
(* chunks that begin and end anywhere are appended to a buffer of which    *)
(* only a tail is kept, and when the stream is over the token counts are   *)
(* read from the lines the tail holds.                                     *)
(*                                                                         *)
(* A byte is its position in the stream.  A line is its last byte, the     *)
(* newline, and what can be read from it; the counts a line reports are    *)
(* named by the number of the line.                                        *)
(***************************************************************************)
EXTENDS Integers, Sequences, FiniteSetsExt

CONSTANTS
    Streams,        \* the streams an upstream may send
    CaptureMax      \* USAGE_CAPTURE_MAX, 64 KiB in the code

\* "prompt", "completion" and "both" are events with these counts, "other" is
\* any text that reports none, "binary" is not UTF-8.
Kinds == {"prompt", "completion", "both", "other", "binary"}

\* How many bytes come before line i.
Before(s, i) == IF i = 1 THEN 0 ELSE s[i - 1].end

\* A line that is its newline only.
Blank(s, i) == s[i].end = Before(s, i) + 1

IsStream(s) ==
    /\ s \in Seq([end: Nat \ {0}, kind: Kinds])
    /\ \A i \in 1 .. Len(s) - 1: s[i].end < s[i + 1].end
    /\ \A i \in 1 .. Len(s): s[i].kind # "other" => ~ Blank(s, i)

ASSUME CaptureAssumption ==
    /\ CaptureMax \in Nat \ {0}
    /\ \A s \in Streams: IsStream(s) /\ s # <<>>

VARIABLES
    stream,     \* what the upstream sends
    sent,       \* how much of it has been pushed: the bytes 1 .. sent
    pending,    \* the bytes held
    counted     \* the counts recorded, Unknown until finish

captureVars == <<stream, sent, pending, counted>>

Unknown == [prompt |-> -1, completion |-> -1]

CaptureInit ==
    /\ stream \in Streams
    /\ sent = 0
    /\ pending = <<>>
    /\ counted = Unknown

------------------------------------------------------------------------------

Size == stream[Len(stream)].end

Newline(b) == \E i \in DOMAIN stream: stream[i].end = b

Drop(bytes, n) == SubSeq(bytes, n + 1, Len(bytes))

\* Bug: the last line boundary in the window instead of the first.
Trim_LastLine(bytes) ==
    LET cut  == Len(bytes) - CaptureMax
        ends == {i \in cut + 1 .. Len(bytes): Newline(bytes[i])}
    IN  Drop(bytes, IF ends = {} THEN cut ELSE Max(ends))

\* Bug: the line the window begins in is kept whole.
Trim_RoundsDown(bytes) ==
    LET cut  == Len(bytes) - CaptureMax
        ends == {i \in 1 .. cut: Newline(bytes[i])}
    IN  Drop(bytes, IF ends = {} THEN 0 ELSE Max(ends))

\* Keeps what follows the first newline in the last CaptureMax bytes, or all
\* of them when they are part of one line.
Trim(bytes) ==
    LET cut  == Len(bytes) - CaptureMax
        ends == {i \in cut + 1 .. Len(bytes): Newline(bytes[i])}
    IN  Drop(bytes, IF ends = {} THEN cut ELSE Min(ends))

\* Bug: a chunk that ends inside a line cannot be decoded and is dropped.
Push_Decodes(n) ==
    /\ counted = Unknown
    /\ sent + n <= Size
    /\ sent' = sent + n
    /\ LET bytes == IF Newline(sent + n) THEN pending \o [i \in 1 .. n |-> sent + i] ELSE pending
       IN  pending' = IF Len(bytes) > CaptureMax THEN Trim(bytes) ELSE bytes
    /\ UNCHANGED <<stream, counted>>

\* A chunk is what one read of the socket returned.
Push(n) ==
    /\ counted = Unknown
    /\ sent + n <= Size
    /\ sent' = sent + n
    /\ LET bytes == pending \o [i \in 1 .. n |-> sent + i]
       IN  pending' = IF Len(bytes) > CaptureMax THEN Trim(bytes) ELSE bytes
    /\ UNCHANGED <<stream, counted>>

\* A line can be read when all of it but the newline is there.  What is left
\* of a line whose beginning was cut off is no data: line, and what is there
\* of an unfinished event is no JSON.
Whole(bytes, i) ==
    \A b \in Before(stream, i) + 1 .. stream[i].end - 1: \E k \in DOMAIN bytes: bytes[k] = b

\* The lines from which a field can be read.
Reporting(bytes, field) ==
    {i \in DOMAIN stream: Whole(bytes, i) /\ stream[i].kind \in {field, "both"}}

\* sse_usage_tokens: for each count the last line that reports it, 0 without.
Tokens(bytes) ==
    [prompt     |-> Max(Reporting(bytes, "prompt") \cup {0}),
     completion |-> Max(Reporting(bytes, "completion") \cup {0})]

\* The stream is over: at its end, or broken off anywhere.
Finish ==
    /\ counted = Unknown
    /\ counted' = Tokens(pending)
    /\ UNCHANGED <<stream, sent, pending>>

CaptureNext == (\E n \in 1 .. Size: Push(n)) \/ Finish

CaptureSpec == CaptureInit /\ [][CaptureNext]_captureVars

------------------------------------------------------------------------------

\* What is held is the end of what was pushed, without a gap or a byte twice.
TailHeld == \A i \in DOMAIN pending: pending[i] = sent - Len(pending) + i

\* "only the tail is kept": whatever is streamed, and however it is cut into
\* chunks, a request holds no more than CaptureMax bytes between two chunks.
MemoryBounded == Len(pending) <= CaptureMax

\* The last event with this count that was sent to its end, 0 without one.
LastReport(field) ==
    Max({i \in DOMAIN stream: stream[i].kind \in {field, "both"} /\ stream[i].end - 1 <= sent}
        \cup {0})

\* A line is recent when it and all that followed fit into less than CaptureMax
\* bytes.  At exactly CaptureMax it need not be kept: the boundary sought is
\* one inside the window, and that line's own is just before it.
Recent(i) == sent - Before(stream, i) < CaptureMax

\* "Upstream sends usage in the final event, so a window this size always
\* contains it": a count whose last report is recent is the one recorded, for
\* every way the stream was cut into chunks and trimmed in between.
FinalUsageCounted ==
    counted # Unknown =>
        \A field \in DOMAIN counted:
            LET last == LastReport(field)
            IN  (last # 0 /\ Recent(last)) => counted[field] = last
=============================================================================
