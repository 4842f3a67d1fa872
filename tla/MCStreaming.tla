----------------------------- MODULE MCStreaming -----------------------------
(* Model values of Streaming and UsageCapture for TLC.                     *)
EXTENDS Streaming

CONSTANTS MaxLines, MaxSize, LineKinds

\* Every stream of up to MaxLines lines and MaxSize bytes.
AllStreams ==
    UNION {{s \in [1 .. n -> [end: 1 .. MaxSize, kind: LineKinds]]:
               /\ \A i \in 1 .. n - 1: s[i].end < s[i + 1].end
               /\ \A i \in 1 .. n: s[i].kind # "other" => ~ Blank(s, i)}: n \in 1 .. MaxLines}
=============================================================================
