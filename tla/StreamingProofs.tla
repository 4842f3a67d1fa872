--------------------------- MODULE StreamingProofs ---------------------------
(***************************************************************************)
(* Proofs about UsageCapture and Streaming, for every stream, cap and      *)
(* capacity: what the accounting window holds and what finish reads in it, *)
(* that the window of the running task is that one, that the client's      *)
(* bytes are the upstream's, and that who has seen the end is recorded.    *)
(***************************************************************************)
EXTENDS Streaming, InductionLemmas, SequenceTheorems

------------------------------------------------------------------------------
(* The stream.                                                             *)

LEMMA StreamFacts ==
    ASSUME stream \in Streams
    PROVE  /\ Len(stream) \in Nat \ {0} /\ DOMAIN stream = 1 .. Len(stream)
           /\ Size \in Nat
           /\ \A i \in DOMAIN stream:
                /\ stream[i].end \in Nat \ {0} /\ stream[i].kind \in Kinds
                /\ Before(stream, i) \in Nat
                /\ Before(stream, i) < stream[i].end
                /\ i # 1 => Newline(Before(stream, i))
                /\ stream[i].kind # "other" => Before(stream, i) + 1 < stream[i].end
<1>1. /\ stream \in Seq([end: Nat \ {0}, kind: Kinds]) /\ stream # <<>>
      /\ \A i \in 1 .. Len(stream) - 1: stream[i].end < stream[i + 1].end
      /\ \A i \in 1 .. Len(stream): stream[i].kind # "other" => ~ Blank(stream, i)
  BY CaptureAssumption DEF IsStream
<1>2. Len(stream) \in Nat \ {0} /\ DOMAIN stream = 1 .. Len(stream)
  BY <1>1, EmptySeq, LenProperties
<1>3. \A i \in DOMAIN stream: stream[i].end \in Nat \ {0} /\ stream[i].kind \in Kinds
  <2>1. \A i \in DOMAIN stream: stream[i] \in [end: Nat \ {0}, kind: Kinds]
    BY <1>1, <1>2, ElementOfSeq
  <2> QED BY <2>1
<1>4. Size \in Nat
  BY <1>2, <1>3 DEF Size
<1>5. ASSUME NEW i \in DOMAIN stream
      PROVE  /\ Before(stream, i) \in Nat
             /\ Before(stream, i) < stream[i].end
             /\ i # 1 => Newline(Before(stream, i))
  <2>1. CASE i = 1
    BY <1>3, <2>1 DEF Before
  <2>2. CASE i # 1
    <3>1. i - 1 \in DOMAIN stream /\ i - 1 \in 1 .. Len(stream) - 1 /\ (i - 1) + 1 = i
      BY <1>2, <2>2
    <3>2. Before(stream, i) = stream[i - 1].end
      BY <2>2 DEF Before
    <3> QED BY <1>1, <1>3, <3>1, <3>2 DEF Newline
  <2> QED BY <2>1, <2>2
<1>6. ASSUME NEW i \in DOMAIN stream, stream[i].kind # "other"
      PROVE  Before(stream, i) + 1 < stream[i].end
  <2>1. stream[i].end # Before(stream, i) + 1
    BY <1>1, <1>2, <1>6 DEF Blank
  <2> QED BY <1>3, <1>5, <2>1
<1> QED BY <1>2, <1>3, <1>4, <1>5, <1>6

------------------------------------------------------------------------------
(* The window.                                                             *)

\* These bytes are the ones before and up to `at`, without a gap.
EndsAt(bytes, at) ==
    /\ bytes \in Seq(Nat) /\ Len(bytes) <= at
    /\ \A i \in 1 .. Len(bytes): bytes[i] = at - Len(bytes) + i

\* A line that begins within the last CaptureMax bytes, not counting its
\* own first boundary, begins within the n bytes that are held.
LinesKept(at, n) ==
    \A i \in DOMAIN stream:
        at - Before(stream, i) < CaptureMax /\ Before(stream, i) <= at
            => Before(stream, i) >= at - n

LEMMA DropFacts ==
    ASSUME NEW bytes \in Seq(Nat), NEW n \in 0 .. Len(bytes)
    PROVE  /\ Drop(bytes, n) \in Seq(Nat)
           /\ Len(Drop(bytes, n)) = Len(bytes) - n
           /\ \A i \in 1 .. Len(bytes) - n: Drop(bytes, n)[i] = bytes[n + i]
<1>1. Len(bytes) \in Nat /\ n + 1 \in Int
  BY LenProperties
<1>2. \A i \in n + 1 .. Len(bytes): bytes[i] \in Nat
  BY <1>1, ElementOfSeq
<1>3. /\ SubSeq(bytes, n + 1, Len(bytes)) \in Seq(Nat)
      /\ Len(SubSeq(bytes, n + 1, Len(bytes)))
            = IF n + 1 <= Len(bytes) THEN Len(bytes) - (n + 1) + 1 ELSE 0
      /\ \A i \in 1 .. Len(bytes) - (n + 1) + 1:
            SubSeq(bytes, n + 1, Len(bytes))[i] = bytes[(n + 1) + i - 1]
  BY <1>1, <1>2, SubSeqProperties
<1>4. \A i \in 1 .. Len(bytes) - n:
          i \in 1 .. Len(bytes) - (n + 1) + 1 /\ (n + 1) + i - 1 = n + i
  BY <1>1
<1>5. (IF n + 1 <= Len(bytes) THEN Len(bytes) - (n + 1) + 1 ELSE 0) = Len(bytes) - n
  BY <1>1
<1> QED BY <1>3, <1>4, <1>5 DEF Drop

LEMMA DropEndsAt ==
    ASSUME NEW at \in Nat, NEW bytes, EndsAt(bytes, at), NEW n \in 0 .. Len(bytes)
    PROVE  EndsAt(Drop(bytes, n), at) /\ Len(Drop(bytes, n)) = Len(bytes) - n
<1>1. /\ bytes \in Seq(Nat) /\ Len(bytes) <= at
      /\ \A i \in 1 .. Len(bytes): bytes[i] = at - Len(bytes) + i
  BY DEF EndsAt
<1>2. Len(bytes) \in Nat
  BY <1>1, LenProperties
<1>3. /\ Drop(bytes, n) \in Seq(Nat)
      /\ Len(Drop(bytes, n)) = Len(bytes) - n
      /\ \A i \in 1 .. Len(bytes) - n: Drop(bytes, n)[i] = bytes[n + i]
  BY <1>1, DropFacts
<1>4. ASSUME NEW i \in 1 .. Len(bytes) - n
      PROVE  Drop(bytes, n)[i] = at - (Len(bytes) - n) + i
  <2>1. n + i \in 1 .. Len(bytes)
    BY <1>2
  <2>2. bytes[n + i] = at - Len(bytes) + (n + i)
    BY <1>1, <2>1
  <2> QED BY <1>2, <1>3, <2>2
<1>5. Len(Drop(bytes, n)) <= at
  BY <1>1, <1>2, <1>3
<1> QED BY <1>3, <1>4, <1>5 DEF EndsAt

\* Trimming bounds what is held and cuts no recent line.
LEMMA TrimFacts ==
    ASSUME stream \in Streams,
           NEW at \in Nat, NEW bytes, EndsAt(bytes, at), Len(bytes) > CaptureMax
    PROVE  /\ EndsAt(Trim(bytes), at)
           /\ Len(Trim(bytes)) <= CaptureMax
           /\ LinesKept(at, Len(Trim(bytes)))
<1> DEFINE len == Len(bytes)
           cut == len - CaptureMax
           ends == {i \in cut + 1 .. len: Newline(bytes[i])}
           n == IF ends = {} THEN cut ELSE Min(ends)
<1>1. /\ len \in Nat /\ len <= at /\ CaptureMax \in Nat \ {0} /\ len > CaptureMax
      /\ \A i \in 1 .. len: bytes[i] = at - len + i
  BY CaptureAssumption, LenProperties DEF EndsAt
<1>2. Trim(bytes) = Drop(bytes, n)
  BY DEF Trim
<1>3. ends \subseteq Nat /\ ends \subseteq cut + 1 .. len /\ cut \in 0 .. len
  BY <1>1
<1>4. ends # {} => Min(ends) \in ends /\ \A k \in ends: Min(ends) <= k
  BY <1>3, LeastNumber
<1>5. n \in 0 .. len /\ len - n <= CaptureMax
  <2>1. CASE ends = {}
    BY <1>1, <1>3, <2>1
  <2>2. CASE ends # {}
    <3>1. Min(ends) \in cut + 1 .. len
      BY <1>3, <1>4, <2>2
    <3> HIDE DEF ends
    <3> QED BY <1>1, <2>2, <3>1
  <2> QED BY <2>1, <2>2
<1>6. ASSUME NEW i \in DOMAIN stream,
             at - Before(stream, i) < CaptureMax, Before(stream, i) <= at
      PROVE  Before(stream, i) >= at - (len - n)
  <2> DEFINE b == Before(stream, i)
             k == b - (at - len)
  <2>1. b \in Nat /\ (i # 1 => Newline(b)) /\ (i = 1 => b = 0)
    BY StreamFacts DEF Before
  <2>2. i # 1
    BY <1>1, <1>6, <2>1
  <2>3. k \in cut + 1 .. len /\ k \in 1 .. len /\ at - len + k = b
    BY <1>1, <1>6, <2>1
  <2>4. bytes[k] = b
    BY <1>1, <2>3
  <2>5. k \in ends
    BY <2>1, <2>2, <2>3, <2>4
  <2>6. n = Min(ends) /\ n <= k /\ n \in Nat
    BY <1>3, <1>4, <2>5
  <2> HIDE DEF n, ends
  <2> QED BY <1>1, <2>1, <2>3, <2>6
<1>7. EndsAt(Drop(bytes, n), at) /\ Len(Drop(bytes, n)) = len - n
  <2> HIDE DEF n
  <2> QED BY <1>5, DropEndsAt
<1> HIDE DEF n, len
<1> QED BY <1>2, <1>5, <1>6, <1>7 DEF LinesKept

LEMMA AppendEndsAt ==
    ASSUME NEW at \in Nat, NEW bytes, EndsAt(bytes, at), NEW n \in Nat \ {0}
    PROVE  /\ EndsAt(bytes \o [i \in 1 .. n |-> at + i], at + n)
           /\ Len(bytes \o [i \in 1 .. n |-> at + i]) = Len(bytes) + n
<1> DEFINE passed == [i \in 1 .. n |-> at + i]
<1>1. /\ bytes \in Seq(Nat) /\ Len(bytes) \in Nat /\ Len(bytes) <= at
      /\ \A i \in 1 .. Len(bytes): bytes[i] = at - Len(bytes) + i
  BY LenProperties DEF EndsAt
<1>2. passed \in Seq(Nat) /\ Len(passed) = n /\ \A i \in 1 .. n: passed[i] = at + i
  <2>1. \A i \in 1 .. n: at + i \in Nat
    OBVIOUS
  <2>2. passed \in Seq(Nat)
    BY <2>1, IsASeq
  <2>3. DOMAIN passed = 1 .. n
    OBVIOUS
  <2>4. Len(passed) = n
    BY <2>2, <2>3, LenProperties
  <2> QED BY <2>2, <2>4
<1> HIDE DEF passed
<1>3. /\ bytes \o passed \in Seq(Nat)
      /\ Len(bytes \o passed) = Len(bytes) + Len(passed)
      /\ \A i \in 1 .. Len(bytes) + Len(passed):
            (bytes \o passed)[i] = IF i <= Len(bytes) THEN bytes[i] ELSE passed[i - Len(bytes)]
  BY <1>1, <1>2, ConcatProperties
<1>4. ASSUME NEW i \in 1 .. Len(bytes) + n
      PROVE  (bytes \o passed)[i] = (at + n) - (Len(bytes) + n) + i
  <2>1. CASE i <= Len(bytes)
    BY <1>1, <1>2, <1>3, <2>1
  <2>2. CASE i > Len(bytes)
    <3>1. i - Len(bytes) \in 1 .. n
      BY <1>1, <2>2
    <3>2. (bytes \o passed)[i] = passed[i - Len(bytes)]
      BY <1>1, <1>2, <1>3, <2>2
    <3>3. passed[i - Len(bytes)] = at + (i - Len(bytes))
      BY <1>2, <3>1
    <3> QED BY <1>1, <3>2, <3>3
  <2>3. i <= Len(bytes) \/ i > Len(bytes)
    BY <1>1
  <2> QED BY <2>1, <2>2, <2>3
<1>5. Len(bytes) + n <= at + n
  BY <1>1
<1>6. EndsAt(bytes \o passed, at + n) /\ Len(bytes \o passed) = Len(bytes) + n
  BY <1>2, <1>3, <1>4, <1>5 DEF EndsAt
<1> QED BY <1>6 DEF passed

------------------------------------------------------------------------------
(* What finish reads.                                                      *)

LEMMA LastReportFacts ==
    ASSUME stream \in Streams, NEW field
    PROVE  LET whole == {i \in DOMAIN stream: stream[i].kind \in {field, "both"}
                                                /\ stream[i].end - 1 <= sent}
           IN  /\ LastReport(field) \in whole \cup {0}
               /\ \A i \in whole: i <= LastReport(field)
               /\ LastReport(field) \in Nat
<1> DEFINE whole == {i \in DOMAIN stream: stream[i].kind \in {field, "both"}
                                            /\ stream[i].end - 1 <= sent}
<1>1. Len(stream) \in Nat /\ whole \cup {0} \subseteq 0 .. Len(stream) /\ whole \cup {0} # {}
  BY StreamFacts
<1>2. LastReport(field) = Max(whole \cup {0})
  BY DEF LastReport
<1> HIDE DEF whole
<1>3. /\ Max(whole \cup {0}) \in whole \cup {0}
      /\ \A i \in whole \cup {0}: i <= Max(whole \cup {0})
  BY <1>1, GreatestNumber
<1>4. LastReport(field) \in 0 .. Len(stream)
  BY <1>1, <1>2, <1>3
<1>5. LastReport(field) \in whole \cup {0} /\ \A i \in whole: i <= LastReport(field)
  BY <1>2, <1>3
<1>6. LastReport(field) \in Nat
  BY <1>1, <1>4
<1> QED BY <1>5, <1>6 DEF whole

\* A line with counts that can be read was sent to its end.
LEMMA ReportingWasSent ==
    ASSUME stream \in Streams, sent \in Nat, EndsAt(pending, sent),
           NEW field \in {"prompt", "completion"}, NEW i \in Reporting(pending, field)
    PROVE  /\ i \in DOMAIN stream /\ stream[i].kind \in {field, "both"}
           /\ stream[i].end - 1 <= sent
<1>1. i \in DOMAIN stream /\ Whole(pending, i) /\ stream[i].kind \in {field, "both"}
  BY DEF Reporting
<1>2. /\ stream[i].end \in Nat /\ Before(stream, i) \in Nat
      /\ Before(stream, i) + 1 < stream[i].end
  <2>1. stream[i].kind # "other"
    BY <1>1
  <2> QED BY <1>1, <2>1, StreamFacts
<1>3. stream[i].end - 1 \in Before(stream, i) + 1 .. stream[i].end - 1
  BY <1>2
<1>4. PICK k \in DOMAIN pending: pending[k] = stream[i].end - 1
  BY <1>1, <1>3 DEF Whole
<1>5. /\ pending \in Seq(Nat) /\ Len(pending) \in Nat /\ DOMAIN pending = 1 .. Len(pending)
      /\ \A j \in 1 .. Len(pending): pending[j] = sent - Len(pending) + j
  BY LenProperties DEF EndsAt
<1>6. k \in 1 .. Len(pending) /\ pending[k] = sent - Len(pending) + k
  BY <1>4, <1>5
<1>7. pending[k] <= sent
  BY <1>5, <1>6
<1> QED BY <1>1, <1>4, <1>7

\* A recent line that was sent to its end is there.
LEMMA RecentIsWhole ==
    ASSUME stream \in Streams, sent \in Nat, EndsAt(pending, sent),
           LinesKept(sent, Len(pending)),
           NEW i \in DOMAIN stream, stream[i].end - 1 <= sent, Recent(i)
    PROVE  Whole(pending, i)
<1>1. /\ stream[i].end \in Nat /\ Before(stream, i) \in Nat
      /\ Before(stream, i) < stream[i].end
  BY StreamFacts
<1>2. sent - Before(stream, i) < CaptureMax /\ Before(stream, i) <= sent
  BY <1>1 DEF Recent
<1>3. Before(stream, i) >= sent - Len(pending)
  BY <1>2 DEF LinesKept
<1>4. /\ Len(pending) \in Nat /\ DOMAIN pending = 1 .. Len(pending)
      /\ \A j \in 1 .. Len(pending): pending[j] = sent - Len(pending) + j
  BY LenProperties DEF EndsAt
<1>5. ASSUME NEW b \in Before(stream, i) + 1 .. stream[i].end - 1
      PROVE  \E k \in DOMAIN pending: pending[k] = b
  <2>1. b - (sent - Len(pending)) \in 1 .. Len(pending)
    BY <1>1, <1>3, <1>4
  <2>2. sent - Len(pending) + (b - (sent - Len(pending))) = b
    BY <1>1, <1>4
  <2> QED BY <1>4, <2>1, <2>2
<1> QED BY <1>5 DEF Whole

LEMMA FinishCounts ==
    ASSUME stream \in Streams, sent \in Nat, EndsAt(pending, sent),
           LinesKept(sent, Len(pending)),
           NEW field \in {"prompt", "completion"},
           LastReport(field) # 0, Recent(LastReport(field))
    PROVE  Max(Reporting(pending, field) \cup {0}) = LastReport(field)
<1> DEFINE last == LastReport(field)
           read == Reporting(pending, field) \cup {0}
<1>1. /\ last \in DOMAIN stream /\ stream[last].kind \in {field, "both"}
      /\ stream[last].end - 1 <= sent /\ last \in Nat
      /\ \A i \in DOMAIN stream: stream[i].kind \in {field, "both"} /\ stream[i].end - 1 <= sent
            => i <= last
  BY LastReportFacts
<1>2. last \in read
  BY <1>1, RecentIsWhole DEF Reporting
<1>3. \A i \in read: i <= last
  BY <1>1, ReportingWasSent
<1>4. Len(stream) \in Nat /\ read \subseteq 0 .. Len(stream)
  BY StreamFacts DEF Reporting
<1> HIDE DEF last, read
<1>5. Max(read) \in read /\ \A i \in read: i <= Max(read)
  BY <1>2, <1>4, GreatestNumber
<1>6. Max(read) <= last /\ last <= Max(read)
  BY <1>2, <1>3, <1>5
<1>7. Max(read) \in Nat /\ last \in Nat
  <2>1. Max(read) \in 0 .. Len(stream)
    BY <1>4, <1>5
  <2> QED BY <1>1, <1>4, <2>1
<1>8. Max(read) = last
  BY <1>6, <1>7
<1> QED BY <1>8 DEF last, read

------------------------------------------------------------------------------
(* The invariant: what is held is the end of what was sent, is bounded, and *)
(* holds every recent line from its first byte.                            *)

CInv ==
    /\ stream \in Streams
    /\ sent \in Nat
    /\ EndsAt(pending, sent)
    /\ MemoryBounded
    /\ LinesKept(sent, Len(pending))
    /\ FinalUsageCounted

LEMMA CaptureInitInv == CaptureInit => CInv
<1> SUFFICES ASSUME CaptureInit PROVE CInv
  OBVIOUS
<1>1. stream \in Streams /\ sent = 0 /\ pending = <<>> /\ counted = Unknown
  BY DEF CaptureInit
<1>2. EndsAt(<<>>, 0) /\ Len(<<>>) = 0
  <2>1. <<>> \in Seq(Nat) /\ Len(<<>>) = 0
    BY EmptySeq
  <2> QED BY <2>1 DEF EndsAt
<1>3. LinesKept(0, 0)
  <2>1. \A i \in DOMAIN stream: Before(stream, i) \in Nat
    BY <1>1, StreamFacts
  <2> QED BY <2>1 DEF LinesKept
<1>4. MemoryBounded
  BY <1>1, <1>2, CaptureAssumption DEF MemoryBounded
<1> QED BY <1>1, <1>2, <1>3, <1>4 DEF CInv, FinalUsageCounted

LEMMA PushInv ==
    ASSUME CInv, NEW n \in 1 .. Size, Push(n)
    PROVE  CInv'
<1> DEFINE bytes == pending \o [i \in 1 .. n |-> sent + i]
<1>1. /\ stream \in Streams /\ sent \in Nat /\ Size \in Nat /\ n \in Nat \ {0}
      /\ Len(pending) \in Nat /\ Len(pending) <= CaptureMax /\ CaptureMax \in Nat
  BY StreamFacts, LenProperties, CaptureAssumption DEF CInv, EndsAt, MemoryBounded
<1>2. EndsAt(bytes, sent + n) /\ Len(bytes) = Len(pending) + n
  BY <1>1, AppendEndsAt DEF CInv
<1>3. /\ sent' = sent + n /\ stream' = stream /\ counted = Unknown /\ counted' = counted
      /\ pending' = IF Len(bytes) > CaptureMax THEN Trim(bytes) ELSE bytes
  BY DEF Push
<1> HIDE DEF bytes
<1>4. /\ EndsAt(pending', sent + n)
      /\ Len(pending') <= CaptureMax
      /\ LinesKept(sent + n, Len(pending'))
  <2>1. CASE Len(bytes) > CaptureMax
    <3>1. pending' = Trim(bytes) /\ sent + n \in Nat
      BY <1>1, <1>3, <2>1
    <3> QED BY <1>1, <1>2, <2>1, <3>1, TrimFacts
  <2>2. CASE ~ (Len(bytes) > CaptureMax)
    <3>1. pending' = bytes /\ Len(bytes) <= CaptureMax
      BY <1>1, <1>2, <1>3, <2>2
    <3>2. ASSUME NEW i \in DOMAIN stream,
                 (sent + n) - Before(stream, i) < CaptureMax, Before(stream, i) <= sent + n
          PROVE  Before(stream, i) >= (sent + n) - (Len(pending) + n)
      <4>1. Before(stream, i) \in Nat
        BY <1>1, StreamFacts
      <4>2. CASE Before(stream, i) <= sent
        <5>1. sent - Before(stream, i) < CaptureMax
          BY <1>1, <3>2, <4>1
        <5>2. Before(stream, i) >= sent - Len(pending)
          BY <4>2, <5>1 DEF CInv, LinesKept
        <5> QED BY <1>1, <4>1, <5>2
      <4>3. CASE Before(stream, i) > sent
        BY <1>1, <4>1, <4>3
      <4> QED BY <1>1, <4>1, <4>2, <4>3
    <3>3. LinesKept(sent + n, Len(bytes))
      BY <1>2, <3>2 DEF LinesKept
    <3> QED BY <1>2, <3>1, <3>3
  <2> QED BY <2>1, <2>2
<1>5. EndsAt(pending, sent)' /\ MemoryBounded' /\ LinesKept(sent, Len(pending))'
  BY <1>3, <1>4 DEF EndsAt, MemoryBounded, LinesKept, Before
<1>6. FinalUsageCounted'
  BY <1>3 DEF FinalUsageCounted, Unknown
<1>7. (stream \in Streams)' /\ (sent \in Nat)'
  BY <1>1, <1>3
<1> QED BY <1>5, <1>6, <1>7 DEF CInv

LEMMA FinishInv ==
    ASSUME CInv, Finish
    PROVE  CInv'
<1>1. /\ stream' = stream /\ sent' = sent /\ pending' = pending
      /\ counted' = Tokens(pending)
  BY DEF Finish
<1>2. ASSUME NEW field \in {"prompt", "completion"},
             LastReport(field) # 0, Recent(LastReport(field))
      PROVE  Tokens(pending)[field] = LastReport(field)
  <2>1. Max(Reporting(pending, field) \cup {0}) = LastReport(field)
    BY <1>2, FinishCounts DEF CInv
  <2>2. Tokens(pending)[field] = Max(Reporting(pending, field) \cup {0})
    BY DEF Tokens
  <2> QED BY <2>1, <2>2
<1>3. DOMAIN Tokens(pending) = {"prompt", "completion"}
  BY DEF Tokens
<1>4. \A field: LastReport(field)' = LastReport(field)
  BY <1>1 DEF LastReport
<1>5. \A i: Recent(i)' <=> Recent(i)
  BY <1>1 DEF Recent, Before
<1>6. FinalUsageCounted'
  BY <1>1, <1>2, <1>3, <1>4, <1>5 DEF FinalUsageCounted
<1>7. /\ (stream \in Streams)' /\ (sent \in Nat)' /\ EndsAt(pending, sent)'
      /\ MemoryBounded' /\ LinesKept(sent, Len(pending))'
  BY <1>1 DEF CInv, EndsAt, MemoryBounded, LinesKept, Before
<1> QED BY <1>6, <1>7 DEF CInv

LEMMA CaptureNextInv == CInv /\ [CaptureNext]_captureVars => CInv'
<1>1. ASSUME CInv, NEW n \in 1 .. Size, Push(n) PROVE CInv'
  BY <1>1, PushInv
<1>2. ASSUME CInv, Finish PROVE CInv'
  BY <1>2, FinishInv
<1>3. ASSUME CInv, UNCHANGED captureVars PROVE CInv'
  <2>1. stream' = stream /\ sent' = sent /\ pending' = pending /\ counted' = counted
    BY <1>3 DEF captureVars
  <2> QED BY <1>3, <2>1 DEF CInv, EndsAt, MemoryBounded, LinesKept, Before,
                            FinalUsageCounted, LastReport, Recent
<1> QED BY <1>1, <1>2, <1>3 DEF CaptureNext

LEMMA CaptureInvariant == CaptureSpec => []CInv
<1> QED BY CaptureInitInv, CaptureNextInv, PTL DEF CaptureSpec

------------------------------------------------------------------------------

\* However an answer is cut into chunks, a request holds no more than the cap
\* of it (handlers.rs, UsageCapture::push).
THEOREM CaptureIsBounded == CaptureSpec => []MemoryBounded
<1>1. CInv => MemoryBounded
  BY DEF CInv
<1> QED BY <1>1, CaptureInvariant, PTL

\* The bytes held are the last ones pushed, in order, without a gap.
THEOREM CaptureHoldsTheTail == CaptureSpec => []TailHeld
<1>1. CInv => TailHeld
  <2> SUFFICES ASSUME CInv, NEW i \in DOMAIN pending PROVE pending[i] = sent - Len(pending) + i
    BY DEF TailHeld
  <2>1. DOMAIN pending = 1 .. Len(pending)
    BY LenProperties DEF CInv, EndsAt
  <2> QED BY <2>1 DEF CInv, EndsAt
<1> QED BY <1>1, CaptureInvariant, PTL

\* The counts of the last event that reports them are the ones recorded when
\* that event and what followed it fit into the window, for every stream,
\* every cut into chunks and every cap.
THEOREM CaptureCountsFinalUsage == CaptureSpec => []FinalUsageCounted
<1>1. CInv => FinalUsageCounted
  BY DEF CInv
<1> QED BY <1>1, CaptureInvariant, PTL

------------------------------------------------------------------------------
(* The running task: the invariant.                                        *)

\* The bytes after `from` up to `to`, at least one.
IsPiece(c, from, to) ==
    /\ c \in Seq(Nat) /\ from < to /\ Len(c) = to - from
    /\ \A j \in 1 .. Len(c): c[j] = from + j

\* What is under way to the client continues what it received: piece i of the
\* channel goes from cuts[i] to cuts[i + 1], and an error comes last.
UnderWay(cuts) ==
    /\ cuts \in [Nat -> Nat]
    /\ cuts[1] = Len(received)
    /\ \A i \in 1 .. Len(channel):
        \/ IsPiece(channel[i], cuts[i], cuts[i + 1])
        \/ /\ channel[i] = Error /\ cuts[i + 1] = cuts[i]
           /\ i = Len(channel) /\ task \in {"ended", "done"}
    /\ task = "sending" => IsPiece(chunk, cuts[Len(channel) + 1], sent)
    /\ task # "sending" => cuts[Len(channel) + 1] = sent

SInv ==
    /\ CInv /\ TypeOK
    /\ channel \in Seq(Seq(Nat)) /\ chunk \in Seq(Nat)
    /\ received \in Seq(Nat) /\ \A n \in 1 .. Len(received): received[n] = n
    /\ task = "done" <=> records = 1
    /\ task = "done" <=> counted # Unknown
    /\ Listening => \E cuts: UnderWay(cuts)
    /\ Listening /\ task \in {"ended", "done"} =>
          sent \in {Size - 1, Size} \/ (channel # <<>> /\ channel[Len(channel)] = Error)
    /\ client = "finished" => Len(received) = sent /\ sent \in {Size - 1, Size} /\ task = "done"

LEMMA ErrorFacts == Error \in Seq(Nat) /\ Len(Error) = 0
<1>1. <<>> \in Seq(Nat) /\ Len(<<>>) = 0
  BY EmptySeq
<1> QED BY <1>1 DEF Error

LEMMA InitInv == Init => SInv
<1> SUFFICES ASSUME Init PROVE SInv
  OBVIOUS
<1>1. CaptureInit /\ CInv /\ Size \in Nat /\ sent = 0 /\ counted = Unknown
  BY CaptureInitInv, StreamFacts DEF Init, CaptureInit, CInv
<1>2. \A S: <<>> \in Seq(S) /\ Len(<<>>) = 0
  BY EmptySeq
<1>3. TypeOK
  BY <1>1, <1>2, StreamAssumption DEF Init, TypeOK
<1>4. UnderWay([i \in Nat |-> 0])
  BY <1>1, <1>2 DEF Init, UnderWay
<1>5. /\ channel \in Seq(Seq(Nat)) /\ chunk \in Seq(Nat)
      /\ received \in Seq(Nat) /\ \A n \in 1 .. Len(received): received[n] = n
  BY <1>2 DEF Init
<1> QED BY <1>1, <1>3, <1>4, <1>5 DEF Init, SInv

------------------------------------------------------------------------------
(* Steps of the task.                                                      *)

LEMMA SFacts ==
    ASSUME SInv
    PROVE  /\ stream \in Streams /\ sent \in Nat /\ Size \in Nat /\ sent <= Size
           /\ Len(channel) \in Nat /\ Len(channel) <= Capacity /\ Len(received) \in Nat
           /\ Capacity \in Nat \ {0}
  BY LenProperties, StreamFacts, StreamAssumption DEF SInv, CInv, TypeOK

LEMMA ReadChunkInv ==
    ASSUME SInv, ReadChunk
    PROVE  SInv'
<1>1. PICK n \in 1 .. Size: Push(n) /\ chunk' = [i \in 1 .. n |-> sent + i]
  BY DEF ReadChunk
<1>2. /\ task = "reading" /\ task' = "sending" /\ counted' = counted /\ sent' = sent + n
      /\ stream' = stream /\ sent + n <= Size
      /\ channel' = channel /\ client' = client /\ received' = received /\ records' = records
  BY <1>1 DEF ReadChunk, Push
<1>3. CInv'
  BY <1>1, PushInv DEF SInv
<1>4. n \in Nat \ {0} /\ sent' \in 0 .. Size /\ Size' = Size
  BY <1>2, SFacts DEF Size
<1>5. IsPiece(chunk', sent, sent + n) /\ chunk' \in Seq(Nat)
  <2>1. \A i \in 1 .. n: sent + i \in Nat
    BY SFacts
  <2>2. chunk' \in Seq(Nat)
    BY <1>1, <1>4, <2>1, IsASeq
  <2>3. DOMAIN chunk' = 1 .. n /\ \A i \in 1 .. n: chunk'[i] = sent + i
    BY <1>1
  <2>4. Len(chunk') = n
    BY <1>4, <2>2, <2>3, LenProperties
  <2>5. sent < sent + n /\ n = (sent + n) - sent
    BY <1>4, SFacts
  <2> QED BY <2>2, <2>3, <2>4, <2>5 DEF IsPiece
<1>6. TypeOK'
  BY <1>2, <1>4 DEF SInv, TypeOK
<1>7. ASSUME NEW cuts, UnderWay(cuts) PROVE UnderWay(cuts)'
  <2>1. cuts[Len(channel) + 1] = sent
    BY <1>2, <1>7 DEF UnderWay
  <2> QED BY <1>2, <1>5, <1>7, <2>1 DEF UnderWay
<1> QED BY <1>2, <1>3, <1>4, <1>5, <1>6, <1>7 DEF SInv, Listening

LEMMA ReadStops ==
    ASSUME SInv, task = "reading", task' = "failing" \/ (task' = "ended" /\ sent \in {Size - 1, Size}),
           UNCHANGED <<captureVars, chunk, channel, client, received, records>>
    PROVE  SInv'
<1>1. CInv'
  BY CaptureNextInv DEF SInv
<1>2. /\ stream' = stream /\ sent' = sent /\ counted' = counted /\ Size' = Size
      /\ chunk' = chunk /\ channel' = channel /\ client' = client /\ received' = received
      /\ records' = records
  BY DEF captureVars, Size
<1>3. TypeOK'
  BY <1>2 DEF SInv, TypeOK
<1>4. ASSUME NEW cuts, UnderWay(cuts) PROVE UnderWay(cuts)'
  BY <1>2, <1>4 DEF UnderWay
<1> QED BY <1>1, <1>2, <1>3, <1>4 DEF SInv, Listening

\* A piece, or an error, joins the channel.
LEMMA Joins ==
    ASSUME SInv, NEW cuts, UnderWay(cuts), NEW c, c \in Seq(Nat),
           \/ task = "sending" /\ c = chunk /\ task' = "reading"
           \/ task = "failing" /\ c = Error /\ task' = "ended",
           channel' = Append(channel, c),
           UNCHANGED <<captureVars, client, received, records>>
    PROVE  /\ \E new: UnderWay(new)'
           /\ channel' \in Seq(Seq(Nat)) /\ Len(channel') = Len(channel) + 1
           /\ channel'[Len(channel')] = c
<1> DEFINE len == Len(channel)
<1>1. /\ len \in Nat /\ sent \in Nat /\ sent' = sent /\ received' = received
  BY SFacts DEF captureVars
<1>2. /\ channel' \in Seq(Seq(Nat)) /\ Len(channel') = len + 1
      /\ \A i \in 1 .. len: channel'[i] = channel[i]
      /\ channel'[len + 1] = c
  BY AppendProperties DEF SInv
<1>3. PICK new: /\ new \in [Nat -> Nat] /\ new[len + 2] = sent
                /\ \A i \in 1 .. len + 1: new[i] = cuts[i]
  <2> DEFINE longer == [cuts EXCEPT ![len + 2] = sent]
  <2>1. cuts \in [Nat -> Nat]
    BY DEF UnderWay
  <2>2. len + 2 \in Nat /\ \A i \in 1 .. len + 1: i \in Nat /\ i # len + 2
    BY <1>1
  <2> HIDE DEF len
  <2>3. /\ longer \in [Nat -> Nat] /\ longer[len + 2] = sent
        /\ \A i \in 1 .. len + 1: longer[i] = cuts[i]
    BY <1>1, <2>1, <2>2
  <2> QED BY <2>3
<1>4. \A i \in 1 .. len: IsPiece(channel[i], cuts[i], cuts[i + 1])
  <2>1. task \notin {"ended", "done"}
    OBVIOUS
  <2> QED BY <2>1 DEF UnderWay
<1>5. \A i \in 1 .. len: IsPiece(channel'[i], new[i], new[i + 1])
  <2> SUFFICES ASSUME NEW i \in 1 .. len PROVE IsPiece(channel'[i], new[i], new[i + 1])
    OBVIOUS
  <2>1. i \in 1 .. len + 1 /\ i + 1 \in 1 .. len + 1
    BY <1>1
  <2>2. channel'[i] = channel[i] /\ new[i] = cuts[i] /\ new[i + 1] = cuts[i + 1]
    BY <1>2, <1>3, <2>1
  <2> QED BY <1>4, <2>2
<1>6. \/ IsPiece(channel'[len + 1], new[len + 1], new[len + 2])
      \/ channel'[len + 1] = Error /\ new[len + 2] = new[len + 1] /\ task' = "ended"
  <2>1. len + 1 \in 1 .. len + 1
    BY <1>1
  <2>2. new[len + 1] = cuts[len + 1]
    BY <1>3, <2>1
  <2>3. CASE task = "sending" /\ c = chunk
    BY <1>2, <1>3, <2>2, <2>3 DEF UnderWay
  <2>4. CASE task = "failing" /\ c = Error /\ task' = "ended"
    BY <1>2, <1>3, <2>2, <2>4 DEF UnderWay
  <2> QED BY <2>3, <2>4
<1>7. new[1] = Len(received')
  <2>1. 1 \in 1 .. len + 1 /\ cuts[1] = Len(received)
    BY <1>1 DEF UnderWay
  <2> QED BY <1>1, <1>3, <2>1
<1>8. ASSUME NEW i \in 1 .. len + 1
      PROVE  \/ IsPiece(channel'[i], new[i], new[i + 1])
             \/ /\ channel'[i] = Error /\ new[i + 1] = new[i]
                /\ i = len + 1 /\ task' \in {"ended", "done"}
  <2>1. CASE i \in 1 .. len
    BY <1>5, <2>1
  <2>2. CASE i = len + 1
    <3>1. i + 1 = len + 2
      BY <1>1, <2>2
    <3> QED BY <1>6, <2>2, <3>1
  <2> QED BY <1>1, <2>1, <2>2
<1>9. len + 1 + 1 = len + 2 /\ task' # "sending"
  BY <1>1
<1>10. UnderWay(new)'
  <2>1. new[Len(channel') + 1] = sent'
    BY <1>1, <1>2, <1>3, <1>9
  <2>2. \A i \in 1 .. Len(channel'):
          \/ IsPiece(channel'[i], new[i], new[i + 1])
          \/ /\ channel'[i] = Error /\ new[i + 1] = new[i]
             /\ i = Len(channel') /\ task' \in {"ended", "done"}
    BY <1>2, <1>8
  <2> QED BY <1>3, <1>7, <1>9, <2>1, <2>2 DEF UnderWay
<1> QED BY <1>2, <1>10

LEMMA SendInv ==
    ASSUME SInv, Send
    PROVE  SInv'
<1>1. /\ task = "sending" /\ task' = "reading" /\ Listening /\ Len(channel) < Capacity
      /\ channel' = Append(channel, chunk) /\ chunk' = <<>>
      /\ UNCHANGED <<captureVars, client, received, records>>
  BY DEF Send
<1>2. CInv'
  BY <1>1, CaptureNextInv DEF SInv
<1>3. sent' = sent /\ counted' = counted /\ Size' = Size
  BY <1>1 DEF captureVars, Size
<1>4. chunk \in Seq(Nat) /\ \E cuts: UnderWay(cuts)
  BY <1>1 DEF SInv
<1>5. /\ \E new: UnderWay(new)'
      /\ channel' \in Seq(Seq(Nat)) /\ Len(channel') = Len(channel) + 1
  BY <1>1, <1>4, Joins
<1>6. Len(channel') <= Capacity
  BY <1>1, <1>5, SFacts
<1>7. TypeOK'
  BY <1>1, <1>3, <1>6 DEF SInv, TypeOK
<1>8. chunk' \in Seq(Nat)
  BY <1>1, EmptySeq
<1> QED BY <1>1, <1>2, <1>3, <1>5, <1>7, <1>8 DEF SInv, Listening

LEMMA SendErrorInv ==
    ASSUME SInv, SendError
    PROVE  SInv'
<1>1. /\ task = "failing" /\ task' = "ended"
      /\ UNCHANGED <<captureVars, chunk, client, received, records>>
  BY DEF SendError
<1>2. CInv'
  BY <1>1, CaptureNextInv DEF SInv
<1>3. sent' = sent /\ counted' = counted /\ Size' = Size
  BY <1>1 DEF captureVars, Size
<1>4. CASE Listening
  <2>1. Len(channel) < Capacity /\ channel' = Append(channel, Error)
    BY <1>4 DEF SendError
  <2>2. \E cuts: UnderWay(cuts)
    BY <1>4 DEF SInv
  <2>3. /\ \E new: UnderWay(new)'
        /\ channel' \in Seq(Seq(Nat)) /\ Len(channel') = Len(channel) + 1
        /\ channel'[Len(channel')] = Error
    BY <1>1, <2>1, <2>2, ErrorFacts, Joins
  <2>4. Len(channel') <= Capacity /\ channel' # <<>>
    BY <2>1, <2>3, SFacts, EmptySeq
  <2>5. TypeOK'
    BY <1>1, <1>3, <2>4 DEF SInv, TypeOK
  <2> QED BY <1>1, <1>2, <1>3, <1>4, <2>3, <2>4, <2>5 DEF SInv, Listening
<1>5. CASE ~ Listening
  <2>1. channel' = channel
    BY <1>5 DEF SendError
  <2>2. TypeOK'
    BY <1>1, <1>3, <2>1 DEF SInv, TypeOK
  <2> QED BY <1>1, <1>2, <1>3, <1>5, <2>1, <2>2 DEF SInv, Listening
<1> QED BY <1>4, <1>5

LEMMA SendToNobodyInv ==
    ASSUME SInv, SendToNobody
    PROVE  SInv'
<1>1. /\ task = "sending" /\ task' = "ended" /\ ~ Listening /\ chunk' = <<>>
      /\ channel' = channel /\ client' = client /\ received' = received /\ records' = records
      /\ UNCHANGED captureVars
  BY DEF SendToNobody
<1>2. CInv'
  BY <1>1, CaptureNextInv DEF SInv
<1>3. sent' = sent /\ counted' = counted /\ Size' = Size
  BY <1>1 DEF captureVars, Size
<1>4. TypeOK' /\ chunk' \in Seq(Nat)
  BY <1>1, <1>3, EmptySeq DEF SInv, TypeOK
<1> QED BY <1>1, <1>2, <1>3, <1>4 DEF SInv, Listening

\* What finish reads is no longer Unknown.
LEMMA FinishKnows ==
    ASSUME CInv, Finish
    PROVE  counted' # Unknown
<1>1. Reporting(pending, "prompt") \cup {0} \subseteq 0 .. Len(stream) /\ Len(stream) \in Nat
  BY StreamFacts DEF CInv, Reporting
<1>2. Max(Reporting(pending, "prompt") \cup {0}) \in 0 .. Len(stream)
  <2>1. Reporting(pending, "prompt") \cup {0} # {}
    OBVIOUS
  <2> QED BY <1>1, <2>1, GreatestNumber
<1>3. counted'.prompt # -1
  <2>1. counted'.prompt = Max(Reporting(pending, "prompt") \cup {0})
    BY DEF Finish, Tokens
  <2> QED BY <1>1, <1>2, <2>1
<1> QED BY <1>3 DEF Unknown

LEMMA RecordInv ==
    ASSUME SInv, Record
    PROVE  SInv'
<1>1. /\ task = "ended" /\ task' = "done" /\ Finish /\ records' = records + 1
      /\ chunk' = chunk /\ channel' = channel /\ client' = client /\ received' = received
  BY DEF Record, Counts
<1>2. CInv' /\ counted' # Unknown
  BY <1>1, FinishInv, FinishKnows DEF SInv
<1>3. stream' = stream /\ sent' = sent /\ Size' = Size
  BY <1>1 DEF Finish, Size
<1>4. records = 0 /\ records' = 1
  BY <1>1 DEF SInv, TypeOK
<1>5. TypeOK'
  BY <1>1, <1>2, <1>3, <1>4 DEF SInv, TypeOK
<1>6. ASSUME NEW cuts, UnderWay(cuts) PROVE UnderWay(cuts)'
  BY <1>1, <1>3, <1>6 DEF UnderWay
<1> QED BY <1>1, <1>2, <1>3, <1>4, <1>5, <1>6 DEF SInv, Listening

------------------------------------------------------------------------------
(* Steps of the client.                                                    *)

LEMMA ClientReadsInv ==
    ASSUME SInv, ClientReads
    PROVE  SInv'
<1>1. /\ Listening /\ channel # <<>> /\ channel' = Tail(channel)
      /\ UNCHANGED <<captureVars, task, chunk, records>>
  BY DEF ClientReads
<1>2. CInv' /\ sent' = sent /\ counted' = counted /\ Size' = Size /\ task' = task
      /\ chunk' = chunk /\ records' = records
  BY <1>1, CaptureNextInv DEF SInv, captureVars, Size
<1> DEFINE len == Len(channel)
<1>3. /\ len \in Nat \ {0} /\ channel[1] = Head(channel)
      /\ channel' \in Seq(Seq(Nat)) /\ Len(channel') = len - 1
      /\ \A i \in 1 .. len - 1: channel'[i] = channel[i + 1]
  BY <1>1, HeadTailProperties, EmptySeq, LenProperties DEF SInv
<1>4. Len(channel') <= Capacity
  BY <1>3, SFacts
<1>5. PICK cuts: UnderWay(cuts)
  BY <1>1 DEF SInv
<1>6. CASE Head(channel) = Error
  <2>1. client' = "broken" /\ received' = received
    BY <1>6 DEF ClientReads
  <2>2. TypeOK'
    BY <1>2, <1>4, <2>1 DEF SInv, TypeOK
  <2> QED BY <1>2, <1>3, <2>1, <2>2 DEF SInv, Listening
<1>7. CASE Head(channel) # Error
  <2>1. client' = client /\ received' = received \o channel[1]
    BY <1>3, <1>7 DEF ClientReads
  <2>2. IsPiece(channel[1], cuts[1], cuts[2]) /\ cuts[1] = Len(received)
    <3>1. 1 \in 1 .. len /\ 1 + 1 = 2
      BY <1>3
    <3> QED BY <1>3, <1>5, <1>7, <3>1 DEF UnderWay
  <2>3. /\ channel[1] \in Seq(Nat) /\ Len(channel[1]) \in Nat
        /\ Len(channel[1]) = cuts[2] - Len(received)
        /\ \A j \in 1 .. Len(channel[1]): channel[1][j] = Len(received) + j
        /\ Len(received) \in Nat /\ cuts[2] \in Nat /\ cuts \in [Nat -> Nat]
    BY <1>5, <2>2, SFacts, LenProperties DEF IsPiece, UnderWay
  <2>4. /\ received' \in Seq(Nat) /\ Len(received') = Len(received) + Len(channel[1])
        /\ \A n \in 1 .. Len(received) + Len(channel[1]):
              received'[n] = IF n <= Len(received) THEN received[n]
                                                   ELSE channel[1][n - Len(received)]
    <3>1. received \in Seq(Nat)
      BY DEF SInv
    <3>2. /\ received \o channel[1] \in Seq(Nat)
          /\ Len(received \o channel[1]) = Len(received) + Len(channel[1])
          /\ \A n \in 1 .. Len(received) + Len(channel[1]):
                (received \o channel[1])[n] = IF n <= Len(received) THEN received[n]
                                               ELSE channel[1][n - Len(received)]
      BY <2>3, <3>1, ConcatProperties
    <3> QED BY <2>1, <3>2
  <2>5. ASSUME NEW n \in 1 .. Len(received') PROVE received'[n] = n
    <3>0. /\ Len(received) \in Nat /\ Len(channel[1]) \in Nat
          /\ n \in 1 .. Len(received) + Len(channel[1])
      BY <2>3, <2>4
    <3>1. CASE n <= Len(received)
      <4>1. n \in 1 .. Len(received)
        BY <3>0, <3>1
      <4>2. received'[n] = received[n]
        BY <2>4, <3>0, <3>1
      <4> QED BY <4>1, <4>2 DEF SInv
    <3>2. CASE n > Len(received)
      <4>1. n - Len(received) \in 1 .. Len(channel[1])
        BY <3>0, <3>2
      <4>2. received'[n] = channel[1][n - Len(received)]
        BY <2>3, <2>4, <3>2
      <4>3. channel[1][n - Len(received)] = Len(received) + (n - Len(received))
        BY <2>3, <4>1
      <4> QED BY <2>3, <4>2, <4>3
    <3>3. n <= Len(received) \/ n > Len(received)
      BY <2>3, <2>4
    <3> QED BY <3>1, <3>2, <3>3
  <2> DEFINE rest == [i \in Nat |-> cuts[i + 1]]
  <2>6. rest \in [Nat -> Nat] /\ \A i \in Nat: rest[i] = cuts[i + 1]
    <3>1. cuts \in [Nat -> Nat]
      BY <2>3
    <3>2. \A i \in Nat: cuts[i + 1] \in Nat
      BY <3>1
    <3> QED BY <3>2
  <2> HIDE DEF rest
  <2>7. rest[1] = Len(received')
    BY <2>3, <2>4, <2>6
  <2>8. ASSUME NEW i \in 1 .. len - 1
        PROVE  \/ IsPiece(channel'[i], rest[i], rest[i + 1])
               \/ /\ channel'[i] = Error /\ rest[i + 1] = rest[i]
                  /\ i = len - 1 /\ task' \in {"ended", "done"}
    <3>1. i + 1 \in 1 .. len /\ i \in Nat /\ i + 1 \in Nat
      BY <1>3
    <3>2. rest[i] = cuts[i + 1] /\ rest[i + 1] = cuts[i + 1 + 1]
      BY <2>6, <3>1
    <3>3. channel'[i] = channel[i + 1]
      BY <1>3
    <3>4. \/ IsPiece(channel[i + 1], cuts[i + 1], cuts[i + 1 + 1])
          \/ /\ channel[i + 1] = Error /\ cuts[i + 1 + 1] = cuts[i + 1]
             /\ i + 1 = len /\ task \in {"ended", "done"}
      BY <1>5, <3>1 DEF UnderWay
    <3>5. i + 1 = len => i = len - 1
      BY <1>3
    <3> QED BY <1>2, <3>2, <3>3, <3>4, <3>5
  <2>9. rest[len - 1 + 1] = cuts[len + 1]
    <3>1. len - 1 + 1 = len
      BY <1>3
    <3> QED BY <1>3, <2>6, <3>1
  <2>10. UnderWay(rest)'
    BY <1>2, <1>3, <1>5, <2>6, <2>7, <2>8, <2>9 DEF UnderWay
  <2>11. TypeOK'
    BY <1>2, <1>4, <2>1 DEF SInv, TypeOK
  <2>12. ASSUME task \in {"ended", "done"}, sent \notin {Size - 1, Size}
         PROVE  channel' # <<>> /\ channel'[Len(channel')] = Error
    <3>1. channel[len] = Error
      BY <1>1, <2>12 DEF SInv
    <3>2. len # 1
      BY <1>3, <1>7, <3>1
    <3>3. len - 1 \in 1 .. len - 1 /\ len - 1 + 1 = len
      BY <1>3, <3>2
    <3>4. channel'[len - 1] = channel[len]
      BY <1>3, <3>3
    <3>5. channel' # <<>>
      BY <1>3, <3>3, EmptySeq
    <3> QED BY <1>3, <3>1, <3>4, <3>5
  <2> QED BY <1>1, <1>2, <1>3, <2>1, <2>4, <2>5, <2>10, <2>11, <2>12 DEF SInv, Listening
<1> QED BY <1>6, <1>7

LEMMA ClientFinishesInv ==
    ASSUME SInv, ClientFinishes
    PROVE  SInv'
<1>1. /\ Listening /\ channel = <<>> /\ task = "done" /\ client' = "finished"
      /\ UNCHANGED <<captureVars, task, chunk, channel, received, records>>
  BY DEF ClientFinishes, EndsBody
<1>2. CInv' /\ sent' = sent /\ counted' = counted /\ Size' = Size
  BY <1>1, CaptureNextInv DEF SInv, captureVars, Size
<1>3. PICK cuts: UnderWay(cuts)
  BY <1>1 DEF SInv
<1>4. Len(received) = sent
  <2>1. Len(channel) + 1 = 1
    BY <1>1, EmptySeq
  <2> QED BY <1>1, <1>3, <2>1 DEF UnderWay
<1>5. sent \in {Size - 1, Size}
  BY <1>1 DEF SInv
<1>6. TypeOK'
  BY <1>1, <1>2 DEF SInv, TypeOK
<1> QED BY <1>1, <1>2, <1>4, <1>5, <1>6 DEF SInv, Listening

LEMMA ClientLeavesInv ==
    ASSUME SInv, ClientLeaves
    PROVE  SInv'
<1>1. /\ client' = "gone" /\ channel' = <<>>
      /\ UNCHANGED <<captureVars, task, chunk, received, records>>
  BY DEF ClientLeaves
<1>2. CInv' /\ sent' = sent /\ counted' = counted /\ Size' = Size
  BY <1>1, CaptureNextInv DEF SInv, captureVars, Size
<1>3. <<>> \in Seq(Seq(Nat)) /\ Len(<<>>) = 0
  BY EmptySeq
<1>4. TypeOK'
  BY <1>1, <1>2, <1>3, StreamAssumption DEF SInv, TypeOK
<1> QED BY <1>1, <1>2, <1>3, <1>4 DEF SInv, Listening

LEMMA IdleInv ==
    ASSUME SInv, UNCHANGED vars
    PROVE  SInv'
<1>1. /\ CInv' /\ sent' = sent /\ counted' = counted /\ Size' = Size
      /\ task' = task /\ chunk' = chunk /\ channel' = channel /\ client' = client
      /\ received' = received /\ records' = records
  BY CaptureNextInv DEF SInv, captureVars, vars, Size
<1>2. TypeOK'
  BY <1>1 DEF SInv, TypeOK
<1>3. ASSUME NEW cuts, UnderWay(cuts) PROVE UnderWay(cuts)'
  BY <1>1, <1>3 DEF UnderWay
<1> QED BY <1>1, <1>2, <1>3 DEF SInv, Listening

LEMMA StreamingInvariant == Spec => []SInv
<1>1. ASSUME SInv, [Next]_vars PROVE SInv'
  <2>1. ASSUME ReadError PROVE SInv'
    BY <1>1, <2>1, ReadStops DEF ReadError
  <2>2. ASSUME ReadEnd PROVE SInv'
    BY <1>1, <2>2, ReadStops DEF ReadEnd
  <2> QED BY <1>1, <2>1, <2>2, ReadChunkInv, SendInv, SendToNobodyInv, SendErrorInv, RecordInv,
             ClientReadsInv, ClientFinishesInv, ClientLeavesInv, IdleInv
          DEF Next, TaskNext, ClientNext
<1> QED BY <1>1, InitInv, PTL DEF Spec

------------------------------------------------------------------------------

\* No line ends after the stream.
LEMMA EndsWithin ==
    ASSUME stream \in Streams
    PROVE  \A i \in DOMAIN stream: stream[i].end <= Size
<1> DEFINE beyond == {i \in DOMAIN stream: stream[i].end > Size}
<1>1. /\ Len(stream) \in Nat \ {0} /\ DOMAIN stream = 1 .. Len(stream) /\ Size \in Nat
      /\ \A i \in DOMAIN stream: stream[i].end \in Nat
      /\ \A i \in 1 .. Len(stream) - 1: stream[i].end < stream[i + 1].end
  BY StreamFacts, CaptureAssumption DEF IsStream
<1>2. beyond = {}
  <2> SUFFICES ASSUME beyond # {} PROVE FALSE
    OBVIOUS
  <2>1. beyond \subseteq 0 .. Len(stream)
    BY <1>1
  <2>2. PICK last \in beyond: \A i \in beyond: i <= last
    <3> HIDE DEF beyond
    <3>1. Max(beyond) \in beyond /\ \A i \in beyond: i <= Max(beyond)
      BY <1>1, <2>1, GreatestNumber
    <3> QED BY <3>1
  <2>3. last # Len(stream)
    BY <1>1 DEF Size
  <2>4. last \in 1 .. Len(stream) - 1 /\ last + 1 \in DOMAIN stream
    BY <1>1, <2>3
  <2>5. stream[last + 1].end > Size
    <3>1. stream[last].end > Size /\ stream[last].end < stream[last + 1].end
      BY <1>1, <2>4
    <3>2. stream[last].end \in Nat /\ stream[last + 1].end \in Nat
      BY <1>1, <2>4
    <3> QED BY <1>1, <3>1, <3>2
  <2>6. last + 1 \in beyond
    BY <2>4, <2>5
  <2>7. last + 1 <= last /\ last \in Nat
    BY <1>1, <2>2, <2>4, <2>6
  <2> QED BY <2>7
<1>3. ASSUME NEW i \in DOMAIN stream PROVE stream[i].end <= Size
  <2>1. ~ (stream[i].end > Size)
    BY <1>2
  <2> QED BY <1>1, <2>1
<1> QED BY <1>3

\* Type correctness: at most one record, at most Capacity chunks waiting, and
\* the numbers within their bounds.
THEOREM StreamTypes == Spec => []TypeOK
<1>1. SInv => TypeOK
  BY DEF SInv
<1> QED BY <1>1, StreamingInvariant, PTL

\* The running task holds no more than the cap of an answer, however slow its
\* client and however the upstream cuts it (handlers.rs).
THEOREM StreamIsBounded == Spec => []MemoryBounded
<1>1. SInv => MemoryBounded
  BY DEF SInv, CInv
<1> QED BY <1>1, StreamingInvariant, PTL

\* The counts recorded for a stream, ended, broken off or left, are those of
\* the last report sent that still fits into the window.
THEOREM StreamCountsFinalUsage == Spec => []FinalUsageCounted
<1>1. SInv => FinalUsageCounted
  BY DEF SInv, CInv
<1> QED BY <1>1, StreamingInvariant, PTL

\* Every client has a prefix of the upstream's bytes, and one whose answer
\* ended without an error has all of them.
THEOREM StreamIsTransparent == Spec => []ByteTransparent
<1>1. SInv => ByteTransparent
  <2> SUFFICES ASSUME SInv PROVE ByteTransparent
    OBVIOUS
  <2>1. DOMAIN received = 1 .. Len(received)
    BY LenProperties DEF SInv
  <2> QED BY <2>1 DEF SInv, ByteTransparent
<1> QED BY <1>1, StreamingInvariant, PTL

\* A client that has seen the end of its answer is recorded, with the counts
\* of the whole answer: the task drops the channel only afterwards.
THEOREM FinishedMeansRecorded == Spec => []FinishedIsRecorded
<1>1. SInv => FinishedIsRecorded
  <2> SUFFICES ASSUME SInv, client = "finished" PROVE FinishedIsRecorded
    BY DEF FinishedIsRecorded
  <2>1. /\ records = 1 /\ sent \in {Size - 1, Size} /\ counted # Unknown /\ stream \in Streams
        /\ FinalUsageCounted
    BY DEF SInv, CInv
  <2>2. ASSUME NEW field
        PROVE  Max({i \in DOMAIN stream: stream[i].kind \in {field, "both"}} \cup {0})
                 = LastReport(field)
    <3>1. \A i \in DOMAIN stream: stream[i].end - 1 <= sent
      <4>1. \A i \in DOMAIN stream: stream[i].end <= Size /\ stream[i].end \in Nat
        BY <2>1, EndsWithin, StreamFacts
      <4>2. Size \in Nat
        BY <2>1, StreamFacts
      <4> QED BY <2>1, <4>1, <4>2
    <3>2. {i \in DOMAIN stream: stream[i].kind \in {field, "both"}}
            = {i \in DOMAIN stream: stream[i].kind \in {field, "both"}
                                      /\ stream[i].end - 1 <= sent}
      BY <3>1
    <3> QED BY <3>2 DEF LastReport
  <2> QED BY <2>1, <2>2 DEF FinishedIsRecorded, FinalUsageCounted, Recent
<1> QED BY <1>1, StreamingInvariant, PTL
==============================================================================
