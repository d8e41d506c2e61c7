-------------------------- MODULE RelayRequest_proofs --------------------------
(***************************************************************************)
(* Proofs about RelayRequest: the slot a request is given is released      *)
(* exactly once on every path out of the handler, no text follows a tool   *)
(* call, the client's text holds no stop sequence, and the end of its      *)
(* answer tells how the upstream ended.                                    *)
(***************************************************************************)
EXTENDS RelayRequest, RequestSettings, SequenceTheorems, WellFoundedInduction, TLAPS

-----------------------------------------------------------------------------
(* The slot: which program points come before its release and which after.  *)
Unreleased == Before \cup {"flush", "record", "release", "fail", "giveback"}

SlotInv ==
  /\ pc \in Unreleased \cup {"finale", "answer", "over"}
  /\ pc \in Unreleased => releases = 0
  /\ pc = "finale" => releases = 1
  /\ pc = "start" => slot = FALSE
  /\ pc \notin {"start", "answer", "over"} => slot = TRUE
  /\ pc \in {"answer", "over"} => releases = IF slot THEN 1 ELSE 0
  /\ pc \notin {"relay", "tools", "closed"} => queued = FALSE

(* The slot's invariant holds at the beginning.                             *)
LEMMA SlotInit == Init => SlotInv
  BY DEF Init, SlotInv, Unreleased, Before

(* Every step of the handler, the upstream and the client keeps it.         *)
LEMMA SlotStep == SlotInv /\ [Next]_vars => SlotInv'
<1> SUFFICES ASSUME SlotInv, [Next]_vars PROVE SlotInv'
  OBVIOUS
<1> USE DEF SlotInv, Unreleased, Before
<1>1. CASE UNCHANGED vars
  BY <1>1 DEF vars, clientVars, slotVars, upVars
<1>2. CASE ClientStep
  BY <1>2 DEF ClientStep, ClientLeaves, ClientStalls, ClientReads, slotVars, upVars
<1>3. CASE Acquire
  BY <1>3 DEF Acquire, upVars
<1>4. CASE Prepare \/ Begin
  BY <1>4 DEF Prepare, Begin, upVars
<1>5. CASE Open
  BY <1>5 DEF Open, slotVars
<1>6. CASE Event
  <2>1. CASE QueueEvent \/ UsageEvent \/ ReasonEvent \/ ErrorEvent
    BY <1>6, <2>1 DEF QueueEvent, UsageEvent, ReasonEvent, ErrorEvent, Listening,
                      Written, GivenUp, slotVars, upVars, clientVars
  <2>2. CASE \E t \in Chunk : TextEvent(t)
    BY <2>2 DEF TextEvent, Listening, Emit, Written, GivenUp, slotVars
  <2>3. CASE \E i \in Tool : ToolEvent(i)
    BY <2>3 DEF ToolEvent, Listening, slotVars
  <2> QED  BY <1>6, <2>1, <2>2, <2>3 DEF Event
<1>7. CASE UpstreamEnds
  BY <1>7 DEF UpstreamEnds, DoneEvent, DoneMark, Close, Listening, slotVars, upVars
<1>8. CASE FlushTail \/ SendTool \/ ToolsSent
  BY <1>8 DEF FlushTail, SendTool, ToolsSent, Emit, Written, GivenUp, slotVars
<1>9. CASE Return
  <2>1. pc' \in {"open", "flush", "fail"} /\ queued' = FALSE
    BY <1>9 DEF Return
  <2> QED  BY <1>9, <2>1 DEF Return, slotVars
<1>10. CASE FlushEnd
  BY <1>10 DEF FlushEnd, slotVars
<1>11. CASE Record \/ Release
  BY <1>11 DEF Record, Release, upVars
<1>12. CASE Finale \/ FailStream
  BY <1>12 DEF Finale, FailStream, slotVars, upVars
<1>13. CASE GiveBack \/ FailAnswer \/ Answer
  BY <1>13 DEF GiveBack, FailAnswer, Answer, slotVars, upVars
<1> QED
  BY <1>1, <1>2, <1>3, <1>4, <1>5, <1>6, <1>7, <1>8, <1>9, <1>10, <1>11, <1>12, <1>13
  DEF Next, Free, Handler

(* Every path out of handleChatCompletions gives the account back exactly   *)
(* once, not while its upstream stream is open, and leaves no stream of it  *)
(* counted as waiting.                                                      *)
THEOREM SlotGivenBackOnce == Spec => []AccountGivenBack
<1>1. SlotInv => AccountGivenBack
  BY DEF SlotInv, AccountGivenBack, Unreleased, Before, After
<1> QED
  BY <1>1, SlotInit, SlotStep, PTL DEF Spec

-----------------------------------------------------------------------------
(* A set of natural numbers that is not empty has a least element.          *)
LEMMA LeastNat ==
  ASSUME NEW S \in SUBSET Nat, S # {}
  PROVE  \E m \in S : \A k \in S : m <= k
<1> DEFINE Less == OpToRel(<, Nat)
<1>1. \E m \in S : \A k \in S : ~(<<k, m>> \in Less)
  BY NatLessThanWellFounded, WFMin
<1>2. \A k, m \in Nat : k < m => <<k, m>> \in Less
  BY DEF OpToRel
<1> HIDE DEF Less
<1>3. \A k, m \in S : ~(<<k, m>> \in Less) => m <= k
  BY <1>2
<1> QED
  BY <1>1, <1>3

(* Stop sequences are texts, and the filter holds back enough for each.     *)
LEMMA StopLength ==
  /\ HoldMax \in Nat
  /\ \A u \in Stops : u \in Seq(Letter) /\ Len(u) \in Nat /\ 0 < Len(u) /\ Len(u) <= HoldMax + 1
<1> DEFINE Lens == {Len(t) : t \in Stops}
           Gaps == {MaxStop - n : n \in Lens}
<1>1. \A u \in Stops : u \in Seq(Letter) /\ Len(u) \in Nat /\ 0 < Len(u)
  BY RelayAssumption, EmptySeq
<1>2. \A n \in Lens : n \in Nat /\ 0 < n /\ n <= MaxStop
  BY <1>1, RelayAssumption
<1>3. CASE Stops = {}
  BY <1>3 DEF HoldMax
<1>4. CASE Stops # {}
  <2>1. Gaps \in SUBSET Nat /\ Gaps # {}
    BY <1>2, <1>4, RelayAssumption
  <2>2. PICK g \in Gaps : \A k \in Gaps : g <= k
    BY <2>1, LeastNat
  <2>3. \E n \in Lens : \A k \in Lens : n >= k
    <3>1. PICK n \in Lens : g = MaxStop - n
      BY <2>2
    <3>2. ASSUME NEW k \in Lens PROVE n >= k
      <4>1. g <= MaxStop - k
        BY <2>2
      <4> HIDE DEF Lens
      <4> QED  BY <4>1, <3>1, <1>2, RelayAssumption
    <3> QED  BY <3>2
  <2>4. Max(Lens) \in Lens /\ \A k \in Lens : Max(Lens) >= k
    BY <2>3 DEF Max
  <2>5. HoldMax = Max(Lens) - 1
    BY <1>4 DEF HoldMax
  <2>6. \A u \in Stops : Len(u) \in Lens
    OBVIOUS
  <2> HIDE DEF Lens
  <2> QED  BY <1>1, <1>2, <2>4, <2>5, <2>6
<1> QED
  BY <1>3, <1>4

(* What the filter lets through and what it holds back are texts.           *)
LEMMA FilterType ==
  ASSUME pend \in Seq(Letter), NEW t \in Seq(Letter)
  PROVE  Passed(t) \in Seq(Letter) /\ Held(t) \in Seq(Letter)
<1> DEFINE buf == pend \o t
<1>1. buf \in Seq(Letter) /\ Len(buf) \in Nat
  OBVIOUS
<1>2. \A m \in 0 .. Len(buf) : SubSeq(buf, 1, m) \in Seq(Letter)
  BY <1>1, SubSeqProperties
<1>3. \A m \in 1 .. Len(buf) : SubSeq(buf, m, Len(buf)) \in Seq(Letter)
  BY <1>1, SubSeqProperties
<1>4. StopsIn(buf) # {} => Min(StopsIn(buf)) \in 0 .. Len(buf)
  <2> SUFFICES ASSUME StopsIn(buf) # {} PROVE Min(StopsIn(buf)) \in 0 .. Len(buf)
    OBVIOUS
  <2>1. StopsIn(buf) \subseteq 0 .. Len(buf)
    BY DEF StopsIn
  <2>2. \E m \in StopsIn(buf) : \A k \in StopsIn(buf) : m <= k
    BY <1>1, <2>1, LeastNat
  <2> QED  BY <2>1, <2>2 DEF Min
<1>5. Passed(t) \in Seq(Letter)
  BY <1>1, <1>2, <1>4, StopLength DEF Passed
<1>6. Held(t) \in Seq(Letter)
  BY <1>1, <1>3, StopLength DEF Held
<1> QED
  BY <1>5, <1>6

-----------------------------------------------------------------------------
(* Text and tool calls: a request that has sent a tool call holds no text   *)
(* back, and the upstream has not said anything is wrong.                   *)
CallPoints == {"tools", "closed"} \cup After

CallInv ==
  /\ text \in Seq(Letter) /\ pend \in Seq(Letter)
  /\ pc \in Before \cup After
  /\ pc = "relay" /\ deaf = FALSE => error = "none"
  /\ pc = "tools" => error = "none"
  /\ calls # <<>> => pc \in CallPoints /\ pend = <<>> /\ error = "none"

(* The invariant of text and tool calls holds at the beginning.             *)
LEMMA CallInit == Init => CallInv
  BY DEF Init, CallInv, Before

(* Every step keeps it, and no step adds text after a tool call.            *)
LEMMA CallStep == CallInv /\ [Next]_vars => CallInv' /\ (calls # <<>> => text' = text)
<1> SUFFICES ASSUME CallInv, [Next]_vars
             PROVE  CallInv' /\ (calls # <<>> => text' = text)
  OBVIOUS
<1> USE DEF CallInv, CallPoints, Before, After
<1>1. CASE UNCHANGED vars
  BY <1>1 DEF vars, upVars, textVars
<1>2. CASE ClientStep
  BY <1>2 DEF ClientStep, ClientLeaves, ClientStalls, ClientReads, upVars, textVars
<1>3. CASE Acquire \/ Prepare \/ Begin
  BY <1>3 DEF Acquire, Prepare, Begin, upVars, textVars
<1>4. CASE Open
  BY <1>4 DEF Open, textVars
<1>5. CASE Event
  <2>1. CASE QueueEvent \/ UsageEvent \/ ErrorEvent
    BY <1>5, <2>1 DEF QueueEvent, UsageEvent, ErrorEvent, Listening, textVars
  <2>2. CASE ReasonEvent
    BY <2>2 DEF ReasonEvent, Listening, Written, GivenUp, textVars
  <2>3. CASE \E t \in Chunk : TextEvent(t)
    <3>1. PICK t \in Chunk : TextEvent(t)
      BY <2>3
    <3>2. t \in Seq(Letter)
      BY RelayAssumption
    <3>3. Passed(t) \in Seq(Letter) /\ Held(t) \in Seq(Letter)
      BY <3>2, FilterType
    <3>4. text' \in Seq(Letter) /\ pend' \in Seq(Letter)
      <4>1. text \o Passed(t) \in Seq(Letter)
        BY <3>3, ConcatProperties
      <4> QED  BY <3>1, <3>3, <4>1 DEF TextEvent, feed, Emit
    <3>5. calls = <<>> /\ calls' = <<>>
      BY <3>1 DEF TextEvent, Listening
    <3> QED  BY <3>1, <3>4, <3>5 DEF TextEvent, Listening, Emit, Written, GivenUp
  <2>4. CASE \E i \in Tool : ToolEvent(i)
    BY <2>4 DEF ToolEvent, Listening, textVars
  <2> QED  BY <1>5, <2>1, <2>2, <2>3, <2>4 DEF Event
<1>6. CASE UpstreamEnds
  BY <1>6 DEF UpstreamEnds, DoneEvent, DoneMark, Close, Listening, upVars, textVars
<1>7. CASE FlushTail
  <2>1. text \o pend \in Seq(Letter)
    BY ConcatProperties
  <2> QED  BY <1>7, <2>1, EmptySeq DEF FlushTail, Emit, Written, GivenUp
<1>8. CASE SendTool \/ ToolsSent
  BY <1>8 DEF SendTool, ToolsSent, Written, GivenUp, textVars
<1>9. CASE Return
  <2>1. pc' \in {"open", "flush", "fail"} /\ (error = "none" => pc' # "open")
    BY <1>9 DEF Return, Refused
  <2> QED  BY <1>9, <2>1 DEF Return, textVars
<1>10. CASE FlushEnd
  <2>1. text \o pend \in Seq(Letter) /\ (calls # <<>> => text \o pend = text)
    BY ConcatProperties, ConcatEmptySeq
  <2> QED  BY <1>10, <2>1, EmptySeq DEF FlushEnd
<1>11. CASE Record \/ Release
  BY <1>11 DEF Record, Release, upVars, textVars
<1>12. CASE Finale \/ FailStream
  BY <1>12 DEF Finale, FailStream, upVars, textVars
<1>13. CASE GiveBack \/ FailAnswer \/ Answer
  BY <1>13 DEF GiveBack, FailAnswer, Answer, upVars, textVars
<1> QED
  BY <1>1, <1>2, <1>3, <1>4, <1>5, <1>6, <1>7, <1>8, <1>9, <1>10, <1>11, <1>12, <1>13
  DEF Next, Free, Handler

(* Once a tool call has been sent no text follows it, for every way the     *)
(* upstream cuts its text and all stop sequences: a client that shows text  *)
(* and calls in the order they come shows them in the upstream's order.     *)
THEOREM NoTextAfterTools == Spec => ToolsAfterText
<1>1. CallInv /\ [Next]_vars => [calls # <<>> => text' = text]_vars
  BY CallStep
<1> QED
  BY <1>1, CallInit, CallStep, PTL DEF Spec, ToolsAfterText

-----------------------------------------------------------------------------
(* The stop filter.  Part of a text, element by element.                    *)
LEMMA Part ==
  ASSUME NEW s \in Seq(Letter), NEW m \in Nat, NEW n \in Nat,
         m > 0, n <= Len(s)
  PROVE  /\ SubSeq(s, m, n) \in Seq(Letter)
         /\ Len(SubSeq(s, m, n)) = IF m <= n THEN n - m + 1 ELSE 0
         /\ \A i \in 1 .. n - m + 1 : SubSeq(s, m, n)[i] = s[m + i - 1]
<1>1. Len(s) \in Nat /\ \A i \in 1 .. Len(s) : s[i] \in Letter
  OBVIOUS
<1>2. \A i \in m .. n : s[i] \in Letter
  BY <1>1
<1> QED
  BY <1>2, SubSeqProperties

(* Where a stop sequence occurs in a text, element by element.              *)
Occurs(s, u, i) == i + Len(u) <= Len(s) /\ \A k \in 1 .. Len(u) : s[i + k] = u[k]

(* StopsIn is the set of these places.                                      *)
LEMMA StopsInOccurs ==
  ASSUME NEW s \in Seq(Letter), NEW i \in Nat
  PROVE  i \in StopsIn(s) <=> \E u \in Stops : Occurs(s, u, i)
<1>1. ASSUME NEW u \in Stops
      PROVE  (i <= Len(s) /\ i + Len(u) <= Len(s) /\ At(s, u, i)) <=> Occurs(s, u, i)
  <2>1. u \in Seq(Letter) /\ Len(u) \in Nat /\ 0 < Len(u)
    BY StopLength
  <2>2. SUFFICES ASSUME i + Len(u) <= Len(s) PROVE At(s, u, i) <=> Occurs(s, u, i)
    BY <2>1, SMTT(20) DEF Occurs
  <2>3. /\ SubSeq(s, i + 1, i + Len(u)) \in Seq(Letter)
        /\ Len(SubSeq(s, i + 1, i + Len(u))) = Len(u)
        /\ \A k \in 1 .. Len(u) : SubSeq(s, i + 1, i + Len(u))[k] = s[i + k]
    BY <2>1, <2>2, Part
  <2>4. At(s, u, i) => Occurs(s, u, i)
    BY <2>2, <2>3 DEF At, Occurs
  <2>5. Occurs(s, u, i) => At(s, u, i)
    BY <2>1, <2>3, SeqEqual DEF At, Occurs
  <2> QED  BY <2>4, <2>5
<1> QED
  BY <1>1 DEF StopsIn

(* A text in which no stop sequence occurs.                                 *)
Clean(s) == StopsIn(s) = {}

(* The first n elements of a text.                                          *)
LEMMA FirstPart ==
  ASSUME NEW s \in Seq(Letter), NEW n \in Nat, n <= Len(s)
  PROVE  /\ SubSeq(s, 1, n) \in Seq(Letter) /\ Len(SubSeq(s, 1, n)) = n
         /\ \A i \in 1 .. n : SubSeq(s, 1, n)[i] = s[i]
<1>1. /\ SubSeq(s, 1, n) \in Seq(Letter)
      /\ Len(SubSeq(s, 1, n)) = IF 1 <= n THEN n - 1 + 1 ELSE 0
      /\ \A i \in 1 .. n - 1 + 1 : SubSeq(s, 1, n)[i] = s[1 + i - 1]
  BY Part
<1>2. ASSUME NEW i \in 1 .. n PROVE i \in 1 .. n - 1 + 1 /\ 1 + i - 1 = i
  OBVIOUS
<1>3. Len(SubSeq(s, 1, n)) = n
  BY <1>1
<1>4. ASSUME NEW i \in 1 .. n PROVE SubSeq(s, 1, n)[i] = s[i]
  BY <1>1, <1>2
<1> QED
  BY <1>1, <1>3, <1>4

(* The heart of the filter: the client's text and what is held back hold no *)
(* stop sequence, and, once the client has text, all that could begin one   *)
(* is held back.  Then no part of the buffer that ends before the end of    *)
(* its first stop sequence completes one in the client's text.              *)
LEMMA NoNewStop ==
  ASSUME NEW a \in Seq(Letter), NEW p \in Seq(Letter), NEW buf \in Seq(Letter),
         NEW t \in Seq(Letter), buf = p \o t,
         Clean(a \o p), a = <<>> \/ Len(p) = HoldMax,
         NEW n \in 0 .. Len(buf), \A j \in StopsIn(buf) : n <= j
  PROVE  Clean(a \o SubSeq(buf, 1, n))
<1> DEFINE b == SubSeq(buf, 1, n)
<1>1. /\ Len(a) \in Nat /\ Len(p) \in Nat /\ Len(buf) \in Nat /\ n \in Nat
      /\ b \in Seq(Letter) /\ Len(b) = n /\ \A i \in 1 .. n : b[i] = buf[i]
  <2>1. /\ Len(a) \in Nat /\ Len(p) \in Nat /\ Len(buf) \in Nat /\ n \in Nat /\ n <= Len(buf)
        /\ buf \in Seq(Letter)
    OBVIOUS
  <2>2. b \in Seq(Letter) /\ Len(b) = n /\ \A i \in 1 .. n : b[i] = buf[i]
    BY ONLY <2>1, FirstPart DEF b
  <2> QED  BY <2>1, <2>2
<1> HIDE DEF b
<1>2. /\ a \o b \in Seq(Letter) /\ Len(a \o b) = Len(a) + n
      /\ \A i \in 1 .. Len(a) + n :
           (a \o b)[i] = IF i <= Len(a) THEN a[i] ELSE b[i - Len(a)]
  <2>1. a \in Seq(Letter)
    OBVIOUS
  <2>2. /\ a \o b \in Seq(Letter) /\ Len(a \o b) = Len(a) + Len(b)
        /\ \A i \in 1 .. Len(a) + Len(b) :
             (a \o b)[i] = IF i <= Len(a) THEN a[i] ELSE b[i - Len(a)]
    BY ONLY <1>1, <2>1, ConcatProperties, Zenon
  <2> QED  BY ONLY <1>1, <2>2, Zenon
<1>3. /\ a \o p \in Seq(Letter) /\ Len(a \o p) = Len(a) + Len(p)
      /\ \A i \in 1 .. Len(a) + Len(p) :
           (a \o p)[i] = IF i <= Len(a) THEN a[i] ELSE p[i - Len(a)]
  BY ConcatProperties
<1>4. Len(buf) >= Len(p) /\ \A i \in 1 .. Len(p) : buf[i] = p[i]
  BY ConcatProperties
<1>5. SUFFICES ASSUME NEW i \in Nat, i \in StopsIn(a \o b) PROVE FALSE
  BY <1>2 DEF Clean, StopsIn, b
<1>6. PICK u \in Stops : Occurs(a \o b, u, i)
  BY <1>2, <1>5, StopsInOccurs
<1>7. Len(u) \in Nat /\ 0 < Len(u) /\ Len(u) <= HoldMax + 1 /\ HoldMax \in Nat
  BY StopLength
<1>8. CASE i >= Len(a)
  <2> DEFINE j == i - Len(a)
  <2>1. j \in Nat /\ j + Len(u) <= n
    <3>1. i + Len(u) <= Len(a) + n /\ i \in Nat
      BY <1>2, <1>6 DEF Occurs
    <3> QED  BY ONLY <1>1, <1>7, <1>8, <3>1
  <2>2. ASSUME NEW k \in 1 .. Len(u) PROVE buf[j + k] = u[k]
    <3>1. PICK m \in Nat : m = i + k
      BY <1>7
    <3>0. k \in Nat /\ 1 <= k /\ k <= Len(u) /\ i \in Nat /\ j = i - Len(a)
      BY <1>7
    <3> HIDE DEF j
    <3>2. /\ m \in 1 .. Len(a) + n /\ ~(m <= Len(a))
          /\ m - Len(a) = j + k /\ j + k \in 1 .. n
      BY ONLY <1>1, <1>7, <1>8, <2>1, <3>0, <3>1
    <3>3. (a \o b)[m] = u[k]
      BY <1>6, <3>1 DEF Occurs
    <3>4. (a \o b)[m] = b[m - Len(a)]
      BY <1>2, <3>2
    <3>5. b[j + k] = buf[j + k]
      BY <1>1, <3>2
    <3> QED  BY <3>2, <3>3, <3>4, <3>5
  <2>3. Occurs(buf, u, j)
    <3>1. j + Len(u) <= Len(buf)
      BY <1>1, <1>7, <2>1
    <3> HIDE DEF j
    <3> QED  BY <3>1, <2>2 DEF Occurs
  <2>4. j \in StopsIn(buf)
    BY <2>1, <2>3, StopsInOccurs
  <2> QED  BY <1>1, <1>7, <2>1, <2>4
<1>9. CASE i < Len(a)
  <2>1. Len(p) = HoldMax
    BY <1>1, <1>9, EmptySeq
  <2>2. i + Len(u) <= Len(a) + Len(p) /\ i + Len(u) <= Len(a) + n
    BY <1>1, <1>2, <1>6, <1>7, <1>9, <2>1 DEF Occurs
  <2>3. ASSUME NEW k \in 1 .. Len(u) PROVE (a \o p)[i + k] = u[k]
    <3>1. PICK m \in Nat : m = i + k
      BY <1>7
    <3>0. k \in Nat /\ 1 <= k /\ k <= Len(u) /\ i \in Nat
      BY <1>7
    <3>2. m \in 1 .. Len(a) + n /\ m \in 1 .. Len(a) + Len(p)
      BY ONLY <1>1, <1>7, <2>2, <3>0, <3>1
    <3>3. (a \o b)[m] = u[k]
      BY <1>6, <3>1 DEF Occurs
    <3>4. CASE m <= Len(a)
      BY <1>2, <1>3, <3>1, <3>2, <3>3, <3>4
    <3>5. CASE ~(m <= Len(a))
      <4>1. m - Len(a) \in 1 .. n /\ m - Len(a) \in 1 .. Len(p)
        BY <1>1, <3>2, <3>5
      <4>2. b[m - Len(a)] = p[m - Len(a)]
        BY <1>1, <1>4, <4>1
      <4>3. (a \o b)[m] = b[m - Len(a)]
        BY <1>2, <3>2, <3>5
      <4>4. (a \o p)[m] = p[m - Len(a)]
        BY <1>3, <3>2, <3>5
      <4> QED  BY <3>1, <3>3, <4>2, <4>3, <4>4
    <3> QED  BY <3>4, <3>5
  <2>4. Occurs(a \o p, u, i)
    BY <1>3, <2>2, <2>3 DEF Occurs
  <2>5. i \in StopsIn(a \o p)
    BY <1>3, <2>4, StopsInOccurs
  <2> QED  BY <2>5 DEF Clean
<1> QED
  BY <1>1, <1>8, <1>9

(* A text is a prefix of what it begins, and stays one when more is said.   *)
LEMMA PrefixOfMore ==
  ASSUME NEW s \in Seq(Letter), NEW r \in Seq(Letter)
  PROVE  /\ IsPrefix(s, s \o r)
         /\ \A a \in Seq(Letter) : IsPrefix(a, s) => IsPrefix(a, s \o r)
<1>1. /\ Len(s) \in Nat /\ s \o r \in Seq(Letter) /\ Len(s \o r) = Len(s) + Len(r)
      /\ Len(r) \in Nat
  BY ConcatProperties
<1>2. ASSUME NEW n \in 0 .. Len(s) PROVE SubSeq(s \o r, 1, n) = SubSeq(s, 1, n)
  <2>1. CASE n = 0
    BY <2>1, SubSeqEmpty
  <2>2. CASE n > 0
    BY <1>1, <2>2, SubSeqOfConcat1
  <2> QED  BY <1>1, <2>1, <2>2
<1>3. ASSUME NEW a \in Seq(Letter), IsPrefix(a, s) PROVE IsPrefix(a, s \o r)
  BY <1>1, <1>2, <1>3 DEF IsPrefix
<1>4. IsPrefix(s, s)
  BY <1>1 DEF IsPrefix
<1> QED
  BY <1>3, <1>4

(* Putting texts together in either order.                                  *)
LEMMA Together == \A x, y, z \in Seq(Letter) : (x \o y) \o z = x \o (y \o z)
  BY ConcatAssociative

(* A text cut in two.                                                       *)
LEMMA Joined ==
  ASSUME NEW s \in Seq(Letter), NEW k \in Nat, NEW n \in Nat, k <= n, n <= Len(s)
  PROVE  SubSeq(s, 1, k) \o SubSeq(s, k + 1, n) = SubSeq(s, 1, n)
<1>1. Len(s) \in Nat
  BY LenProperties
<1>2. 1 \in 1 .. Len(s) + 1 /\ k \in 1 - 1 .. Len(s) /\ n \in k .. Len(s)
  BY <1>1
<1> QED
  BY <1>2, ConcatAdjacentSubSeq

(* A text with a stop sequence in it: what is before it, it, and the rest.  *)
CutAt(s, before, u, rest) == s = (before \o u) \o rest

(* After another text, what is before the stop sequence and it still come   *)
(* first.                                                                   *)
LEMMA CutAfter ==
  ASSUME NEW a \in Seq(Letter), NEW b \in Seq(Letter), NEW u \in Seq(Letter),
         NEW rest \in Seq(Letter), NEW s, CutAt(s, b, u, rest)
  PROVE  IsPrefix((a \o b) \o u, a \o s)
<1>1. b \o u \in Seq(Letter) /\ a \o b \in Seq(Letter)
  BY ConcatProperties
<1>2. \A v \in Seq(Letter) : (a \o v) \o rest = a \o (v \o rest)
  BY Together, ZenonT(60)
<1>3. (a \o b) \o u = a \o (b \o u)
  BY Together, ZenonT(60)
<1>4. a \o s = ((a \o b) \o u) \o rest
  BY <1>1, <1>2, <1>3, ZenonT(60) DEF CutAt
<1>5. (a \o b) \o u \in Seq(Letter)
  BY <1>1, ConcatProperties
<1> QED
  BY <1>4, <1>5, PrefixOfMore

(* One call of feed, on a buffer with a stop sequence in it: what is let    *)
(* through ends where the first one begins.                                 *)
LEMMA FeedStops ==
  ASSUME pend \in Seq(Letter), NEW t \in Seq(Letter), hit = FALSE,
         NEW buf, buf = pend \o t, StopsIn(buf) # {}
  PROVE  \E n \in 0 .. Len(buf) :
           /\ \A j \in StopsIn(buf) : n <= j
           /\ Passed(t) = SubSeq(buf, 1, n)
           /\ \E u \in Stops : \E rest \in Seq(Letter) :
                CutAt(buf, SubSeq(buf, 1, n), u, rest)
<1>1. buf \in Seq(Letter) /\ Len(buf) \in Nat
  BY ConcatProperties
<1>2. StopsIn(buf) \subseteq 0 .. Len(buf)
  BY DEF StopsIn
<1>3. PICK n \in StopsIn(buf) : n = Min(StopsIn(buf)) /\ \A j \in StopsIn(buf) : n <= j
  <2>0. StopsIn(buf) \in SUBSET Nat /\ StopsIn(buf) # {}
    BY <1>1, <1>2
  <2>1. \E m \in StopsIn(buf) : \A k \in StopsIn(buf) : m <= k
    BY ONLY <2>0, LeastNat, Zenon
  <2> QED  BY <2>1 DEF Min
<1>4. Passed(t) = SubSeq(buf, 1, n)
  BY <1>3 DEF Passed
<1>5. PICK u \in Stops : n + Len(u) <= Len(buf) /\ At(buf, u, n)
  BY <1>3 DEF StopsIn
<1>6. u \in Seq(Letter) /\ Len(u) \in Nat /\ n \in Nat /\ n \in 0 .. Len(buf)
  BY <1>1, <1>2, <1>3, StopLength
<1>7. PICK e \in Nat : e = n + Len(u) /\ n <= e /\ e <= Len(buf)
  BY <1>1, <1>5, <1>6
<1>8. SubSeq(buf, e + 1, Len(buf)) \in Seq(Letter)
  BY <1>1, <1>7, Part
<1>9. SubSeq(buf, 1, n) \o u = SubSeq(buf, 1, e)
  <2>1. SubSeq(buf, n + 1, e) = u
    BY <1>5, <1>7 DEF At
  <2>2. SubSeq(buf, 1, n) \o SubSeq(buf, n + 1, e) = SubSeq(buf, 1, e)
    BY ONLY <1>1, <1>6, <1>7, Joined, Zenon
  <2> QED  BY <2>1, <2>2
<1>10. SubSeq(buf, 1, e) \o SubSeq(buf, e + 1, Len(buf)) = buf
  <2>1. SubSeq(buf, 1, e) \o SubSeq(buf, e + 1, Len(buf)) = SubSeq(buf, 1, Len(buf))
    <3>1. Len(buf) <= Len(buf)
      BY <1>1
    <3> QED  BY ONLY <1>1, <1>7, <3>1, Joined, Zenon
  <2>2. SubSeq(buf, 1, Len(buf)) = buf
    BY <1>1, SubSeqFull
  <2> QED  BY <2>1, <2>2
<1> QED
  BY <1>3, <1>4, <1>6, <1>8, <1>9, <1>10 DEF CutAt

(* One call of feed, on a buffer without one: the buffer is split, and only *)
(* a buffer no longer than HoldMax is kept whole.                           *)
LEMMA FeedHolds ==
  ASSUME pend \in Seq(Letter), NEW t \in Seq(Letter), hit = FALSE,
         NEW buf, buf = pend \o t, StopsIn(buf) = {}
  PROVE  /\ \E n \in 0 .. Len(buf) : Passed(t) = SubSeq(buf, 1, n)
         /\ Passed(t) \o Held(t) = buf
         /\ Len(Held(t)) = HoldMax \/ (Passed(t) = <<>> /\ Len(buf) < HoldMax)
<1>1. buf \in Seq(Letter) /\ Len(buf) \in Nat /\ HoldMax \in Nat
  BY ConcatProperties, StopLength
<1>2. CASE Len(buf) <= HoldMax
  <2>1. Passed(t) = <<>> /\ Held(t) = buf
    BY <1>2 DEF Passed, Held
  <2>2. SubSeq(buf, 1, 0) = <<>> /\ 0 \in 0 .. Len(buf)
    BY <1>1, SubSeqEmpty
  <2>3. <<>> \o buf = buf
    BY <1>1, ConcatEmptySeq
  <2>4. Len(buf) = HoldMax \/ Len(buf) < HoldMax
    BY ONLY <1>1, <1>2
  <2> QED  BY ONLY <2>1, <2>2, <2>3, <2>4, Zenon
<1>3. CASE ~(Len(buf) <= HoldMax)
  <2> DEFINE n == Len(buf) - HoldMax
  <2>1. n \in Nat /\ n <= Len(buf) /\ n \in 0 .. Len(buf) /\ Len(buf) <= Len(buf)
    BY <1>1, <1>3
  <2>2. Passed(t) = SubSeq(buf, 1, n) /\ Held(t) = SubSeq(buf, n + 1, Len(buf))
    BY <1>3 DEF Passed, Held
  <2>4. Len(SubSeq(buf, n + 1, Len(buf))) = HoldMax
    BY <1>1, <1>3, <2>1, Part
  <2>5. SubSeq(buf, 1, Len(buf)) = buf
    BY <1>1, SubSeqFull
  <2> HIDE DEF n
  <2>3. SubSeq(buf, 1, n) \o SubSeq(buf, n + 1, Len(buf)) = SubSeq(buf, 1, Len(buf))
    BY ONLY <1>1, <2>1, Joined, Zenon
  <2> QED  BY ONLY <2>1, <2>2, <2>3, <2>4, <2>5, Zenon
<1> QED
  BY <1>2, <1>3

(* One call of feed keeps what the filter promises.                         *)
LEMMA FeedKeeps ==
  ASSUME text \in Seq(Letter), pend \in Seq(Letter), NEW t \in Seq(Letter), t # <<>>,
         hit = FALSE, Clean(text \o pend), text = <<>> \/ Len(pend) = HoldMax
  PROVE  LET more == text \o Passed(t)
         IN /\ Clean(more)
            /\ IF StopsIn(pend \o t) # {}
                 THEN \E u \in Stops : IsPrefix(more \o u, (text \o pend) \o t)
                 ELSE /\ Clean(more \o Held(t))
                      /\ more = <<>> \/ Len(Held(t)) = HoldMax
                      /\ more \o Held(t) = (text \o pend) \o t
<1>0. pend \in Seq(Letter) /\ t \in Seq(Letter) /\ hit = FALSE
  OBVIOUS
<1>1. PICK buf : buf = pend \o t
  OBVIOUS
<1>2. buf \in Seq(Letter) /\ Len(buf) \in Nat /\ Len(buf) = Len(pend) + Len(t)
  BY <1>1, ConcatProperties
<1>3. text \o buf = (text \o pend) \o t
  BY <1>1, Together, ZenonT(60)
<1>4. ASSUME NEW n \in 0 .. Len(buf), \A j \in StopsIn(buf) : n <= j
      PROVE  Clean(text \o SubSeq(buf, 1, n))
  BY <1>1, <1>2, <1>4, NoNewStop
<1>5. CASE StopsIn(buf) # {}
  <2>0. PICK n \in 0 .. Len(buf) :
           /\ \A j \in StopsIn(buf) : n <= j
           /\ Passed(t) = SubSeq(buf, 1, n)
           /\ \E u \in Stops : \E rest \in Seq(Letter) :
                CutAt(buf, SubSeq(buf, 1, n), u, rest)
    BY <1>0, <1>1, <1>5, FeedStops
  <2>1. PICK u \in Stops, rest \in Seq(Letter) : CutAt(buf, Passed(t), u, rest)
    BY <2>0
  <2>2. Passed(t) \in Seq(Letter) /\ u \in Seq(Letter)
    BY FilterType, StopLength
  <2>3. Clean(text \o Passed(t))
    BY <1>4, <2>0
  <2>4. IsPrefix((text \o Passed(t)) \o u, text \o buf)
    BY <2>1, <2>2, CutAfter
  <2>5. IsPrefix((text \o Passed(t)) \o u, (text \o pend) \o t)
    BY <1>3, <2>4
  <2> QED  BY <1>1, <1>5, <2>3, <2>5
<1>6. CASE StopsIn(buf) = {}
  <2>1. /\ \E n \in 0 .. Len(buf) : Passed(t) = SubSeq(buf, 1, n)
        /\ Passed(t) \o Held(t) = buf
        /\ Len(Held(t)) = HoldMax \/ (Passed(t) = <<>> /\ Len(buf) < HoldMax)
    BY <1>1, <1>6, FeedHolds
  <2>2. Passed(t) \in Seq(Letter) /\ Held(t) \in Seq(Letter)
    BY FilterType
  <2>3. Clean(text \o Passed(t))
    BY <1>4, <1>6, <2>1
  <2>4. (text \o Passed(t)) \o Held(t) = text \o buf
    <3>1. text \in Seq(Letter)
      OBVIOUS
    <3>2. (text \o Passed(t)) \o Held(t) = text \o (Passed(t) \o Held(t))
      BY ONLY <2>2, <3>1, Together, ZenonT(60)
    <3> QED  BY <2>1, <3>2
  <2>5. Clean(text \o buf)
    <3>1. Len(buf) \in 0 .. Len(buf) /\ SubSeq(buf, 1, Len(buf)) = buf
      BY <1>2, SubSeqFull
    <3> QED  BY <1>4, <1>6, <3>1
  <2>6. text \o Passed(t) = <<>> \/ Len(Held(t)) = HoldMax
    <3>1. SUFFICES ASSUME Len(Held(t)) # HoldMax PROVE text \o Passed(t) = <<>>
      OBVIOUS
    <3>2. Passed(t) = <<>> /\ Len(buf) < HoldMax
      BY <2>1, <3>1
    <3>3. Len(pend) # HoldMax
      <4>1. Len(pend) \in Nat /\ Len(t) \in Nat /\ HoldMax \in Nat
        BY StopLength
      <4> QED  BY ONLY <4>1, <1>2, <3>2
    <3>4. text = <<>> /\ text \o Passed(t) = text
      BY <3>2, <3>3, ConcatEmptySeq
    <3> QED  BY <3>4
  <2> QED  BY <1>1, <1>3, <1>6, <2>3, <2>4, <2>5, <2>6
<1> QED
  BY <1>5, <1>6

-----------------------------------------------------------------------------
(* The client's text.  As long as the upstream may still say something, the *)
(* filter holds back all that could begin a stop sequence: it is FeedKeeps  *)
(* that needs this.  Once tool calls are sent it holds back nothing.        *)
Hears == pc \in {"start", "held", "begin", "open", "relay"} \/ (pc = "closed" /\ error # "none")

Fresh == pc \in {"start", "held", "begin"}

FilterInv ==
  /\ said \in Seq(Letter)
  /\ hit \in BOOLEAN /\ gone \in BOOLEAN
  /\ gone => streaming
  /\ Fresh => gone = FALSE
  /\ hit => pend = <<>>
  /\ Clean(text)
  /\ gone \/ hit \/ Clean(text \o pend)
  /\ Hears => gone \/ hit \/ text = <<>> \/ Len(pend) = HoldMax
  /\ gone \/ IF hit THEN \E u \in Stops : IsPrefix(text \o u, said)
                    ELSE text \o pend = said

(* No stop sequence occurs in no text.                                      *)
LEMMA EmptyClean == Clean(<<>>)
<1>1. <<>> \in Seq(Letter) /\ Len(<<>>) = 0
  BY EmptySeq
<1>2. ASSUME NEW i \in Nat, i \in StopsIn(<<>>) PROVE FALSE
  <2>1. PICK u \in Stops : Occurs(<<>>, u, i)
    BY <1>1, <1>2, StopsInOccurs
  <2>2. Len(u) \in Nat /\ 0 < Len(u)
    BY StopLength
  <2> QED  BY ONLY <1>1, <2>1, <2>2, <1>2 DEF Occurs
<1>3. StopsIn(<<>>) \subseteq Nat
  BY <1>1 DEF StopsIn
<1> QED
  BY <1>2, <1>3 DEF Clean

(* The invariant of the client's text holds at the beginning.               *)
LEMMA FilterInit == Init => FilterInv
<1> SUFFICES ASSUME Init PROVE FilterInv
  OBVIOUS
<1>1. <<>> \in Seq(Letter) /\ <<>> \o <<>> = <<>>
  BY EmptySeq, ConcatEmptySeq
<1> QED
  BY <1>1, EmptyClean DEF Init, FilterInv, Fresh

(* An event with text keeps it.                                             *)
LEMMA FilterText ==
  ASSUME CallInv, FilterInv, NEW t \in Chunk, TextEvent(t)
  PROVE  FilterInv'
<1>1. t \in Seq(Letter) /\ t # <<>> /\ text \in Seq(Letter) /\ pend \in Seq(Letter)
  BY RelayAssumption DEF CallInv
<1>2. /\ said' = said \o t /\ said' \in Seq(Letter)
      /\ pend' = Held(t) /\ hit' = (hit \/ StopsIn(pend \o t) # {})
      /\ streaming' = streaming /\ hit' \in BOOLEAN
  BY <1>1, ConcatProperties DEF FilterInv, TextEvent, feed
<1>3. Passed(t) \in Seq(Letter) /\ Held(t) \in Seq(Letter)
  BY <1>1, FilterType
<1>4. \/ gone' = gone /\ text' = text \o Passed(t)
      \/ gone' = gone /\ gone = TRUE /\ text' = text
      \/ gone' = TRUE /\ text' = text /\ streaming
  <2>1. Passed(t) = <<>> => text \o Passed(t) = text
    BY <1>1, ConcatEmptySeq
  <2> QED  BY <2>1 DEF TextEvent, Emit, Written, GivenUp
<1>5. gone' \in BOOLEAN /\ (gone' => streaming') /\ (gone => gone')
  <2>1. gone \in BOOLEAN /\ (gone => streaming)
    BY DEF FilterInv
  <2>2. CASE gone' = gone
    BY <1>2, <2>1, <2>2
  <2>3. CASE gone' = TRUE /\ streaming
    BY <1>2, <2>3
  <2> QED  BY <1>4, <2>2, <2>3
<1>6. gone => text' = text
  <2>1. Emit(Passed(t))
    BY DEF TextEvent
  <2>2. Passed(t) = <<>> \/ ~gone \/ text' = text
    BY <2>1 DEF Emit, Written, CanWrite, FilterInv
  <2>3. Passed(t) = <<>> => text' = text
    BY <2>1 DEF Emit
  <2> QED  BY <2>2, <2>3
<1>7. (hit' => pend' = <<>>) /\ ~Fresh'
  BY <1>2 DEF Held, Fresh, TextEvent, Listening, Emit, Written, GivenUp
<1>8. CASE gone
  <2>1. gone' = TRUE /\ text' = text
    BY <1>4, <1>5, <1>6, <1>8 DEF FilterInv
  <2>2. Clean(text)'
    BY <2>1 DEF FilterInv, Clean, StopsIn, At
  <2> QED  BY <1>2, <1>5, <1>7, <2>1, <2>2 DEF FilterInv
<1>9. CASE ~gone /\ hit
  <2>1. Passed(t) = <<>> /\ hit' = TRUE
    BY <1>2, <1>9 DEF Passed
  <2>2. text' = text
    BY <2>1 DEF TextEvent, Emit
  <2>3. Clean(text)'
    BY <2>2 DEF FilterInv, Clean, StopsIn, At
  <2>4. \E u \in Stops : IsPrefix(text \o u, said)
    BY <1>9 DEF FilterInv
  <2>5. ASSUME NEW u \in Stops, IsPrefix(text \o u, said) PROVE IsPrefix(text \o u, said \o t)
    <3>1. text \o u \in Seq(Letter) /\ said \in Seq(Letter)
      BY <1>1, StopLength, ConcatProperties DEF FilterInv
    <3> QED  BY <1>1, <2>5, <3>1, PrefixOfMore
  <2>6. \E u \in Stops : IsPrefix(text' \o u, said')
    BY <1>2, <2>2, <2>4, <2>5
  <2> QED  BY <1>2, <1>5, <1>7, <2>1, <2>3, <2>6 DEF FilterInv
<1>10. CASE ~gone /\ ~hit
  <2>1. /\ hit = FALSE /\ Clean(text \o pend) /\ text \o pend = said
        /\ text = <<>> \/ Len(pend) = HoldMax
    BY <1>10 DEF FilterInv, Hears, TextEvent, Listening
  <2>2. LET more == text \o Passed(t)
        IN /\ Clean(more)
           /\ IF StopsIn(pend \o t) # {}
                THEN \E u \in Stops : IsPrefix(more \o u, (text \o pend) \o t)
                ELSE /\ Clean(more \o Held(t))
                     /\ more = <<>> \/ Len(Held(t)) = HoldMax
                     /\ more \o Held(t) = (text \o pend) \o t
    BY <1>1, <2>1, FeedKeeps
  <2>3. CASE gone' = TRUE /\ text' = text
    <3>1. Clean(text)'
      BY <2>3 DEF FilterInv, Clean, StopsIn, At
    <3> QED  BY <1>2, <1>5, <1>7, <2>3, <3>1 DEF FilterInv
  <2>4. CASE text' = text \o Passed(t)
    <3>1. Clean(text)'
      BY <2>2, <2>4 DEF Clean, StopsIn, At
    <3>2. CASE StopsIn(pend \o t) # {}
      <4>1. hit' = TRUE /\ \E u \in Stops : IsPrefix(text' \o u, said')
        BY <1>2, <2>1, <2>2, <2>4, <3>2
      <4> QED  BY <1>2, <1>5, <1>7, <3>1, <4>1 DEF FilterInv
    <3>3. CASE StopsIn(pend \o t) = {}
      <4>1. hit' = FALSE /\ text' \o pend' = said' /\ (text' = <<>> \/ Len(pend') = HoldMax)
        BY <1>2, <2>1, <2>2, <2>4, <3>3
      <4>2. Clean(text \o pend)'
        BY <1>2, <2>2, <2>4, <3>3 DEF Clean, StopsIn, At
      <4> QED  BY <1>2, <1>5, <1>7, <3>1, <4>1, <4>2 DEF FilterInv, HoldMax
    <3> QED  BY <3>2, <3>3
  <2> QED  BY <1>4, <1>10, <2>3, <2>4
<1> QED
  BY <1>8, <1>9, <1>10

(* Every step keeps it.                                                     *)
LEMMA FilterStep == CallInv /\ FilterInv /\ [Next]_vars => FilterInv'
<1> SUFFICES ASSUME CallInv, FilterInv, [Next]_vars PROVE FilterInv'
  OBVIOUS
<1>0. text \in Seq(Letter) /\ pend \in Seq(Letter) /\ gone \in BOOLEAN /\ hit \in BOOLEAN
  BY DEF CallInv, FilterInv
<1>a. ASSUME UNCHANGED textVars, UNCHANGED gone, UNCHANGED streaming, Hears' => Hears,
             Fresh' => Fresh
      PROVE  FilterInv'
  BY <1>a DEF textVars, FilterInv, Clean, StopsIn, At, HoldMax
<1>b. ASSUME UNCHANGED textVars, UNCHANGED streaming, gone' \in BOOLEAN, gone => gone',
             gone' => streaming, Hears' => Hears, ~Fresh'
      PROVE  FilterInv'
  BY <1>b DEF textVars, FilterInv, Clean, StopsIn, At, HoldMax
<1>c. ASSUME pend' = <<>>, UNCHANGED <<said, hit, streaming>>, ~Hears', ~Fresh',
             \/ gone' = gone /\ text' = text \o pend /\ (gone => pend = <<>>)
             \/ gone' = TRUE /\ text' = text /\ streaming
      PROVE  FilterInv'
  <2>1. text \o <<>> = text /\ <<>> \in Seq(Letter) /\ text \o pend \in Seq(Letter)
    BY <1>0, ConcatEmptySeq, ConcatProperties, EmptySeq
  <2>2. (text \o pend) \o <<>> = text \o pend
    BY <2>1, ConcatEmptySeq
  <2>3. CASE gone' = TRUE /\ text' = text
    <3>1. Clean(text)'
      BY <2>3 DEF FilterInv, Clean, StopsIn, At
    <3>2. gone' => streaming'
      BY <1>c, <2>3 DEF FilterInv
    <3> QED  BY <1>c, <2>3, <3>1, <3>2 DEF FilterInv
  <2>4. CASE gone' = gone /\ text' = text \o pend /\ (gone => pend = <<>>)
    <3>1. Clean(text \o pend)
      BY <2>1, <2>4 DEF FilterInv
    <3>2. Clean(text)' /\ Clean(text \o pend)'
      BY <1>c, <2>2, <2>4, <3>1 DEF Clean, StopsIn, At
    <3>3. gone' \/ IF hit' THEN \E u \in Stops : IsPrefix(text' \o u, said')
                           ELSE text' \o pend' = said'
      BY <1>c, <2>1, <2>2, <2>4 DEF FilterInv
    <3> QED  BY <1>c, <2>4, <3>2, <3>3 DEF FilterInv
  <2> QED  BY <1>c, <2>3, <2>4
<1> USE DEF Hears, Fresh
<1>1. CASE UNCHANGED vars
  BY <1>1, <1>a DEF vars, clientVars, upVars
<1>2. CASE ClientStep
  BY <1>2, <1>a DEF ClientStep, ClientLeaves, ClientStalls, ClientReads, upVars
<1>3. CASE Acquire \/ Prepare
  BY <1>3, <1>a DEF Acquire, Prepare, clientVars, upVars
<1>4. CASE Begin
  <2>1. gone = FALSE /\ Hears /\ ~Fresh'
    BY <1>4 DEF Begin, FilterInv
  <2>2. gone' \in BOOLEAN
    BY <1>4 DEF Begin
  <2>3. gone' => streaming
    BY <1>4, <2>1 DEF Begin
  <2> QED  BY <1>4, <1>b, <2>1, <2>2, <2>3 DEF Begin
<1>5. CASE Open
  BY <1>5, <1>a DEF Open, clientVars
<1>6. CASE Event
  <2>1. CASE QueueEvent \/ UsageEvent \/ ErrorEvent
    BY <2>1, <1>a DEF QueueEvent, UsageEvent, ErrorEvent, Listening, clientVars
  <2>2. CASE ReasonEvent
    <3>1. Hears /\ ~Fresh' /\ UNCHANGED <<textVars, streaming>>
      BY <2>2 DEF ReasonEvent, Listening, Written, GivenUp
    <3>2. UNCHANGED gone \/ (gone' = TRUE /\ streaming)
      BY <2>2 DEF ReasonEvent, Written, GivenUp
    <3>3. (gone => streaming) /\ ~Fresh
      BY <2>2 DEF ReasonEvent, Listening, FilterInv
    <3>4. CASE UNCHANGED gone
      BY <1>a, <3>1, <3>4
    <3>5. CASE gone' = TRUE /\ streaming
      BY <1>b, <3>1, <3>5
    <3> QED  BY <3>2, <3>4, <3>5
  <2>3. CASE \E t \in Chunk : TextEvent(t)
    BY <2>3, FilterText
  <2>4. CASE \E i \in Tool : ToolEvent(i)
    BY <2>4, <1>a DEF ToolEvent, clientVars
  <2> QED  BY <1>6, <2>1, <2>2, <2>3, <2>4 DEF Event
<1>7. CASE UpstreamEnds
  BY <1>7, <1>a DEF UpstreamEnds, DoneEvent, DoneMark, Close, Listening, clientVars, upVars
<1>8. CASE FlushTail
  <2>1. error = "none" /\ error' = "none"
    BY <1>8 DEF FlushTail, CallInv
  <2>2. ~Hears' /\ ~Fresh'
    BY <1>8, <2>1 DEF FlushTail, Emit, Written, GivenUp
  <2>3. \/ gone' = gone /\ text' = text \o pend /\ (gone => pend = <<>>)
        \/ gone' = TRUE /\ text' = text /\ streaming
    BY <1>8 DEF FlushTail, Emit, Written, GivenUp, CanWrite, FilterInv
  <2> QED  BY <1>8, <1>c, <2>2, <2>3 DEF FlushTail
<1>9. CASE SendTool \/ ToolsSent
  <2>1. error = "none" /\ error' = "none"
    BY <1>9 DEF SendTool, ToolsSent, CallInv
  <2>2. ~Hears'
    BY <1>9, <2>1 DEF SendTool, ToolsSent, Written, GivenUp
  <2>3. UNCHANGED gone \/ (gone' = TRUE /\ streaming)
    BY <1>9 DEF SendTool, ToolsSent, Written, GivenUp, clientVars
  <2>4. UNCHANGED <<pend, hit, said, text, streaming>> /\ ~Fresh'
    BY <1>9 DEF SendTool, ToolsSent, textVars, clientVars, Written, GivenUp
  <2>5. CASE UNCHANGED gone
    BY <2>2, <2>4, <2>5 DEF FilterInv, Clean, StopsIn, At, HoldMax
  <2>6. CASE gone' = TRUE /\ streaming
    BY <2>2, <2>4, <2>6 DEF FilterInv, Clean, StopsIn, At, HoldMax
  <2> QED  BY <2>3, <2>5, <2>6
<1>10. CASE Return
  <2>1. (Hears' => Hears) /\ (Fresh' => Fresh)
    BY <1>10 DEF Return, Refused
  <2> QED  BY <1>10, <1>a, <2>1 DEF Return, clientVars
<1>11. CASE FlushEnd
  <2>1. ~Hears' /\ ~Fresh'
    BY <1>11 DEF FlushEnd
  <2>2. \/ gone' = gone /\ text' = text \o pend /\ (gone => pend = <<>>)
        \/ gone' = TRUE /\ text' = text /\ streaming
    BY <1>11 DEF FlushEnd, CanWrite, FilterInv
  <2> QED  BY <1>11, <1>c, <2>1, <2>2 DEF FlushEnd
<1>12. CASE Record \/ Release \/ GiveBack \/ FailAnswer \/ Answer
  BY <1>12, <1>a DEF Record, Release, GiveBack, FailAnswer, Answer, clientVars, upVars
<1>13. CASE Finale \/ FailStream
  <2>1. gone' \in BOOLEAN /\ (gone => gone') /\ (gone' => streaming) /\ ~Hears' /\ ~Fresh'
    BY <1>13 DEF Finale, FailStream, EndWith, FilterInv
  <2> QED  BY <1>13, <1>b, <2>1 DEF Finale, FailStream
<1> QED
  BY <1>1, <1>2, <1>3, <1>4, <1>5, <1>6, <1>7, <1>8, <1>9, <1>10, <1>11, <1>12, <1>13
  DEF Next, Free, Handler

(* The client's text holds no stop sequence and is the upstream's up to the *)
(* first, for every way the upstream cuts its text into events, every set   *)
(* of stop sequences and over a retry.                                      *)
THEOREM TextIsCut == Spec => []StopCut
<1>1. FilterInv => StopCut
  BY DEF FilterInv, StopCut, Clean
<1>2. CallInv /\ FilterInv /\ [Next]_vars => (CallInv /\ FilterInv)'
  BY CallStep, FilterStep
<1>3. Init => CallInv /\ FilterInv
  BY CallInit, FilterInit
<1> QED
  BY <1>1, <1>2, <1>3, PTL DEF Spec

-----------------------------------------------------------------------------
(* The end of the answer: what the program points tell about how the        *)
(* upstream ended, and what is in place of the client's ending.             *)
AttemptInv ==
  /\ attempt \in Nat
  /\ Fresh => attempt = 0
  /\ pc \notin {"start", "held", "begin", "open", "answer", "over"} => attempt > 0

PointInv ==
  /\ Fresh => done = "no" /\ aborted = FALSE
  /\ pc \in {"relay", "tools"} => done = "no" /\ aborted = FALSE
  /\ aborted = FALSE \/ (aborted = TRUE /\ gone = TRUE)
  /\ done # "no" => error = "none"
  /\ pc \in {"flush", "record", "release", "finale"} => aborted = TRUE \/ done # "no"
  /\ pc \in {"record", "release", "finale"} \/ (pc = "over" /\ done # "no") => pend = <<>>
  /\ pc \in {"fail", "giveback", "answer"} => done = "no"

EndInv ==
  /\ pc = "giveback" /\ ~gone => streaming /\ ending = <<"error", "DONE">>
  /\ pc = "answer" => attempt = 0 \/ ~streaming
  /\ pc = "over" /\ ~gone =>
       ending = CASE attempt = 0 -> <<"refused">>
                  [] done # "no" -> IF streaming THEN <<"final", "DONE">> ELSE <<"answer">>
                  [] OTHER       -> IF streaming THEN <<"error", "DONE">> ELSE <<"failure">>

(* The tool calls that are sent are in order, and before all that are not.  *)
OrderInv ==
  /\ native \subseteq Nat /\ calls \in Seq(Nat)
  /\ \A i \in 1 .. Len(calls) : calls[i] \in native
  /\ Increasing(calls)
  /\ \A i \in 1 .. Len(calls) : \A n \in native \ ToSet(calls) : calls[i] < n
  /\ done = "event" => native \subseteq ToSet(calls)

LEMMA PointInit == Init => AttemptInv /\ PointInv /\ EndInv
<1> SUFFICES ASSUME Init PROVE AttemptInv /\ PointInv /\ EndInv
  OBVIOUS
<1>1. AttemptInv
  BY DEF Init, AttemptInv, Fresh
<1>2. PointInv
  BY DEF Init, PointInv
<1>3. EndInv
  BY DEF Init, EndInv
<1> QED
  BY <1>1, <1>2, <1>3

LEMMA OrderInit == Init => OrderInv
<1> SUFFICES ASSUME Init PROVE OrderInv
  OBVIOUS
<1>1. calls = <<>> /\ Len(calls) = 0 /\ calls \in Seq(Nat)
  BY EmptySeq DEF Init
<1> QED
  BY <1>1 DEF Init, OrderInv, Increasing

LEMMA AttemptStep == AttemptInv /\ [Next]_vars => AttemptInv'
<1> SUFFICES ASSUME AttemptInv, [Next]_vars PROVE AttemptInv'
  OBVIOUS
<1> USE DEF AttemptInv, Fresh
<1>1. CASE Open
  BY <1>1 DEF Open
<1>2. attempt' = attempt \/ Open
  BY DEF Next, Free, Handler, Event, UpstreamEnds, vars, ClientStep, ClientLeaves, ClientStalls,
     ClientReads, Acquire, Prepare, Begin, QueueEvent,
     UsageEvent, ReasonEvent, ErrorEvent, TextEvent, ToolEvent, DoneEvent, DoneMark, Close, FlushTail,
     SendTool, ToolsSent, Return, FlushEnd, Record, Release, Finale, FailStream, GiveBack, FailAnswer, Answer
<1>3. \/ pc' = pc \/ pc' \in {"answer", "over"} \/ Acquire \/ Prepare \/ Begin \/ Open
      \/ pc \notin {"start", "held", "begin", "open", "answer", "over"} /\ ~Fresh'
  BY DEF Next, Free, Handler, Event, UpstreamEnds, vars, ClientStep, ClientLeaves, ClientStalls,
     ClientReads, QueueEvent, Listening, Emit, Written, GivenUp,
     UsageEvent, ReasonEvent, ErrorEvent, TextEvent, ToolEvent, DoneEvent, DoneMark, Close, FlushTail,
     SendTool, ToolsSent, Return, FlushEnd, Record, Release, Finale, FailStream, GiveBack, FailAnswer, Answer
<1>4. CASE Acquire \/ Prepare \/ Begin
  BY <1>4 DEF Acquire, Prepare, Begin
<1> QED
  BY <1>1, <1>2, <1>3, <1>4

LEMMA PointStep == CallInv /\ PointInv /\ [Next]_vars => PointInv'
<1> SUFFICES ASSUME CallInv, PointInv, [Next]_vars PROVE PointInv'
  OBVIOUS
<1> USE DEF PointInv, Fresh
<1>0. error = "none" \/ ~Listening
  BY DEF CallInv, Listening
<1>a. ASSUME UNCHANGED <<aborted, gone, done, error, pend>>, pc' = pc PROVE PointInv'
  BY <1>a
<1>1. CASE UNCHANGED vars
  BY <1>1, <1>a DEF vars, clientVars, upVars, textVars
<1>2. CASE ClientStep
  BY <1>2, <1>a DEF ClientStep, ClientLeaves, ClientStalls, ClientReads, upVars, textVars
<1>3. CASE Acquire \/ Prepare \/ Begin
  <2>1. /\ Fresh /\ UNCHANGED <<aborted, done, error, pend>>
        /\ pc' \in {"held", "begin", "open", "answer", "over"}
    BY <1>3 DEF Acquire, Prepare, Begin, upVars, textVars
  <2> QED  BY <2>1
<1>4. CASE Open
  <2>1. done' = "no" /\ aborted' = FALSE /\ pc' \in {"relay", "closed"}
    BY <1>4 DEF Open
  <2> QED  BY <2>1
<1>5. CASE Event
  <2>1. CASE QueueEvent \/ UsageEvent
    BY <2>1, <1>a DEF QueueEvent, UsageEvent, clientVars, textVars
  <2>2. CASE ErrorEvent
    BY <2>2 DEF ErrorEvent, Listening, clientVars, textVars
  <2>3. CASE ReasonEvent \/ \E t \in Chunk : TextEvent(t)
    <3>1. /\ pc = "relay" /\ UNCHANGED <<done, error>>
          /\ \/ UNCHANGED <<pc, gone, aborted>>
             \/ gone' = TRUE /\ aborted' = TRUE /\ pc' = "closed"
      BY <2>3 DEF ReasonEvent, TextEvent, Listening, Emit, Written, GivenUp
    <3> QED  BY <3>1
  <2>4. CASE \E i \in Tool : ToolEvent(i)
    BY <2>4, <1>a DEF ToolEvent, clientVars, textVars
  <2> QED  BY <1>5, <2>1, <2>2, <2>3, <2>4 DEF Event
<1>6. CASE UpstreamEnds
  <2>1. CASE DoneEvent
    BY <2>1 DEF DoneEvent, Listening, clientVars, textVars
  <2>2. CASE DoneMark
    BY <1>0, <2>2 DEF DoneMark, Listening, clientVars, textVars
  <2>3. CASE Close
    BY <2>3 DEF Close, clientVars, upVars, textVars
  <2> QED  BY <1>6, <2>1, <2>2, <2>3 DEF UpstreamEnds
<1>7. CASE FlushTail \/ SendTool
  <2>1. /\ pc = "tools" /\ UNCHANGED <<done, error>>
        /\ \/ UNCHANGED <<pc, gone, aborted>>
           \/ gone' = TRUE /\ aborted' = TRUE /\ pc' = "closed"
    BY <1>7 DEF FlushTail, SendTool, Emit, Written, GivenUp
  <2> QED  BY <2>1
<1>8. CASE ToolsSent
  <2>1. /\ pc = "tools" /\ pc' = "closed" /\ error = "none" /\ done' = "event"
        /\ UNCHANGED <<error, aborted, gone>>
    BY <1>8 DEF ToolsSent, CallInv, clientVars
  <2> QED  BY <2>1
<1>9. CASE Return
  <2>1. /\ pc = "closed" /\ pc' \in {"open", "flush", "fail"}
        /\ pc' = "flush" => aborted = TRUE \/ done # "no"
        /\ pc' = "fail" => done = "no"
    BY <1>9 DEF Return, Refused, Ok
  <2> QED  BY <1>9, <2>1 DEF Return, clientVars, textVars
<1>10. CASE FlushEnd
  <2>1. /\ pc = "flush" /\ pc' = "record" /\ pend' = <<>> /\ UNCHANGED <<done, error>>
        /\ UNCHANGED <<gone, aborted>> \/ (gone' = TRUE /\ aborted' = TRUE)
    BY <1>10 DEF FlushEnd
  <2> QED  BY <2>1
<1>11. CASE Record \/ Release \/ GiveBack \/ FailAnswer \/ Answer
  <2>1. UNCHANGED <<aborted, gone, done, error, pend>>
    BY <1>11 DEF Record, Release, GiveBack, FailAnswer, Answer, clientVars, upVars, textVars
  <2>2. \/ pc = "record" /\ pc' = "release"
        \/ pc = "release" /\ pc' = "finale"
        \/ pc \in {"fail", "giveback", "answer"} /\ pc' \in {"answer", "over"}
    BY <1>11 DEF Record, Release, GiveBack, FailAnswer, Answer
  <2> QED  BY <2>1, <2>2
<1>12. CASE Finale \/ FailStream
  <2>1. UNCHANGED <<aborted, done, error, pend>>
    BY <1>12 DEF Finale, FailStream, upVars, textVars
  <2>2. (pc = "finale" /\ pc' = "over") \/ (pc = "fail" /\ pc' = "giveback")
    BY <1>12 DEF Finale, FailStream
  <2>3. gone = TRUE => gone' = TRUE
    BY <1>12 DEF Finale, FailStream, EndWith
  <2> QED  BY <2>1, <2>2, <2>3
<1> QED
  BY <1>1, <1>2, <1>3, <1>4, <1>5, <1>6, <1>7, <1>8, <1>9, <1>10, <1>11, <1>12
  DEF Next, Free, Handler

(* Frames that find the client there are all written.                       *)
LEMMA AllWritten ==
  ASSUME NEW a, NEW b, EndWith(<<a, b>>), ~gone'
  PROVE  ~gone /\ ending' = <<a, b>>
<1>1. Len(<<a, b>>) = 2 /\ <<a, b>> \in Seq({a, b})
  OBVIOUS
<1>2. PICK n \in 0 .. Len(<<a, b>>) :
        /\ ending' = SubSeq(<<a, b>>, 1, n)
        /\ gone' = (gone \/ n < Len(<<a, b>>))
  BY DEF EndWith
<1>3. ~gone /\ ~(n < Len(<<a, b>>))
  BY ONLY <1>2, ~gone', Zenon
<1>4. n = Len(<<a, b>>)
  BY ONLY <1>1, <1>3, n \in 0 .. Len(<<a, b>>), SMT
<1>5. SubSeq(<<a, b>>, 1, Len(<<a, b>>)) = <<a, b>>
  BY <1>1, SubSeqFull
<1> QED  BY <1>2, <1>3, <1>4, <1>5

(* The ending is written last, on each path for what it says.               *)
LEMMA EndStep == CallInv /\ AttemptInv /\ PointInv /\ EndInv /\ [Next]_vars => EndInv'
<1> SUFFICES ASSUME CallInv, AttemptInv, PointInv, EndInv, [Next]_vars PROVE EndInv'
  OBVIOUS
<1>1. CASE UNCHANGED <<pc, attempt, gone, streaming, done, ending>>
  BY <1>1 DEF EndInv
<1>2. CASE pc' \notin {"giveback", "answer", "over"}
  BY <1>2 DEF EndInv
<1>3. CASE Acquire \/ Prepare
  BY <1>3, <1>2 DEF Acquire, Prepare, EndInv, AttemptInv, PointInv, Fresh, upVars, clientVars
<1>4. CASE Begin
  BY <1>4, <1>2 DEF Begin, EndInv
<1>5. CASE Finale
  <2>1. pc' = "over" /\ UNCHANGED <<attempt, done, streaming, aborted>>
    BY <1>5 DEF Finale, upVars
  <2>2. ASSUME ~gone'
        PROVE  ~gone /\ ending' = IF streaming THEN <<"final", "DONE">> ELSE <<"answer">>
    BY <1>5, <2>2, AllWritten DEF Finale
  <2>3. ASSUME ~gone PROVE attempt > 0 /\ done # "no"
    BY <1>5, <2>3 DEF Finale, AttemptInv, PointInv
  <2> QED  BY <2>1, <2>2, <2>3 DEF EndInv, PointInv
<1>6. CASE FailStream
  <2>1. pc' = "giveback" /\ streaming /\ streaming' = streaming
    BY <1>6 DEF FailStream
  <2>2. ~gone' => ending' = <<"error", "DONE">>
    BY <1>6, AllWritten DEF FailStream
  <2> QED  BY <2>1, <2>2 DEF EndInv
<1>7. CASE GiveBack
  <2>1. attempt > 0 /\ done = "no" /\ attempt \in Nat
    BY <1>7 DEF GiveBack, AttemptInv, PointInv
  <2>2. /\ pc = "giveback" /\ pc' = "over"
        /\ UNCHANGED <<attempt, done, streaming, gone, ending>>
    BY <1>7 DEF GiveBack, clientVars, upVars
  <2> QED  BY <2>1, <2>2 DEF EndInv
<1>8. CASE FailAnswer
  BY <1>8 DEF FailAnswer, EndInv, clientVars
<1>9. CASE Answer
  <2>1. /\ pc = "answer" /\ pc' = "over" /\ done = "no" /\ attempt \in Nat
        /\ ending' = IF attempt = 0 THEN <<"refused">> ELSE <<"failure">>
        /\ UNCHANGED <<attempt, done, streaming>>
    BY <1>9 DEF Answer, AttemptInv, PointInv, clientVars, upVars
  <2> QED  BY <2>1 DEF EndInv
<1>10. CASE UNCHANGED vars \/ ClientStep
  BY <1>10, <1>1 DEF vars, ClientStep, ClientLeaves, ClientStalls, ClientReads, clientVars, upVars
<1>11. CASE Open \/ Return \/ FlushEnd \/ Record \/ Release
  BY <1>11, <1>2 DEF Open, Return, FlushEnd, Record, Release
<1>12. CASE Event
  BY <1>12, <1>2 DEF Event, QueueEvent, UsageEvent, ErrorEvent, ReasonEvent, TextEvent, ToolEvent,
     Listening, Emit, Written, GivenUp
<1>13. CASE UpstreamEnds
  BY <1>13, <1>2 DEF UpstreamEnds, DoneEvent, DoneMark, Close
<1>14. CASE FlushTail \/ SendTool \/ ToolsSent
  BY <1>14, <1>2 DEF FlushTail, SendTool, ToolsSent, Emit, Written, GivenUp
<1> QED
  BY <1>3, <1>4, <1>5, <1>6, <1>7, <1>8, <1>9, <1>10, <1>11, <1>12, <1>13, <1>14
  DEF Next, Free, Handler

(* The call that is sent next comes after all that were sent and before all *)
(* that remain.                                                             *)
LEMMA SentInOrder ==
  ASSUME OrderInv, Unsent # {}, NEW n, n = Min(Unsent),
         calls' = Append(calls, n), UNCHANGED <<native, done>>, done = "no"
  PROVE  OrderInv'
<1>1. n \in native /\ n \in Nat /\ n \notin ToSet(calls) /\ \A m \in native \ ToSet(calls) : n <= m
  <2>1. Unsent \in SUBSET Nat
    BY DEF OrderInv, Unsent
  <2>2. \E m \in Unsent : \A k \in Unsent : m <= k
    BY <2>1, LeastNat
  <2>3. n \in Unsent /\ \A k \in Unsent : n <= k
    BY <2>2 DEF Min
  <2> QED  BY <2>1, <2>3 DEF Unsent
<1>2. /\ calls \in Seq(Nat) /\ calls' \in Seq(Nat) /\ Len(calls) \in Nat
      /\ Len(calls') = Len(calls) + 1
      /\ \A i \in 1 .. Len(calls) : calls'[i] = calls[i]
      /\ calls'[Len(calls) + 1] = n
  BY <1>1, AppendProperties DEF OrderInv
<1>3. ASSUME NEW i \in 1 .. Len(calls') PROVE (i \in 1 .. Len(calls)) \/ (i = Len(calls) + 1)
  BY <1>2, <1>3
<1>4. ToSet(calls) \subseteq ToSet(calls') /\ n \in ToSet(calls')
  <2>1. 1 .. Len(calls) \subseteq 1 .. Len(calls') /\ Len(calls) + 1 \in 1 .. Len(calls')
    BY <1>2
  <2> QED  BY <1>2, <2>1 DEF ToSet
<1>5. \A i \in 1 .. Len(calls') : calls'[i] \in native'
  BY <1>1, <1>2, <1>3 DEF OrderInv
<1>6. \A i \in 1 .. Len(calls) : calls[i] < n
  BY <1>1 DEF OrderInv
<1>7. Increasing(calls)'
  <2> SUFFICES ASSUME NEW i \in 1 .. Len(calls'), NEW j \in 1 .. Len(calls'), i < j
               PROVE  calls'[i] < calls'[j]
    BY DEF Increasing
  <2>1. i \in 1 .. Len(calls)
    BY <1>2
  <2>2. CASE j \in 1 .. Len(calls)
    BY <1>2, <2>1, <2>2 DEF OrderInv, Increasing
  <2>3. CASE j = Len(calls) + 1
    BY <1>2, <1>6, <2>1, <2>3
  <2> QED  BY <1>3, <2>2, <2>3
<1>8. ASSUME NEW i \in 1 .. Len(calls'), NEW m \in native' \ ToSet(calls')
      PROVE  calls'[i] < m
  <2>1. m \in native \ ToSet(calls) /\ m # n /\ m \in Nat
    BY <1>4 DEF OrderInv
  <2>2. n < m
    BY <1>1, <2>1
  <2>3. CASE i \in 1 .. Len(calls)
    BY <1>2, <2>1, <2>3 DEF OrderInv
  <2>4. CASE i = Len(calls) + 1
    BY <1>2, <2>2, <2>4
  <2> QED  BY <1>3, <2>3, <2>4
<1> QED
  BY <1>2, <1>5, <1>7, <1>8 DEF OrderInv

LEMMA OrderStep == CallInv /\ PointInv /\ OrderInv /\ [Next]_vars => OrderInv'
<1> SUFFICES ASSUME CallInv, PointInv, OrderInv, [Next]_vars PROVE OrderInv'
  OBVIOUS
<1>a. ASSUME UNCHANGED <<calls, native, done>> PROVE OrderInv'
  BY <1>a DEF OrderInv, Increasing, ToSet
<1>b. ASSUME calls = <<>>, calls' = <<>>, native' \subseteq Nat, done' # "event" PROVE OrderInv'
  <2>1. Len(calls') = 0 /\ calls' \in Seq(Nat)
    BY <1>b, EmptySeq
  <2> QED  BY <1>b, <2>1 DEF OrderInv, Increasing
<1>c. pc \in {"open", "relay"} => calls = <<>>
  BY DEF CallInv, CallPoints, After
<1>1. CASE UNCHANGED vars \/ ClientStep \/ Acquire \/ Prepare \/ Begin
  BY <1>1, <1>a DEF vars, ClientStep, ClientLeaves, ClientStalls, ClientReads, Acquire, Prepare,
     Begin, upVars, textVars
<1>2. CASE Open
  BY <1>2, <1>b, <1>c DEF Open, textVars
<1>3. CASE QueueEvent \/ UsageEvent \/ ErrorEvent \/ ReasonEvent
  BY <1>3, <1>a DEF QueueEvent, UsageEvent, ErrorEvent, ReasonEvent, textVars
<1>4. CASE \E t \in Chunk : TextEvent(t)
  BY <1>4, <1>a DEF TextEvent
<1>5. CASE \E i \in Tool : ToolEvent(i)
  <2>1. native' \subseteq Nat /\ done' # "event" /\ calls = <<>> /\ calls' = <<>>
    BY <1>5, <1>c, RelayAssumption DEF ToolEvent, Listening, OrderInv, PointInv, textVars
  <2> QED  BY <1>b, <2>1
<1>6. CASE DoneEvent \/ Close
  BY <1>6, <1>a DEF DoneEvent, Close, upVars, textVars
<1>7. CASE DoneMark
  <2>1. native' \subseteq Nat /\ done' # "event" /\ calls = <<>> /\ calls' = <<>>
    BY <1>7, <1>c DEF DoneMark, Listening, OrderInv, textVars
  <2> QED  BY <1>b, <2>1
<1>8. CASE FlushTail \/ Return \/ FlushEnd \/ Record \/ Release
  BY <1>8, <1>a DEF FlushTail, Return, FlushEnd, Record, Release, upVars, textVars
<1>9. CASE Finale \/ FailStream \/ GiveBack \/ FailAnswer \/ Answer
  BY <1>9, <1>a DEF Finale, FailStream, GiveBack, FailAnswer, Answer, upVars, textVars
<1>10. CASE SendTool
  <2>1. done = "no" /\ UNCHANGED <<native, done>> /\ Unsent # {}
    BY <1>10 DEF SendTool, PointInv
  <2>2. CASE UNCHANGED calls
    BY <1>a, <2>1, <2>2
  <2>3. CASE calls' = Append(calls, Min(Unsent))
    BY <2>1, <2>3, SentInOrder
  <2> QED  BY <1>10, <2>2, <2>3 DEF SendTool
<1>11. CASE ToolsSent
  <2>1. native \subseteq ToSet(calls) /\ UNCHANGED <<calls, native>>
    BY <1>11 DEF ToolsSent, Unsent, textVars
  <2> QED  BY <2>1 DEF OrderInv, Increasing, ToSet
<1> QED
  BY <1>1, <1>2, <1>3, <1>4, <1>5, <1>6, <1>7, <1>8, <1>9, <1>10, <1>11
  DEF Next, Free, Handler, Event, UpstreamEnds

(* A client that stays is told the truth about the end (EndingIsTrue), for  *)
(* every upstream, over a retry, and for any number of tool calls.          *)
THEOREM EndIsTold == Spec => []EndingIsTrue
<1>1. CallInv /\ FilterInv /\ AttemptInv /\ PointInv /\ EndInv /\ OrderInv => EndingIsTrue
  <2> SUFFICES ASSUME CallInv, FilterInv, AttemptInv, PointInv, EndInv, OrderInv, pc = "over", ~gone
               PROVE  EndingIsTrue
    BY DEF EndingIsTrue
  <2>1. ASSUME done # "no" PROVE hit \/ text = said
    <3>1. pend = <<>> /\ text \o <<>> = text
      BY <2>1, ConcatEmptySeq DEF PointInv, CallInv
    <3> QED  BY <3>1 DEF FilterInv
  <2>2. ASSUME done = "event" PROVE ToSet(calls) = native
    <3>1. ToSet(calls) \subseteq native
      BY DEF OrderInv, ToSet
    <3> QED  BY <2>2, <3>1 DEF OrderInv
  <2> QED  BY <2>1, <2>2 DEF EndingIsTrue, EndInv, OrderInv
<1>2. CallInv /\ FilterInv /\ AttemptInv /\ PointInv /\ EndInv /\ OrderInv /\ [Next]_vars
        => (CallInv /\ FilterInv /\ AttemptInv /\ PointInv /\ EndInv /\ OrderInv)'
  BY CallStep, FilterStep, AttemptStep, PointStep, EndStep, OrderStep
<1>3. Init => CallInv /\ FilterInv /\ AttemptInv /\ PointInv /\ EndInv /\ OrderInv
  BY CallInit, FilterInit, PointInit, OrderInit
<1> QED
  BY <1>1, <1>2, <1>3, PTL DEF Spec

-----------------------------------------------------------------------------
(***************************************************************************)
(* What is asked of the upstream.  The settings may be replaced between any *)
(* two steps; what is sent depends on them, what is promised of it does not. *)
(***************************************************************************)
LevelsOf(c) == ToSet(c.options) \cup ToSet(c.ext)

LEMMA LevelsAreNamed == ASSUME NEW c \in ModelCaps PROVE "" \notin LevelsOf(c)
<1>1. c.options \in Seq(Level) /\ c.ext \in Seq(Level)
  BY DEF ModelCaps
<1>2. ASSUME NEW s \in Seq(Level) PROVE "" \notin ToSet(s)
  <2>1. \A i \in DOMAIN s : s[i] \in Level
    BY <1>2
  <2> QED  BY <2>1 DEF ToSet, Level
<1> QED
  BY <1>1, <1>2 DEF LevelsOf

(* A level the model offers is passed on, any other is not.                 *)
LEMMA EffortIs ==
  ASSUME NEW c \in ModelCaps, NEW want
  PROVE  /\ clampEffort(c, want) \in LevelsOf(c) \cup {c.default, ""}
         /\ c.thinking /\ want \in LevelsOf(c) => clampEffort(c, want) = want
<1>1. "" \notin LevelsOf(c)
  BY LevelsAreNamed
<1>2. CASE ~c.thinking
  BY <1>2 DEF clampEffort
<1>3. CASE c.thinking /\ want = ""
  BY <1>1, <1>3 DEF clampEffort
<1>4. CASE c.thinking /\ want # ""
  <2>1. clampEffort(c, want) = IF want \in LevelsOf(c) THEN want ELSE ""
    BY <1>4 DEF clampEffort, LevelsOf
  <2> QED  BY <2>1
<1> QED
  BY <1>2, <1>3, <1>4

(* Numbers out of a list have a largest.                                    *)
LEMMA ListIsBounded ==
  ASSUME NEW s \in Seq(Int)
  PROVE  \E b \in Int : \A i \in 1 .. Len(s) : s[i] <= b
<1> DEFINE Bounded(k) == \E b \in Int : \A i \in 1 .. k : s[i] <= b
<1> DEFINE Unbounded == {k \in 0 .. Len(s) : ~Bounded(k)}
<1>0. Len(s) \in Nat /\ \A i \in 1 .. Len(s) : s[i] \in Int
  OBVIOUS
<1>1. SUFFICES ASSUME ~Bounded(Len(s)) PROVE FALSE
  OBVIOUS
<1>2. Unbounded \subseteq Nat /\ Unbounded # {}
  <2> HIDE DEF Bounded
  <2>1. Len(s) \in 0 .. Len(s)
    BY <1>0
  <2>2. Len(s) \in Unbounded
    BY <1>1, <2>1
  <2> QED  BY <1>0, <2>2
<1>3. PICK k \in Unbounded : \A n \in Unbounded : k <= n
  <2> HIDE DEF Unbounded
  <2> QED  BY <1>2, LeastNat
<1>4. k \in 0 .. Len(s) /\ ~Bounded(k)
  BY <1>3
<1>5. k # 0
  <2>1. Bounded(0)
    OBVIOUS
  <2> QED  BY <1>4, <2>1
<1>6. k - 1 \in 0 .. Len(s) /\ k \in 1 .. Len(s) /\ k - 1 < k /\ k \in Int /\ k - 1 \in Int
  BY <1>0, <1>4, <1>5
<1>7. Bounded(k - 1)
  <2>1. k - 1 \notin Unbounded
    <3> HIDE DEF Unbounded
    <3> QED  BY <1>3, <1>6
  <2> HIDE DEF Bounded
  <2> QED  BY <1>6, <2>1
<1>8. PICK b \in Int : \A i \in 1 .. k - 1 : s[i] <= b
  BY <1>7
<1>9. s[k] \in Int
  BY <1>0, <1>6
<1>10. PICK d \in Int : b <= d /\ s[k] <= d
  <2> DEFINE v == s[k]
  <2>1. v \in Int
    BY <1>9
  <2> HIDE DEF v
  <2>2. \E d \in Int : b <= d /\ v <= d
    <3>1. CASE v <= b
      BY <3>1
    <3>2. CASE ~(v <= b)
      <4>1. b <= v /\ v <= v
        BY <2>1, <3>2
      <4> QED  BY <2>1, <4>1
    <3> QED  BY <3>1, <3>2
  <2> QED  BY <2>2 DEF v
<1>11. ASSUME NEW i \in 1 .. k PROVE s[i] <= d
  <2>1. i \in 1 .. k - 1 \/ i = k
    BY <1>6
  <2>2. CASE i \in 1 .. k - 1
    <3>1. i \in 1 .. Len(s)
      BY <1>0, <1>6, <2>2
    <3>2. s[i] \in Int /\ s[i] <= b
      BY <1>0, <1>8, <2>2, <3>1
    <3> HIDE DEF Bounded, Unbounded
    <3> QED  BY <1>10, <3>2
  <2>3. CASE i = k
    BY <1>10, <2>3
  <2> QED  BY <2>1, <2>2, <2>3
<1>12. Bounded(k)
  BY <1>10, <1>11
<1> HIDE DEF Bounded
<1> QED
  BY <1>4, <1>12

LEMMA LargestIsOne ==
  ASSUME NEW s \in Seq(Int), NEW S, S \subseteq ToSet(s), S # {}
  PROVE  Max(S) \in S
<1>1. PICK b \in Int : \A i \in 1 .. Len(s) : s[i] <= b
  BY ListIsBounded
<1>2. \A x \in S : x \in Int /\ x <= b
  <2> SUFFICES ASSUME NEW x \in S PROVE x \in Int /\ x <= b
    OBVIOUS
  <2>1. PICK i \in 1 .. Len(s) : x = s[i]
    BY DEF ToSet
  <2> QED  BY <1>1, <2>1
<1> DEFINE Below == {b - x : x \in S}
<1>3. Below \subseteq Nat /\ Below # {}
  BY <1>2
<1>4. PICK l \in Below : \A n \in Below : l <= n
  <2> HIDE DEF Below
  <2> QED  BY <1>3, LeastNat
<1>5. PICK m \in S : l = b - m
  BY <1>4
<1>6. \A y \in S : m >= y
  <2> SUFFICES ASSUME NEW y \in S PROVE m >= y
    OBVIOUS
  <2>1. l <= b - y
    BY <1>4
  <2>2. m \in Int /\ y \in Int
    BY <1>2
  <2> QED  BY <1>5, <2>1, <2>2
<1> QED
  BY <1>6 DEF Max

LEMMA BestIs ==
  ASSUME NEW c \in ModelCaps, NEW limit
  PROVE  Best(c, limit) = 0 \/ (Best(c, limit) \in ToSet(c.maxWindows) /\ Best(c, limit) \in Int)
<1>1. c.maxWindows \in Seq(Int)
  BY DEF ModelCaps
<1> DEFINE s == c.maxWindows
<1> HIDE DEF s
<1>2. s \in Seq(Int)
  BY <1>1 DEF s
<1>3. CASE s = <<>>
  BY <1>3 DEF Best, s
<1>4. CASE s # <<>>
  <2>1. Head(s) \in ToSet(s)
    <3>1. 1 \in DOMAIN s /\ Head(s) = s[1]
      BY <1>2, <1>4
    <3> QED  BY <3>1 DEF ToSet
  <2>2. Fitting(c, limit) \subseteq ToSet(s) /\ Fitting(c, limit) # {}
    BY <2>1 DEF Fitting, s
  <2>3. Max(Fitting(c, limit)) \in Fitting(c, limit)
    BY <1>2, <2>2, LargestIsOne
  <2>4. Best(c, limit) = Max(Fitting(c, limit))
    BY <1>4 DEF Best, s
  <2>5. \A x \in ToSet(s) : x \in Int
    BY <1>2 DEF ToSet
  <2>6. Best(c, limit) \in ToSet(s) /\ Best(c, limit) \in Int
    BY <2>2, <2>3, <2>4, <2>5
  <2> QED  BY <2>6 DEF s
<1> QED
  BY <1>3, <1>4

(* A window the model has, and none but for a Max request.                  *)
LEMMA MaxModeIs ==
  ASSUME NEW c \in ModelCaps, NEW want, NEW limit
  PROVE  LET m == clampMaxMode(c, want, limit) IN
         /\ m.max \in BOOLEAN
         /\ m.max => c.max /\ m.window # 0 /\ m.window \in ToSet(c.maxWindows) \cup {1000}
         /\ want = TRUE /\ c.max => m.max
         /\ want = FALSE => ~m.max
<1> DEFINE m == clampMaxMode(c, want, limit)
<1> DEFINE b == Best(c, limit)
<1>1. CASE want /\ c.max
  <2> DEFINE w == IF b > 0 THEN b ELSE 1000
  <2>1. m = [max |-> TRUE, window |-> w]
    BY <1>1 DEF clampMaxMode
  <2>2. b = 0 \/ (b \in ToSet(c.maxWindows) /\ b \in Int)
    BY BestIs
  <2> HIDE DEF b
  <2>3. w # 0 /\ w \in ToSet(c.maxWindows) \cup {1000}
    <3>1. CASE b > 0
      BY <2>2, <3>1
    <3>2. CASE ~(b > 0)
      BY <3>2
    <3> QED  BY <3>1, <3>2
  <2> HIDE DEF w
  <2>4. m.max = TRUE /\ m.window = w
    BY <2>1
  <2> HIDE DEF m
  <2>5. m.max \in BOOLEAN /\ m.max
    BY <2>4
  <2>6. m.window # 0 /\ m.window \in ToSet(c.maxWindows) \cup {1000}
    BY ONLY <2>3, <2>4
  <2>7. c.max /\ want # FALSE
    BY <1>1
  <2>8. /\ m.max \in BOOLEAN
        /\ m.max => c.max /\ m.window # 0 /\ m.window \in ToSet(c.maxWindows) \cup {1000}
        /\ want = TRUE /\ c.max => m.max
        /\ want = FALSE => ~m.max
    BY ONLY <2>5, <2>6, <2>7, ZenonT(30)
  <2> QED  BY <2>8 DEF m
<1>2. CASE ~(want /\ c.max)
  <2>1. m.max = FALSE
    BY <1>2 DEF clampMaxMode
  <2> HIDE DEF m
  <2>2. m.max \in BOOLEAN /\ ~m.max
    BY <2>1
  <2>3. ~(want = TRUE /\ c.max)
    BY <1>2
  <2> QED  BY <2>2, <2>3 DEF m
<1> QED
  BY <1>1, <1>2

(* A model that is found is one of the account's.                           *)
LEMMA FoundIsModel ==
  ASSUME NEW name, get(name) # None
  PROVE  get(name) \in ToSet(Models)
<1> DEFINE N == {i \in 1 .. Len(Models) : Models[i].config = name}
<1> DEFINE K == {i \in 1 .. Len(Models) : <<name, Models[i].display>> \in NamePart}
<1> DEFINE n == IF N # {} THEN Min(N) ELSE 0
<1> DEFINE k == IF K # {} THEN Min(K) ELSE 0
<1>1. get(name) = IF n > 0 THEN Models[n] ELSE IF k > 0 THEN Models[k] ELSE None
  BY DEF get, SelectInSeq
<1>2. Models \in Seq(ModelCaps)
  BY SettingsAssumption
<1>3. ASSUME NEW I, I \subseteq 1 .. Len(Models), I # {} PROVE Min(I) \in I
  <2>1. I \subseteq Nat
    BY <1>3
  <2>2. PICK l \in I : \A x \in I : l <= x
    BY <1>3, <2>1, LeastNat
  <2> QED  BY <2>2 DEF Min
<1>4. \A i \in 1 .. Len(Models) : Models[i] \in ToSet(Models)
  BY <1>2 DEF ToSet
<1>5. n > 0 => n \in 1 .. Len(Models)
  BY <1>3
<1>6. k > 0 => k \in 1 .. Len(Models)
  <2>1. K \subseteq 1 .. Len(Models)
    OBVIOUS
  <2> HIDE DEF K, N
  <2>2. CASE K = {}
    BY <2>2
  <2>3. CASE K # {}
    <3>1. Min(K) \in K /\ k = Min(K)
      BY <1>3, <2>1, <2>3
    <3> QED  BY <2>1, <3>1
  <2> QED  BY <2>2, <2>3
<1> HIDE DEF n, k
<1> QED
  BY <1>1, <1>4, <1>5, <1>6

-----------------------------------------------------------------------------
(* What the settings were resolved to is what the model offers and what the *)
(* client wants of it.                                                      *)
Resolved(c, w, r) ==
  /\ r.config = c.config
  /\ r.effort \in LevelsOf(c) \cup {c.default, ""}
  /\ c.thinking /\ w.effort \in LevelsOf(c) => r.effort = w.effort
  /\ r.max \in BOOLEAN
  /\ r.max => c.max /\ r.window # 0 /\ r.window \in ToSet(c.maxWindows) \cup {1000}
  /\ w.max = TRUE /\ c.max => r.max
  /\ w.max = FALSE => ~r.max

SettingsInv ==
  /\ at \in {"settings", "look", "enabled", "send"} => caps \in ToSet(Models)
  /\ at \in {"look", "enabled", "send"} => Resolved(caps, wish, rs)
  /\ SentIsOffered

LEMMA ModelsHaveCaps == ASSUME NEW c \in ToSet(Models) PROVE c \in ModelCaps
BY SettingsAssumption DEF ToSet

LEMMA ResolveStep == SettingsInv /\ resolveSettings => SettingsInv'
<1> SUFFICES ASSUME SettingsInv, resolveSettings PROVE SettingsInv'
  OBVIOUS
<1> DEFINE mc     == modelConfig(held, caps.config)
           effort == IF wish.effort # "" THEN wish.effort
                     ELSE IF mc # None /\ mc.effort # "" THEN mc.effort ELSE held.effort
           own    == IF mc = None THEN held.max
                     ELSE IF ~mc.max /\ ~mc.present THEN held.max ELSE mc.max
           limit  == IF mc # None /\ mc.window # 0 THEN mc.window ELSE held.window
           want   == IF wish.max = None THEN own ELSE wish.max
           m      == clampMaxMode(caps, want, limit)
           e      == clampEffort(caps, effort)
<1>1. /\ at = "settings" /\ at' \in {"look", "send"} /\ caps' = caps /\ wish' = wish
      /\ rs' = [config |-> caps.config, effort |-> e, max |-> m.max, window |-> m.window]
  BY DEF resolveSettings
<1>2. caps \in ToSet(Models) /\ caps \in ModelCaps
  BY <1>1, ModelsHaveCaps DEF SettingsInv
<1>3. wish.effort # "" => effort = wish.effort
  OBVIOUS
<1>4. (wish.max = TRUE => want = TRUE) /\ (wish.max = FALSE => want = FALSE)
  BY SettingsAssumption
<1> HIDE DEF mc, effort, own, limit, want
<1>5. /\ e \in LevelsOf(caps) \cup {caps.default, ""}
      /\ caps.thinking /\ wish.effort \in LevelsOf(caps) => e = wish.effort
  <2>1. "" \notin LevelsOf(caps)
    BY <1>2, LevelsAreNamed
  <2>2. /\ e \in LevelsOf(caps) \cup {caps.default, ""}
        /\ caps.thinking /\ effort \in LevelsOf(caps) => e = effort
    BY <1>2, EffortIs
  <2> QED  BY <1>3, <2>1, <2>2
<1>6. /\ m.max \in BOOLEAN
      /\ m.max => caps.max /\ m.window # 0 /\ m.window \in ToSet(caps.maxWindows) \cup {1000}
      /\ want = TRUE /\ caps.max => m.max
      /\ want = FALSE => ~m.max
  BY <1>2, MaxModeIs
<1> HIDE DEF e, m
<1>7. rs'.config = caps.config /\ rs'.effort = e /\ rs'.max = m.max /\ rs'.window = m.window
  BY <1>1
<1>8. Resolved(caps, wish, rs')
  <2> DEFINE r == rs'
  <2>1. r.config = caps.config /\ r.effort = e /\ r.max = m.max /\ r.window = m.window
    BY <1>7
  <2> HIDE DEF r
  <2>2. /\ r.config = caps.config
        /\ r.effort \in LevelsOf(caps) \cup {caps.default, ""}
        /\ caps.thinking /\ wish.effort \in LevelsOf(caps) => r.effort = wish.effort
    BY <1>5, <2>1
  <2>3. /\ r.max \in BOOLEAN
        /\ r.max => caps.max /\ r.window # 0 /\ r.window \in ToSet(caps.maxWindows) \cup {1000}
    BY <1>6, <2>1
  <2>4. (wish.max = TRUE /\ caps.max => r.max) /\ (wish.max = FALSE => ~r.max)
    BY <1>4, <1>6, <2>1
  <2>5. Resolved(caps, wish, r)
    BY ONLY <2>2, <2>3, <2>4, ZenonT(30) DEF Resolved
  <2> QED  BY <2>5 DEF r
<1>9. Resolved(caps, wish, rs)'
  BY <1>1, <1>8
<1>10. SentIsOffered'
  BY ONLY <1>1 DEF SentIsOffered
<1> QED
  BY ONLY <1>1, <1>2, <1>9, <1>10 DEF SettingsInv

(* The parts of SentIsOffered: what c offers of the body b, given the wish w *)
OffersModel(c, b) ==
  LET known == IF c.model = "" THEN c.config ELSE c.model
  IN /\ b.config = c.config
     /\ b.model \in IF b.window = 0 THEN {known} ELSE {known, c.maxModel}
OffersLevel(c, b, w) ==
  /\ b.effort \in LevelsOf(c) \cup {c.default, ""}
  /\ c.thinking /\ w.effort \in LevelsOf(c) => b.effort = w.effort
OffersWindow(c, b, w) ==
  /\ b.window # 0 => c.max /\ b.window \in ToSet(c.maxWindows) \cup {1000}
  /\ w.max = TRUE /\ c.max => b.window # 0 /\ (c.maxModel # "" => b.model = c.maxModel)
  /\ w.max = FALSE => b.window = 0
OffersTools(b, w) ==
  /\ w.choice.type = "none" => {t.name : t \in b.tools} = {}
  /\ w.choice.type = "function" /\ w.choice.name # "" =>
       {t.name : t \in b.tools} \subseteq {w.choice.name}
Offered(b, w) ==
  \E c \in ToSet(Models) :
    OffersModel(c, b) /\ OffersLevel(c, b, w) /\ OffersWindow(c, b, w) /\ OffersTools(b, w)

LEMMA SentIsOfferedIs == (at = "sent" => Offered(body, wish)) => SentIsOffered
BY ZenonT(30) DEF SentIsOffered, Offered, OffersModel, OffersLevel, OffersWindow, OffersTools, LevelsOf

LEMMA SendStep == SettingsInv /\ Send => SettingsInv'
<1> SUFFICES ASSUME SettingsInv, Send PROVE SettingsInv'
  OBVIOUS
<1> DEFINE m     == IF rs.max /\ caps.maxModel # "" THEN caps.maxModel ELSE caps.model
           plain == IF caps.model = "" THEN caps.config ELSE caps.model
           tools == normalizeOpenAiTools(wish.tools, wish.choice)
<1>1. /\ at = "send" /\ at' = "sent" /\ caps' = caps /\ wish' = wish
      /\ body' = [config |-> rs.config, model |-> IF m = "" THEN rs.config ELSE m,
                  window |-> IF rs.max THEN rs.window ELSE 0, effort |-> rs.effort, tools |-> tools]
  BY DEF Send
<1>2. caps \in ToSet(Models) /\ Resolved(caps, wish, rs)
  BY <1>1 DEF SettingsInv
<1>3. /\ wish.choice.type = "none" => tools = {}
      /\ wish.choice.type = "function" /\ wish.choice.name # "" =>
           \A t \in tools : t.name = wish.choice.name
  BY DEF normalizeOpenAiTools
<1> HIDE DEF tools
<1>4. /\ body'.config = rs.config /\ body'.model = (IF m = "" THEN rs.config ELSE m)
      /\ body'.window = (IF rs.max THEN rs.window ELSE 0) /\ body'.effort = rs.effort
      /\ body'.tools = tools
  BY <1>1
<1>15. /\ rs.config = caps.config /\ rs.max \in BOOLEAN
       /\ rs.max => caps.max /\ rs.window # 0 /\ rs.window \in ToSet(caps.maxWindows) \cup {1000}
       /\ wish.max = TRUE /\ caps.max => rs.max
       /\ wish.max = FALSE => ~rs.max
       /\ rs.effort \in LevelsOf(caps) \cup {caps.default, ""}
       /\ caps.thinking /\ wish.effort \in LevelsOf(caps) => rs.effort = wish.effort
  BY <1>2 DEF Resolved
<1> DEFINE b == body'
<1>16. /\ b.config = rs.config /\ b.model = (IF m = "" THEN rs.config ELSE m)
       /\ b.window = (IF rs.max THEN rs.window ELSE 0) /\ b.effort = rs.effort
  BY <1>4
<1> HIDE DEF b
<1>5. b.model = IF rs.max /\ caps.maxModel # "" THEN caps.maxModel ELSE plain
  BY ONLY <1>15, <1>16, ZenonT(30)
<1> HIDE DEF m, plain
<1>17. rs.max => b.window = rs.window
  BY <1>16
<1>18. ~rs.max => b.window = 0
  BY <1>16
<1>19. rs.max => caps.max /\ rs.window # 0 /\ rs.window \in ToSet(caps.maxWindows) \cup {1000}
  BY <1>15
<1>20. wish.max = TRUE /\ caps.max => rs.max
  BY <1>15
<1>6. b.window # 0 <=> rs.max
  BY ONLY <1>17, <1>18, <1>19
<1>7. b.config = caps.config
  BY <1>15, <1>16
<1>8. b.model \in IF b.window = 0 THEN {plain} ELSE {plain, caps.maxModel}
  BY <1>5, <1>6
<1>9. /\ b.effort \in LevelsOf(caps) \cup {caps.default, ""}
      /\ caps.thinking /\ wish.effort \in LevelsOf(caps) => b.effort = wish.effort
  BY <1>15, <1>16
<1>10. b.window # 0 => caps.max /\ b.window \in ToSet(caps.maxWindows) \cup {1000}
  BY ONLY <1>6, <1>17, <1>19
<1>11. wish.max = TRUE /\ caps.max =>
         b.window # 0 /\ (caps.maxModel # "" => b.model = caps.maxModel)
  BY ONLY <1>5, <1>6, <1>20
<1>12. wish.max = FALSE => b.window = 0
  <2>1. wish.max = FALSE => ~rs.max
    BY <1>15
  <2> QED  BY ONLY <2>1, <1>18
<1>13. /\ wish.choice.type = "none" => {t.name : t \in body'.tools} = {}
       /\ wish.choice.type = "function" /\ wish.choice.name # "" =>
            {t.name : t \in body'.tools} \subseteq {wish.choice.name}
  BY <1>3, <1>4
<1>14. plain = IF caps.model = "" THEN caps.config ELSE caps.model
  BY DEF plain
<1>21. OffersModel(caps, b) /\ OffersLevel(caps, b, wish) /\ OffersWindow(caps, b, wish)
  <2>1. OffersModel(caps, b)
    BY ONLY <1>7, <1>8, <1>14 DEF OffersModel
  <2>2. OffersLevel(caps, b, wish)
    BY ONLY <1>9 DEF OffersLevel
  <2>3. OffersWindow(caps, b, wish)
    BY ONLY <1>10, <1>11, <1>12, ZenonT(30) DEF OffersWindow
  <2> QED  BY <2>1, <2>2, <2>3
<1>22. OffersTools(b, wish)
  BY <1>13 DEF OffersTools, b
<1>23. Offered(b, wish)
  BY <1>2, <1>21, <1>22 DEF Offered
<1>24. Offered(body, wish)'
  BY <1>1, <1>23 DEF b
<1>25. SentIsOffered'
  BY <1>24, SentIsOfferedIs, PTL
<1> QED
  BY <1>1, <1>25 DEF SettingsInv

LEMMA NameStep == SettingsInv /\ resolveConfigName => SettingsInv'
<1> SUFFICES ASSUME SettingsInv, resolveConfigName PROVE SettingsInv'
  OBVIOUS
<1>1. at' = "refused" \/ (at' = "settings" /\ caps' \in ToSet(Models))
  <2> DEFINE mc   == modelConfig(settings, wish.model)
             want == IF mc = None THEN wish.model ELSE mc.name
  <2>1. \/ at' = "refused"
        \/ get(want) # None /\ at' = "settings" /\ caps' = get(want)
    BY DEF resolveConfigName
  <2> HIDE DEF want
  <2> QED  BY <2>1, FoundIsModel
<1>2. SentIsOffered'
  BY ONLY <1>1 DEF SentIsOffered
<1> QED
  BY ONLY <1>1, <1>2 DEF SettingsInv

(* The invariant of a request's settings; it says nothing of the settings   *)
(* themselves, so that a set in between cannot disturb it.                  *)
THEOREM SettingsInvariance == SettingsSpec => []SettingsInv
<1>1. SettingsInit => SettingsInv
  BY DEF SettingsInit, SettingsInv, SentIsOffered
<1>2. SettingsInv /\ [SettingsNext]_settingVars => SettingsInv'
  <2> SUFFICES ASSUME SettingsInv, [SettingsNext]_settingVars PROVE SettingsInv'
    OBVIOUS
  <2>1. CASE set \/ UNCHANGED settingVars
    <3>1. at' = at /\ caps' = caps /\ wish' = wish /\ rs' = rs /\ body' = body
      BY <2>1 DEF set, settingVars
    <3>2. SentIsOffered' <=> SentIsOffered
      BY <3>1 DEF SentIsOffered
    <3>3. Resolved(caps, wish, rs)' <=> Resolved(caps, wish, rs)
      BY <3>1
    <3> QED  BY <3>1, <3>2, <3>3 DEF SettingsInv
  <2>2. CASE AskFor \/ TakeSettings \/ Answered
    <3>1. at' \in {"resolve", "name", "idle"}
      BY <2>2 DEF AskFor, TakeSettings, Answered
    <3>2. SentIsOffered'
      BY ONLY <3>1 DEF SentIsOffered
    <3> QED  BY ONLY <3>1, <3>2 DEF SettingsInv
  <2>3. CASE LookUp \/ CheckEnabled
    <3>1. /\ at \in {"look", "enabled"} /\ at' \in {"enabled", "refused", "send"}
          /\ caps' = caps /\ wish' = wish /\ rs' = rs
      BY <2>3 DEF LookUp, CheckEnabled
    <3>2. Resolved(caps, wish, rs)' <=> Resolved(caps, wish, rs)
      BY <3>1
    <3>3. SentIsOffered'
      BY <3>1 DEF SentIsOffered
    <3> QED  BY <3>1, <3>2, <3>3 DEF SettingsInv
  <2> QED  BY <2>1, <2>2, <2>3, NameStep, ResolveStep, SendStep DEF SettingsNext
<1> QED
  BY <1>1, <1>2, PTL DEF SettingsSpec

(* Whatever models the account has and whatever the settings are, replaced  *)
(* at any moment: what is sent upstream asks for a level, a window and a     *)
(* model that one model of the account offers, with the client's own wishes  *)
(* before the settings, and for no tool the client has excluded.            *)
THEOREM OfferedIsSent == SettingsSpec => []SentIsOffered
<1>1. SettingsInv => SentIsOffered
  BY DEF SettingsInv
<1> QED
  BY <1>1, SettingsInvariance, PTL

=============================================================================
