----------------------------- MODULE RelayRequest -----------------------------
(***************************************************************************)
(* One chat request of Trae Relay, from the account it is given to the     *)
(* last frame its client is sent (handleChatCompletions, upstreamDispatch, *)
(* upstreamSolo, StopFilter).                                              *)
(*                                                                         *)
(* The upstream answers with a stream of events; the handler sends text to *)
(* the client as it comes, or keeps it when the client wants no stream,    *)
(* cuts it at the client's stop sequences, collects the fragments of tool  *)
(* calls and sends them when the upstream is done.  A request whose token  *)
(* the upstream refuses is sent once more.  The client may leave at any    *)
(* time, which the handler notices when a write fails; or it stays and does *)
(* not read, and the handler waits in its write: ::send has no timeout.     *)
(*                                                                         *)
(* Requests meet in the account's slots (AccountGate) and in the usage     *)
(* records (UsageLedger), nowhere else, so that one of them is modelled.   *)
(***************************************************************************)
EXTENDS Naturals, SequencesExt

CONSTANTS
  Letter,   \* what texts are made of
  Chunk,    \* texts an event of the upstream can carry
  MaxText,  \* bound: letters the upstream sends for one request
  Tool,     \* indices of tool calls
  Stops,    \* the request's stop sequences
  MaxStop   \* none of them is longer (1024 in the code)

ASSUME RelayAssumption ==
  /\ Chunk \subseteq Seq(Letter) \ {<<>>}
  /\ Stops \subseteq Seq(Letter) \ {<<>>}
  /\ MaxStop \in Nat /\ \A t \in Stops : Len(t) <= MaxStop
  /\ MaxText \in Nat /\ Tool \subseteq Nat

VARIABLES
  pc,         \* where the handler is
  streaming,  \* the client wants a stream
  slot,       \* the request was given an account
  releases,   \* how often it released the account's slot
  client,     \* the client "reads", or "stalls" a write, or has "left"
  gone,       \* a write to the client has failed (HttpResponseWriter::m_gone)
  attempt,    \* how often the request was sent upstream
  queued,     \* the account counts this stream as waiting (QueueScope)
  native,     \* tool calls with a name, of this attempt (nativeTools)
  deaf,       \* the parser has dropped its handler after an error event
  done,       \* how the upstream ended the stream: by "event", "mark" or not
  error,      \* what the upstream said went wrong
  aborted,    \* UpResult::clientAborted
  usage,      \* the upstream sent token counts
  pend,       \* text the stop filter holds back
  hit,        \* it has met a stop sequence
  said,       \* text the upstream has sent, over the attempts
  text,       \* text sent to the client or kept for it
  calls,      \* tool calls sent to the client or kept for it
  recorded,   \* usageRecordPending was called
  ending      \* what ends the client's answer

clientVars == <<streaming, client, gone>>
slotVars   == <<slot, releases, recorded>>
upVars     == <<queued, native, deaf, done, error, aborted, usage>>
textVars   == <<pend, hit, said, text, calls>>
vars == <<pc, attempt, clientVars, slotVars, upVars, textVars, ending>>

Init ==
  /\ pc = "start" /\ attempt = 0
  /\ streaming \in BOOLEAN /\ client = "reads" /\ gone = FALSE
  /\ slot = FALSE /\ releases = 0 /\ recorded = FALSE
  /\ queued = FALSE /\ native = {} /\ deaf = FALSE /\ done = "no" /\ error = "none"
  /\ aborted = FALSE /\ usage = FALSE
  /\ pend = <<>> /\ hit = FALSE /\ said = <<>> /\ text = <<>> /\ calls = <<>>
  /\ ending = <<>>

(* Whether a write of the stream can succeed and can fail.                  *)
CanWrite == ~gone
CanFail  == gone \/ client = "left"

-----------------------------------------------------------------------------
(* The stop filter.                                                         *)
At(s, t, i) == SubSeq(s, i + 1, i + Len(t)) = t
StopsIn(s) == {i \in 0 .. Len(s) : \E t \in Stops : i + Len(t) <= Len(s) /\ At(s, t, i)}
\* Mutant of HoldMax: one letter less.
HoldLess == IF Stops = {} THEN 0 ELSE Max({Len(t) : t \in Stops} \cup {2}) - 2
HoldMax == IF Stops = {} THEN 0 ELSE Max({Len(t) : t \in Stops}) - 1

(* What feed(t) lets through, and what it holds back.  (Letters are whole   *)
(* characters: utf8SafeCut only keeps the cut off their middle.)            *)
Passed(t) ==
  LET buf == pend \o t
  IN IF hit THEN <<>>
     ELSE IF StopsIn(buf) # {} THEN SubSeq(buf, 1, Min(StopsIn(buf)))
     ELSE IF Len(buf) <= HoldMax THEN <<>>
     ELSE SubSeq(buf, 1, Len(buf) - HoldMax)

Held(t) ==
  LET buf == pend \o t
  IN IF hit \/ StopsIn(buf) # {} THEN <<>>
     ELSE IF Len(buf) <= HoldMax THEN buf
     ELSE SubSeq(buf, Len(buf) - HoldMax + 1, Len(buf))

(* feed: the text passed is what Passed says.                               *)
feed(t) ==
  /\ hit' = (hit \/ StopsIn(pend \o t) # {})
  /\ pend' = Held(t)

-----------------------------------------------------------------------------
(* An account is acquired, or the answer will be 503.                       *)
Acquire ==
  /\ pc = "start"
  /\ \/ pc' = "held" /\ slot' = TRUE
     \/ pc' = "answer" /\ UNCHANGED slot
  /\ UNCHANGED <<attempt, clientVars, releases, recorded, upVars, textVars, ending>>

(* The model, the settings and the messages are resolved, or the slot is    *)
(* released and the answer will be 400.                                     *)
Prepare ==
  /\ pc = "held"
  /\ \/ pc' = "begin" /\ UNCHANGED releases
     \/ pc' = "answer" /\ releases' = releases + 1
  /\ UNCHANGED <<attempt, clientVars, slot, recorded, upVars, textVars, ending>>

\* Mutant of Begin: the slot is kept when the head cannot be written.
BeginKeeping ==
  /\ pc = "begin"
  /\ \/ /\ streaming /\ CanFail
        /\ gone' = TRUE /\ pc' = "over"
     \/ pc' = "open" /\ UNCHANGED gone
  /\ UNCHANGED releases
  /\ UNCHANGED <<attempt, streaming, client, slot, recorded, upVars, textVars,
                 ending>>

(* The head of the stream is written, and the frame with the role.          *)
Begin ==
  /\ pc = "begin"
  /\ \/ /\ streaming /\ CanFail
        /\ gone' = TRUE /\ releases' = releases + 1 /\ pc' = "over"
     \/ /\ pc' = "open" /\ UNCHANGED releases
        /\ gone' \in {b \in BOOLEAN : b => streaming /\ CanFail}
  /\ UNCHANGED <<attempt, streaming, client, slot, recorded, upVars, textVars,
                 ending>>

-----------------------------------------------------------------------------
(* upstreamSolo: the request is sent; the answer is a stream, a status that *)
(* says the token is refused, or another failure.                           *)
Open ==
  /\ pc = "open" /\ attempt' = attempt + 1
  /\ native' = {} /\ deaf' = FALSE /\ done' = "no" /\ aborted' = FALSE /\ usage' = FALSE
  /\ \/ error' = "none" /\ pc' = "relay"
     \/ error' \in {"auth", "other"} /\ pc' = "closed"
  /\ UNCHANGED <<queued, clientVars, slotVars, textVars, ending>>

Listening == pc = "relay" /\ ~deaf

QueueEvent ==
  /\ Listening /\ queued' = ~queued
  /\ UNCHANGED <<pc, attempt, clientVars, slotVars, native, deaf, done, error,
                 aborted, usage, textVars, ending>>

(* token_usage.                                                             *)
UsageEvent ==
  /\ Listening /\ usage' = TRUE
  /\ UNCHANGED <<pc, attempt, clientVars, slotVars, queued, native, deaf, done,
                 error, aborted, textVars, ending>>

(* A frame is written (or kept, without a stream), or the client is found   *)
(* gone and the upstream's stream is given up.                              *)
Written == (~streaming \/ CanWrite) /\ UNCHANGED <<pc, gone, aborted>>
GivenUp ==
  /\ streaming /\ CanFail
  /\ gone' = TRUE /\ aborted' = TRUE /\ pc' = "closed"

(* emitTextDelta: no frame is written for no text.                          *)
Emit(more) ==
  \/ more = <<>> /\ UNCHANGED <<pc, gone, aborted, text>>
  \/ more # <<>> /\ Written /\ text' = text \o more
  \/ more # <<>> /\ GivenUp /\ UNCHANGED text

TextEvent(t) ==
  /\ Listening /\ Len(said) + Len(t) <= MaxText
  /\ said' = said \o t /\ queued' = FALSE
  /\ feed(t) /\ Emit(Passed(t))
  /\ UNCHANGED <<attempt, streaming, client, slotVars, native, deaf, done, error,
                 usage, calls, ending>>

(* Reasoning is passed on as it is; it is no part of the text.              *)
ReasonEvent ==
  /\ Listening /\ queued' = FALSE
  /\ Written \/ GivenUp
  /\ UNCHANGED <<attempt, streaming, client, slotVars, native, deaf, done, error,
                 usage, textVars, ending>>

(* A fragment of a tool call.                                               *)
ToolEvent(i) ==
  /\ Listening /\ native' = native \cup {i} /\ queued' = FALSE
  /\ UNCHANGED <<pc, attempt, clientVars, slotVars, deaf, done, error, aborted,
                 usage, textVars, ending>>

(* An error event: the parser hears nothing more, but the stream is read    *)
(* until the upstream closes it.                                            *)
ErrorEvent ==
  /\ Listening /\ deaf' = TRUE /\ queued' = FALSE
  /\ error' \in {"auth", "other"}
  /\ UNCHANGED <<pc, attempt, clientVars, slotVars, native, done, aborted, usage,
                 textVars, ending>>

(* The stream ends: with a done event, after which the collected tool calls *)
(* are sent, with [DONE], or by the upstream closing it (or a timeout).     *)
DoneEvent ==
  /\ Listening /\ queued' = FALSE /\ pc' = "tools"
  /\ UNCHANGED <<attempt, clientVars, slotVars, native, deaf, done, error, aborted,
                 usage, textVars, ending>>

DoneMark ==
  /\ Listening /\ queued' = FALSE /\ done' = "mark" /\ pc' = "closed"
  /\ UNCHANGED <<attempt, clientVars, slotVars, native, deaf, error, aborted, usage,
                 textVars, ending>>

Close ==
  /\ pc = "relay" /\ pc' = "closed"
  /\ UNCHANGED <<attempt, clientVars, slotVars, upVars, textVars, ending>>

-----------------------------------------------------------------------------
(* After a done event: the text that is held back, then the tool calls one  *)
(* by one, in the order of their indices.                                   *)
Unsent == native \ ToSet(calls)

FlushTail ==
  /\ pc = "tools" /\ Unsent # {} /\ pend # <<>>
  /\ pend' = <<>> /\ Emit(pend)
  /\ UNCHANGED <<attempt, streaming, client, slotVars, queued, native, deaf, done,
                 error, usage, hit, said, calls, ending>>

\* Mutant of SendTool: a tool call that cannot be written is tried again.
SendToolRetrying ==
  /\ pc = "tools" /\ Unsent # {} /\ pend = <<>>
  /\ IF ~streaming \/ CanWrite
       THEN calls' = Append(calls, Min(Unsent))
       ELSE UNCHANGED calls
  /\ UNCHANGED <<pc, gone, aborted, attempt, streaming, client, slotVars, queued,
                 native, deaf, done, error, usage, pend, hit, said, text, ending>>

SendTool ==
  /\ pc = "tools" /\ Unsent # {} /\ pend = <<>>
  /\ \/ Written /\ calls' = Append(calls, Min(Unsent))
     \/ GivenUp /\ UNCHANGED calls
  /\ UNCHANGED <<attempt, streaming, client, slotVars, queued, native, deaf, done,
                 error, usage, pend, hit, said, text, ending>>

ToolsSent ==
  /\ pc = "tools" /\ Unsent = {}
  /\ done' = "event" /\ pc' = "closed"
  /\ UNCHANGED <<attempt, clientVars, slotVars, queued, native, deaf, error,
                 aborted, usage, textVars, ending>>

-----------------------------------------------------------------------------
(* upstreamSolo returns; a refused token is refreshed and the request sent  *)
(* again, once.                                                             *)
\* Mutant of Ok: a stream that was closed early is taken for an answer.
OkUnlessError == ~aborted /\ error = "none"

Ok == ~aborted /\ error = "none" /\ done # "no"
Refused == ~aborted /\ error = "auth"

Return ==
  /\ pc = "closed" /\ queued' = FALSE
  /\ pc' = CASE Refused /\ attempt = 1 -> "open"
             [] Ok \/ aborted          -> "flush"
             [] OTHER                  -> "fail"
  /\ UNCHANGED <<attempt, clientVars, slotVars, native, deaf, done, error, aborted,
                 usage, textVars, ending>>

(* The rest of the text is let through.                                     *)
FlushEnd ==
  /\ pc = "flush" /\ pc' = "record" /\ pend' = <<>>
  /\ \/ /\ ~streaming \/ pend = <<>> \/ CanWrite
        /\ text' = text \o pend
        /\ UNCHANGED <<gone, aborted>>
     \/ /\ streaming /\ pend # <<>> /\ CanFail
        /\ gone' = TRUE /\ aborted' = TRUE /\ UNCHANGED text
  /\ UNCHANGED <<attempt, streaming, client, slotVars, queued, native, deaf, done,
                 error, usage, hit, said, calls, ending>>

(* finishRequest of a request that ended well, or was given up: its tokens  *)
(* are recorded, the slot is released, then the answer is ended.            *)
Record ==
  /\ pc = "record" /\ recorded' = usage /\ pc' = "release"
  /\ UNCHANGED <<attempt, clientVars, slot, releases, upVars, textVars, ending>>

Release ==
  /\ pc = "release" /\ releases' = releases + 1 /\ pc' = "finale"
  /\ UNCHANGED <<attempt, clientVars, slot, recorded, upVars, textVars, ending>>

(* The frames that end a stream: any of them may find the client gone.      *)
EndWith(frames) ==
  \E n \in 0 .. Len(frames) :
    /\ n = Len(frames) \/ CanFail
    /\ n > 0 => CanWrite
    /\ ending' = SubSeq(frames, 1, n)
    /\ gone' = (gone \/ n < Len(frames))

Finale ==
  /\ pc = "finale" /\ pc' = "over"
  /\ IF streaming THEN EndWith(<<"final", "DONE">>)
                  ELSE ending' = <<"answer">> /\ UNCHANGED gone
  /\ UNCHANGED <<attempt, streaming, client, slotVars, upVars, textVars>>

(* The request failed: an error frame ends the stream, then the slot is     *)
(* released; without a stream it is released before the answer is sent.     *)
FailStream ==
  /\ pc = "fail" /\ streaming /\ pc' = "giveback"
  /\ EndWith(<<"error", "DONE">>)
  /\ UNCHANGED <<attempt, streaming, client, slotVars, upVars, textVars>>

GiveBack ==
  /\ pc = "giveback" /\ releases' = releases + 1 /\ pc' = "over"
  /\ UNCHANGED <<attempt, clientVars, slot, recorded, upVars, textVars, ending>>

FailAnswer ==
  /\ pc = "fail" /\ ~streaming
  /\ releases' = releases + 1 /\ pc' = "answer"
  /\ UNCHANGED <<attempt, clientVars, slot, recorded, upVars, textVars, ending>>

(* sendJsonError.                                                           *)
Answer ==
  /\ pc = "answer" /\ pc' = "over"
  /\ ending' = IF attempt = 0 THEN <<"refused">> ELSE <<"failure">>
  /\ UNCHANGED <<attempt, clientVars, slotVars, upVars, textVars>>

-----------------------------------------------------------------------------
(* The client.  It leaves: from then on a write may fail.                   *)
ClientLeaves ==
  /\ client # "left" /\ pc # "over" /\ client' = "left"
  /\ UNCHANGED <<pc, attempt, streaming, gone, slotVars, upVars, textVars, ending>>

(* It stays connected and does not read: a write of the handler waits until *)
(* it reads again or leaves.                                                *)
Writing ==
  \/ streaming /\ \/ Listening \/ pc \in {"begin", "fail"}
                  \/ pc = "tools" /\ Unsent # {}
                  \/ pc = "flush" /\ pend # <<>>
  \/ pc \in {"finale", "answer"}

ClientStalls ==
  /\ client = "reads" /\ Writing /\ client' = "stalls"
  /\ UNCHANGED <<pc, attempt, streaming, gone, slotVars, upVars, textVars, ending>>

ClientReads ==
  /\ client = "stalls" /\ client' = "reads"
  /\ UNCHANGED <<pc, attempt, streaming, gone, slotVars, upVars, textVars, ending>>

-----------------------------------------------------------------------------
Event ==
  \/ QueueEvent \/ UsageEvent \/ ReasonEvent \/ ErrorEvent
  \/ \E t \in Chunk : TextEvent(t)
  \/ \E i \in Tool : ToolEvent(i)

UpstreamEnds == DoneEvent \/ DoneMark \/ Close

Handler ==
  \/ Acquire \/ Prepare \/ Begin \/ Open
  \/ FlushTail \/ SendTool \/ ToolsSent \/ Return
  \/ FlushEnd \/ Record \/ Release \/ Finale
  \/ FailStream \/ GiveBack \/ FailAnswer \/ Answer

ClientStep == ClientLeaves \/ ClientStalls \/ ClientReads

\* A handler that waits in a write does nothing else.
Free(A) == client # "stalls" /\ A

Next == Free(Handler \/ Event \/ UpstreamEnds) \/ ClientStep

Spec == Init /\ [][Next]_vars

(* The handler's thread runs, and no upstream keeps a stream open forever:  *)
(* a stream that is silent runs into readLine's timeout.  Frames are finite: *)
(* a client that reads again and again takes in the one the handler writes. *)
(* No client need read at all.                                              *)
Fairness == SF_vars(Free(Handler)) /\ SF_vars(Free(UpstreamEnds))
FairSpec == Spec /\ Fairness

-----------------------------------------------------------------------------
Before == {"start", "held", "begin", "open", "relay", "tools", "closed"}
After == {"flush", "record", "release", "finale", "fail", "giveback", "answer", "over"}

(* What the client sees is the upstream's text up to a stop sequence, and   *)
(* no stop sequence, however the upstream cuts the text into events: the    *)
(* filter holds back what could be the beginning of one.                    *)
StopCut ==
  /\ StopsIn(text) = {}
  /\ gone \/ IF hit THEN \E t \in Stops : IsPrefix(text \o t, said)
                   ELSE text \o pend = said

(* Once a tool call is sent no text follows: "正文先于其后的工具调用".       *)
ToolsAfterText == [][calls # <<>> => text' = text]_vars

Increasing(s) == \A i, j \in 1 .. Len(s) : i < j => s[i] < s[j]

(* A client that stays is told the truth about the end: a failure of the    *)
(* upstream, early close included, never looks like an answer, and an       *)
(* answer holds all of the text and, in order, all of the tool calls.  The  *)
(* mark [DONE] without a done event carries no tool calls.                  *)
EndingIsTrue ==
  pc = "over" /\ ~gone =>
    /\ ending = CASE attempt = 0   -> <<"refused">>
                 [] done # "no"   -> IF streaming THEN <<"final", "DONE">> ELSE <<"answer">>
                 [] OTHER         -> IF streaming THEN <<"error", "DONE">> ELSE <<"failure">>
    /\ done # "no" => hit \/ text = said
    /\ done = "event" => ToSet(calls) = native /\ Increasing(calls)

(* Every path out of the handler gives the account back exactly once, with  *)
(* no upstream stream open on it and none counted as waiting.               *)
AccountGivenBack ==
  /\ pc \in Before => releases = 0
  /\ pc \in After => ~queued
  /\ pc = "over" => releases = IF slot THEN 1 ELSE 0

(* A handler that has begun comes to its end, and so to the release of the  *)
(* slot, also when its client leaves at any moment, unless a client that    *)
(* stays connected never reads again.                                       *)
RequestEnds == pc # "start" ~> (pc = "over" \/ [](client = "stalls"))

=============================================================================
