--------------------------- MODULE ResponseSessions ---------------------------
(***************************************************************************)
(* /v1/responses of Trae Relay: requests that continue an earlier response *)
(* by its id, the cache of answered responses (SessionCache) with its      *)
(* optional file, and the events a client is sent.                         *)
(*                                                                         *)
(* A conversation is a sequence of turns, each named by the response that   *)
(* answered it and marked when its input carries an image.  What one turn   *)
(* consists of is ResponseInput's subject.  The account's slots are         *)
(* AccountGate's, the upstream's answer is RelayRequest's: here a slot is   *)
(* given or refused, and the upstream sends text, reasoning and tool calls. *)
(***************************************************************************)
EXTENDS SequencesExt, FiniteSetsExt, ResponseInput

CONSTANTS
  Request,   \* threads that serve a request
  Response,  \* names for responses; makeId never repeats one that is in use
  Cap,       \* values of sessionCacheSize
  Image,     \* whether an input carries an image: some of BOOLEAN
  MaxSaid,   \* bound: events of the upstream for one response
  None       \* no response

ASSUME SessionAssumption ==
  /\ None \notin Response
  /\ Cap \subseteq Nat \ {0}   \* put takes 0 for 64
  /\ Image \subseteq BOOLEAN /\ MaxSaid \in Nat

VARIABLES
  cap,      \* the settings the process was started with: sessionCacheSize
  persist,  \*   and sessionCachePersist
  loaded,   \* the file was read, or need not be
  cache,    \* the sessions, oldest first: SessionCache::order and map
  file,     \* responses_sessions.json; <<>> when there is none
  req       \* the request each thread serves, see Idle

(* What the clients know, and what was done; no code reads these.           *)
VARIABLES
  talk,     \* the conversation that ends with each response made so far
  full,     \* responses the upstream answered to the end
  told,     \* responses this process has told a client to be completed
  stored,   \* the responses put in the cache, in order
  written,  \* responses that were in a file that was written
  unread,   \* the file could once not be read
  least     \* the smallest cap of any process so far

settingVars == <<cap, persist>>
cacheVars   == <<loaded, cache, file>>
putVars     == <<stored, written, unread>>
vars == <<settingVars, cacheVars, req, talk, full, told, putVars, least>>

Idle ==
  [pc        |-> "idle",  \* where the handler is
   streaming |-> FALSE,   \* the client wants a stream
   prev      |-> None,    \* previous_response_id
   id        |-> None,    \* respId
   image     |-> FALSE,   \* the input carries an image
   msgs      |-> <<>>,    \* messages: the conversation it continues
   slots     |-> 0,       \* slots it holds
   said      |-> 0,       \* events the upstream has sent
   items     |-> <<>>,    \* output: the kinds of its items
   events    |-> <<>>,    \* what the client was sent
   gone      |-> FALSE,   \* a write to the client has failed (Emitter::gone)
   result    |-> "none"]  \* how the upstream's answer ended

Init ==
  /\ cap \in Cap /\ persist \in BOOLEAN
  /\ loaded = FALSE /\ cache = <<>> /\ file = <<>>
  /\ req = [r \in Request |-> Idle]
  /\ talk = <<>> /\ full = {} /\ told = {} /\ stored = <<>>
  /\ written = {} /\ unread = FALSE /\ least = cap

(* A response that came to nothing is forgotten, and its name can be used  *)
(* again.                                                                   *)
InUse == ToSet(stored) \cup told \cup {req[r].id : r \in Request}
Forget ==
  /\ talk' = [id \in DOMAIN talk \cap InUse' |-> talk[id]]
  /\ full' = full \cap InUse'

(* The process ends and is started again, perhaps with other settings.      *)
Restart ==
  /\ req' = [r \in Request |-> Idle]
  /\ cap' \in Cap /\ persist' \in BOOLEAN
  /\ loaded' = FALSE /\ cache' = <<>>
  /\ told' = {} /\ least' = Min({least, cap'})
  /\ UNCHANGED <<file, putVars>> /\ Forget

-----------------------------------------------------------------------------
(***************************************************************************)
(* SessionCache.  Every operation is one step: it holds the cache's lock    *)
(* throughout, while it reads or writes the file too.                       *)
(***************************************************************************)
Ids(sessions) == {s.id : s \in ToSet(sessions)}
SessionOf(sessions, id) == CHOOSE s \in ToSet(sessions) : s.id = id

(* chatMessageToJson leaves images out.                                     *)
WithoutImages(turns) == [n \in DOMAIN turns |-> [turns[n] EXCEPT !.image = FALSE]]
Dump(sessions) ==
  [n \in DOMAIN sessions |-> [sessions[n] EXCEPT !.messages = WithoutImages(@)]]

(* A file that cannot be opened, or is read in part, counts as none.        *)
readSessionFile == {file, <<>>}

(* The caches ensureLoaded may leave.                                       *)
Opened ==
  IF loaded THEN {cache}
  ELSE IF persist THEN readSessionFile
  ELSE {<<>>}

ensureLoaded(c) ==
  /\ loaded' = TRUE
  /\ unread' = (unread \/ (~loaded /\ persist /\ c # file))

\* Mutant of Newest: one session less is kept.
NewestLess(sessions) == SubSeq(sessions, Max({1, Len(sessions) - cap + 2}), Len(sessions))

Newest(sessions) == SubSeq(sessions, Max({1, Len(sessions) - cap + 1}), Len(sessions))

(* The file is replaced, or left as it is when it cannot be written.        *)
writeSessionFile(sessions) ==
  \/ file' = Dump(sessions) /\ written' = written \cup Ids(sessions)
  \/ UNCHANGED <<file, written>>

(* (A file that would be too large is not written either.)                  *)
persistLocked(sessions) ==
  IF persist THEN writeSessionFile(sessions) ELSE UNCHANGED <<file, written>>

\* Mutant of put: the file is not read before it is written.
putUnloaded(session) ==
  /\ cache' = Newest(Append(cache, session))
  /\ stored' = Append(stored, session.id)
  /\ persistLocked(cache')
  /\ UNCHANGED <<loaded, unread>>

put(session) ==
  \E c \in Opened :
    /\ ensureLoaded(c)
    /\ cache' = Newest(Append(c, session))
    /\ stored' = Append(stored, session.id)
    /\ persistLocked(cache')

-----------------------------------------------------------------------------
Become(r, q) == req' = [req EXCEPT ![r] = q]
Return(r)    == Become(r, Idle)
Quiet == UNCHANGED <<settingVars, talk, full, least>>

(* A request comes.  The session it continues is looked up, or the answer   *)
(* is previous_response_not_found.                                          *)
Begin(r, prev, image) ==
  LET asked == [Idle EXCEPT !.pc = "parse", !.image = image, !.prev = prev]
  IN /\ req[r].pc = "idle"
     /\ IF prev = None
          THEN Become(r, asked) /\ UNCHANGED <<loaded, cache, unread>>
          ELSE \E c \in Opened :
                 /\ ensureLoaded(c) /\ cache' = c
                 /\ IF prev \in Ids(c)
                      THEN Become(r, [asked EXCEPT !.msgs = SessionOf(c, prev).messages])
                      ELSE UNCHANGED req
     /\ UNCHANGED <<file, told, stored, written>> /\ Quiet

(* Its tools are refused, or an account is acquired; no account is 503.     *)
Acquire(r) ==
  /\ req[r].pc = "parse"
  /\ \/ Become(r, [req[r] EXCEPT !.pc = "held", !.slots = 1])
     \/ Return(r)
  /\ UNCHANGED <<cacheVars, told, putVars>> /\ Quiet

(* The model is not known, or the response gets its id.                     *)
Resolve(r) ==
  /\ req[r].pc = "held"
  /\ \/ Return(r) /\ UNCHANGED talk
     \/ \E id \in Response \ DOMAIN talk :
          /\ Become(r, [req[r] EXCEPT !.pc = "open", !.id = id])
          /\ LET before == IF req[r].prev = None THEN <<>> ELSE talk[req[r].prev]
                 turns  == Append(before, [of |-> id, image |-> req[r].image])
             IN talk' = [i \in DOMAIN talk \cup {id} |-> IF i = id THEN turns ELSE talk[i]]
  /\ UNCHANGED <<settingVars, cacheVars, full, told, putVars, least>>

-----------------------------------------------------------------------------
(* Emitter: frames are written until one fails; a request without a stream, *)
(* or whose client has left, writes none.                                    *)
Event(type, index) == [type |-> type, index |-> index]
Emitted(q, frames) ==
  IF ~q.streaming \/ q.gone THEN {q}
  ELSE {[q EXCEPT !.events = @ \o SubSeq(frames, 1, n), !.gone = (n < Len(frames))] :
          n \in 0 .. Len(frames)}

Opening == <<Event("created", 0), Event("in_progress", 0)>>

\* Mutant of Open: the slot is kept when the first frames cannot be written.
OpenKeeping(r) ==
  /\ req[r].pc = "open"
  /\ \E stream \in BOOLEAN : \E q \in Emitted([req[r] EXCEPT !.streaming = stream], Opening) :
       IF q.gone THEN Become(r, [Idle EXCEPT !.slots = q.slots])
                 ELSE Become(r, [q EXCEPT !.pc = "relay"])
  /\ UNCHANGED <<settingVars, cacheVars, told, putVars, least>> /\ Forget

(* The client wants a stream, or not.  The head of the stream and the frames *)
(* that open it are written, or the slot is released.                        *)
Open(r) ==
  /\ req[r].pc = "open"
  /\ \E stream \in BOOLEAN : \E q \in Emitted([req[r] EXCEPT !.streaming = stream], Opening) :
       IF q.gone THEN Return(r) ELSE Become(r, [q EXCEPT !.pc = "relay"])
  /\ UNCHANGED <<settingVars, cacheVars, told, putVars, least>> /\ Forget

(* The sink of runChatPipeline: a frame that cannot be written makes the    *)
(* upstream's stream be given up.                                           *)
Relayed(r, items, frames) ==
  \E q \in Emitted([req[r] EXCEPT !.items = items, !.said = @ + 1], frames) :
    Become(r, IF q.gone THEN [q EXCEPT !.pc = "close", !.result = "aborted"] ELSE q)

(* Text, or reasoning when summaries are on: one item for all of it.        *)
TextEvent(r, kind) ==
  LET q == req[r]
      next == Len(q.items) + 1
  IN /\ q.pc = "relay" /\ q.said < MaxSaid
     /\ \/ \E index \in DOMAIN q.items :
             /\ q.items[index] = kind
             /\ Relayed(r, q.items, <<Event("delta", index)>>)
        \/ /\ kind \notin ToSet(q.items)
           /\ Relayed(r, Append(q.items, kind), <<Event("added", next), Event("delta", next)>>)
     /\ UNCHANGED <<cacheVars, told, putVars>> /\ Quiet

(* The upstream fails.  (A request whose token it refuses is sent once more, *)
(* and what has been relayed stays: nothing here changes by that.)           *)
UpstreamFails(r) ==
  /\ req[r].pc = "relay"
  /\ Become(r, [req[r] EXCEPT !.pc = "close", !.result = "failed"])
  /\ UNCHANGED <<cacheVars, told, putVars>> /\ Quiet

(* It is done, and the tool calls it has sent are relayed, each an item of  *)
(* its own.  One that cannot be converted fails the response.               *)
UpstreamDone(r) ==
  /\ req[r].pc = "relay"
  /\ Become(r, [req[r] EXCEPT !.pc = "tools"])
  /\ UNCHANGED <<cacheVars, told, putVars>> /\ Quiet

ToolCall(r) ==
  LET q == req[r]
      index == Len(q.items) + 1
  IN /\ q.pc = "tools" /\ q.said < MaxSaid
     /\ \/ Relayed(r, Append(q.items, "call"), <<Event("added", index), Event("delta", index)>>)
        \/ Become(r, [q EXCEPT !.pc = "close", !.result = "failed"])
     /\ UNCHANGED <<cacheVars, told, putVars>> /\ Quiet

(* The answer is complete ("stop"), or was cut by a limit or a filter.      *)
ToolsDone(r) ==
  /\ req[r].pc = "tools"
  /\ \E result \in {"stop", "cut"} :
       /\ Become(r, [req[r] EXCEPT !.pc = "close", !.result = result])
       /\ full' = IF result = "stop" THEN full \cup {req[r].id} ELSE full
  /\ UNCHANGED <<settingVars, cacheVars, talk, told, putVars, least>>

-----------------------------------------------------------------------------
\* Mutant of Ended: the items of an answer that was cut are left open.
EndedWhole(q) == q.result = "stop"

(* r.ok: the upstream ended its answer.                                     *)
Ended(q) == q.result \in {"stop", "cut"}

Kept(q) == q.result = "stop" /\ ~q.gone

(* The items are closed, unless the upstream failed.                        *)
Close(r) ==
  LET q == req[r]
      frames == IF Ended(q) THEN [n \in 1 .. Len(q.items) |-> Event("done", n)] ELSE <<>>
  IN /\ q.pc = "close"
     /\ \E p \in Emitted(q, frames) :
          Become(r, [p EXCEPT !.pc = IF Kept(p) THEN "put" ELSE "terminal"])
     /\ UNCHANGED <<cacheVars, told, putVars>> /\ Quiet

\* Mutant of Session: the turn is not added to the conversation.
SessionOld(q) == [id |-> q.id, messages |-> q.msgs]

(* What is kept: the conversation with this turn.                           *)
Session(q) ==
  [id |-> q.id, messages |-> Append(q.msgs, [of |-> q.id, image |-> q.image])]

Put(r) ==
  /\ req[r].pc = "put"
  /\ put(Session(req[r]))
  /\ Become(r, [req[r] EXCEPT !.pc = "terminal"])
  /\ UNCHANGED told /\ Quiet

Verdict(q) == CASE q.result = "stop" -> "completed"
                [] q.result = "cut"  -> "incomplete"
                [] OTHER             -> "failed"

(* The event that ends the stream.                                          *)
Terminal(r) ==
  LET q == req[r]
      frames == IF q.result = "aborted" THEN <<>> ELSE <<Event(Verdict(q), 0)>>
  IN /\ q.pc = "terminal"
     /\ \E p \in Emitted(q, frames) :
          /\ Become(r, [p EXCEPT !.pc = "release"])
          /\ told' = IF Event("completed", 0) \in ToSet(p.events) THEN told \cup {q.id} ELSE told
     /\ UNCHANGED <<cacheVars, putVars>> /\ Quiet

(* The slot is released; then a client without a stream is answered, if it  *)
(* is still there.  (The record and the query of the credits that lie in    *)
(* between are UsageLedger's.)                                              *)
Release(r) ==
  /\ req[r].pc = "release"
  /\ Become(r, [req[r] EXCEPT !.pc = "answer", !.slots = @ - 1])
  /\ UNCHANGED <<cacheVars, told, putVars>> /\ Quiet

Answer(r) ==
  /\ req[r].pc = "answer"
  /\ Return(r)
  /\ \/ UNCHANGED told
     \/ /\ ~req[r].streaming /\ req[r].result = "stop"
        /\ told' = told \cup {req[r].id}
  /\ UNCHANGED <<settingVars, cacheVars, putVars, least>> /\ Forget

-----------------------------------------------------------------------------
RequestStep(r) ==
  \/ Acquire(r) \/ Resolve(r) \/ Open(r)
  \/ \E kind \in {"message", "reasoning"} : TextEvent(r, kind)
  \/ UpstreamFails(r) \/ UpstreamDone(r) \/ ToolCall(r) \/ ToolsDone(r)
  \/ Close(r) \/ Put(r) \/ Terminal(r) \/ Release(r) \/ Answer(r)

Next ==
  \/ Restart
  \/ \E r \in Request :
       \/ \E prev \in Response \cup {None}, image \in Image : Begin(r, prev, image)
       \/ RequestStep(r)

Spec == Init /\ [][Next]_vars

-----------------------------------------------------------------------------
TurnOf == [of : Response, image : BOOLEAN]
SessionType == [id : Response, messages : Seq(TurnOf)]
IsSessions(sessions) ==
  /\ sessions \in Seq(SessionType)
  /\ \A m, n \in DOMAIN sessions : sessions[m].id = sessions[n].id => m = n

(* Every way out of the handler gives the account's slot back, once.        *)
AccountGivenBack ==
  \A r \in Request : req[r].slots = (IF req[r].pc \in {"idle", "parse", "answer"} THEN 0 ELSE 1)

(* Turns agree; an image may be missing from the first, but for turns of    *)
(* these responses.                                                         *)
SameTurn(a, b, whole) == a.of = b.of /\ (a.image = b.image \/ (a.of \notin whole /\ ~a.image))
SameTurns(s, t, whole) ==
  Len(s) = Len(t) /\ \A n \in DOMAIN s : SameTurn(s[n], t[n], whole)

(* A conversation goes on with exactly the turns the client saw in it: not  *)
(* with those of another one, whatever is evicted, written, read back or    *)
(* continued twice at the same time; only images are lost, and only of turns *)
(* answered before the restart.  None of its turns failed, was cut by a     *)
(* limit or was given up by its client, and no response is kept twice.      *)
SessionIsConversation ==
  /\ IsSessions(cache) /\ IsSessions(file)
  /\ \A s \in ToSet(cache) \cup ToSet(file) : \A n \in DOMAIN s.messages :
       s.messages[n].of \in full
  /\ \A s \in ToSet(cache) : SameTurns(s.messages, talk[s.id], told)
  /\ \A s \in ToSet(file) : SameTurns(s.messages, talk[s.id], {})
  /\ \A r \in Request : req[r].prev # None =>
       SameTurns(req[r].msgs, talk[req[r].prev], told)

(* The responses put in the cache after this one.                           *)
Later(id) == {n \in DOMAIN stored : \E m \in 1 .. n - 1 : stored[m] = id}

(* A client that is told completed can continue at once, and until as many  *)
(* responses as the cap have been answered after it ("the last 64").        *)
CompletedIsKept ==
  \A id \in told : id \in Ids(cache) \/ Cardinality(Later(id)) >= cap

(* A session that was saved is found again after any number of restarts,    *)
(* with persisting on or off, until that many later ones have been stored - *)
(* unless the file could once not be read.                                  *)
SavedComesBack ==
  \A id \in written :
    id \in Ids(file) \/ unread \/ Cardinality(Later(id)) >= least

(* What a client reads is in the order it can follow: created first, items  *)
(* added one after the other, nothing for an item before it is added or     *)
(* after it is done, completed or incomplete only with all items done, and  *)
(* nothing after the end.                                                   *)
EventsInOrder ==
  \A r \in Request :
    LET e == req[r].events
        At(type, i) == {n \in DOMAIN e : e[n] = Event(type, i)}
        Ends == {n \in DOMAIN e : e[n].type \in {"completed", "incomplete", "failed"}}
    IN /\ Len(e) > 0 => e[1] = Event("created", 0)
       /\ \A n \in Ends : n = Len(e)
       /\ \A i \in 1 .. Len(e) : \A n \in At("added", i) :
            i > 1 => \E m \in At("added", i - 1) : m < n
       /\ \A i \in 1 .. Len(e) : \A n \in At("delta", i) \cup At("done", i) :
            /\ \E m \in At("added", i) : m < n
            /\ \A m \in At("done", i) : n <= m
       /\ \A n \in Ends : e[n].type # "failed" =>
            \A i \in 1 .. Len(e) : At("added", i) # {} => At("done", i) # {}

(* A session the input is added to.                                         *)
History == <<Message("assistant", 0, <<>>, <<>>)>>

\* The input and the tools are looked at when a process starts, and without a
\* session.
JustStarted == stored = <<>> /\ ~loaded /\ \A r \in Request : req[r] = Idle

(* What the items of a request mean does not depend on the order in which   *)
(* the code goes through them: each tool call is in the turn it was made in, *)
(* never in the session's last one, reasoning stands before the answer that *)
(* followed it and nowhere else, and nothing is lost (normalizeInput).       *)
InputKeepsTurns ==
  JustStarted =>
    \A items \in Inputs, summaries \in BOOLEAN :
      normalizeInput(History, items, summaries)
        = History \o Meaning(items, Len(items), summaries)

(* A call of the upstream comes back to the client as a call of the tool it *)
(* has declared: when the names of two tools become one upstream, the       *)
(* request is refused; and the choice of a declared tool offers that one and *)
(* no other (parseResponseTools, tool_choice).                              *)
ToolsComeBack ==
  JustStarted =>
    \A tools \in ToolLists :
      LET parsed == parseResponseTools(tools)
          known  == {t \in ToSet(tools) : t.type # "web_search"}
      IN parsed.ok =>
           /\ parsed.out = known
           /\ \A t \in known :
                /\ Restored(known, upstreamToolName(t.name, t.nameSpace)) = t
                /\ Offered(parsed.out, "tool", t) = {t}

=============================================================================
