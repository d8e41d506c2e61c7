------------------------ MODULE ResponseSessions_proofs ------------------------
(***************************************************************************)
(* Proofs about ResponseSessions: slots, names, conversations, what the     *)
(* cache and its file keep, and the order of events, for any number of      *)
(* requests and responses, any capacity and any number of restarts.         *)
(***************************************************************************)
EXTENDS ResponseSessions, FiniteSetTheorems, SequenceTheorems, WellFoundedInduction, TLAPS

Pc == {"idle", "parse", "held", "open", "relay", "tools", "close", "put",
       "terminal", "release", "answer"}
Ending    == {"completed", "incomplete", "failed"}
EventName == {"created", "in_progress", "added", "delta", "done"} \cup Ending
EventType == [type : EventName, index : Nat]
RequestType ==
  [pc : Pc, streaming : BOOLEAN, prev : Response \cup {None}, id : Response \cup {None},
   image : BOOLEAN, msgs : Seq(TurnOf), slots : Nat, said : Nat,
   items : Seq({"message", "reasoning", "call"}), events : Seq(EventType),
   gone : BOOLEAN, result : {"none", "failed", "aborted", "stop", "cut"}]

TypeOK ==
  /\ cap \in Cap /\ persist \in BOOLEAN /\ loaded \in BOOLEAN /\ unread \in BOOLEAN
  /\ least \in Nat /\ least <= cap
  /\ cache \in Seq(SessionType) /\ file \in Seq(SessionType)
  /\ req \in [Request -> RequestType]
  /\ talk \in [DOMAIN talk -> Seq(TurnOf)] /\ DOMAIN talk \subseteq Response
  /\ stored \in Seq(Response)

-----------------------------------------------------------------------------
(* The events so far, of a response with n items, before the event that ends *)
(* them.                                                                    *)
Followable(e, n) ==
  /\ Len(e) > 0 => e[1] = Event("created", 0)
  /\ \A p \in DOMAIN e : e[p].type \notin Ending
  /\ \A p \in DOMAIN e : e[p].type = "added" =>
       /\ e[p].index \in 1 .. n
       /\ e[p].index > 1 => \E m \in 1 .. p - 1 : e[m] = Event("added", e[p].index - 1)
  /\ \A p \in DOMAIN e : e[p].type \in {"delta", "done"} =>
       /\ e[p].index \in 1 .. n
       /\ \E m \in 1 .. p - 1 : e[m] = Event("added", e[p].index)
       /\ \A m \in DOMAIN e : e[m] = Event("done", e[p].index) => p <= m

(* All items were added and none is done; all are done.                     *)
Adding(e, n) ==
  /\ Len(e) > 0
  /\ \A i \in 1 .. n : \E m \in DOMAIN e : e[m] = Event("added", i)
  /\ \A p \in DOMAIN e : e[p].type # "done"
AllDone(e, n) ==
  /\ Len(e) > 0
  /\ \A i \in 1 .. n : \E m \in DOMAIN e : e[m] = Event("done", i)

(* What EventsInOrder says of one response.                                 *)
InOrder(e) ==
  LET At(type, i) == {n \in DOMAIN e : e[n] = Event(type, i)}
      Ends == {n \in DOMAIN e : e[n].type \in {"completed", "incomplete", "failed"}}
  IN /\ Len(e) > 0 => e[1] = Event("created", 0)
     /\ \A n \in Ends : n = Len(e)
     /\ \A i \in 1 .. Len(e) : \A n \in At("added", i) :
          i > 1 => \E m \in At("added", i - 1) : m < n
     /\ \A i \in 1 .. Len(e) : \A n \in At("delta", i) \cup At("done", i) :
          /\ \E m \in At("added", i) : m < n
          /\ \A m \in At("done", i) : n <= m
     /\ \A n \in Ends : e[n].type # "failed" =>
          \A i \in 1 .. Len(e) : At("added", i) # {} => At("done", i) # {}

Writes(q) == q.streaming /\ ~q.gone
EventInv(q) ==
  /\ InOrder(q.events)
  /\ q.pc \in {"idle", "parse", "held", "open"} => q.events = <<>> /\ q.items = <<>> /\ ~q.gone
  /\ q.pc \in {"relay", "tools"} => ~q.gone
  /\ q.pc \in {"relay", "tools", "close"} /\ Writes(q) =>
       Followable(q.events, Len(q.items)) /\ Adding(q.events, Len(q.items))
  /\ q.pc \in {"put", "terminal"} /\ Writes(q) =>
       /\ Followable(q.events, Len(q.items)) /\ Len(q.events) > 0
       /\ Ended(q) => AllDone(q.events, Len(q.items))
  /\ q.pc \notin {"release", "answer"} => \A p \in DOMAIN q.events : q.events[p].type \notin Ending
  /\ ~q.streaming => q.events = <<>> /\ ~q.gone

(* Where a request is decides what it holds.                                *)
Named(q)  == q.pc \notin {"idle", "parse", "held"}
StageInv(q) ==
  /\ q.slots = (IF q.pc \in {"idle", "parse", "answer"} THEN 0 ELSE 1)
  /\ Named(q) <=> q.id # None
  /\ q.pc \in {"idle", "parse", "held", "open", "relay", "tools"} => q.result = "none"
  /\ q.pc = "put" => q.result = "stop" /\ ~q.gone
  /\ q.prev = None => q.msgs = <<>>
  /\ q.pc = "idle" => q.prev = None

RequestInv == \A r \in Request : EventInv(req[r]) /\ StageInv(req[r])

-----------------------------------------------------------------------------
(* A response that is answered and put; its turns have their images.        *)
Answered(q) == q.pc \in {"terminal", "release", "answer"} /\ q.result = "stop" /\ ~q.gone
Whole == told \cup {req[r].id : r \in {s \in Request : Answered(req[s])}}

Stored == ToSet(stored)

(* Names: no two things have the same, and none is reused while it is used. *)
NameInv ==
  /\ \A m, n \in DOMAIN stored : stored[m] = stored[n] => m = n
  /\ Stored \subseteq DOMAIN talk /\ told \subseteq Stored
  /\ \A r, s \in Request : req[r].id = req[s].id /\ Named(req[r]) => r = s
  /\ \A r \in Request :
       /\ Named(req[r]) => req[r].id \in DOMAIN talk
       /\ req[r].pc \in {"open", "relay", "tools", "close", "put"} => req[r].id \notin Stored
       /\ Answered(req[r]) => req[r].id \in Stored
       /\ req[r].prev # None => req[r].prev \in Stored
  /\ Whole # {} => loaded

Continued(q) == IF q.prev = None THEN <<>> ELSE talk[q.prev]
Ready(q)  == q.pc \in {"open", "relay", "tools", "close", "put"}

(* The turns of a session, or of a request that continues one.              *)
Settled(turns) == \A n \in DOMAIN turns : turns[n].of \in full /\ turns[n].of \in Stored

TalkInv ==
  /\ \A r \in Request :
       /\ Ready(req[r]) =>
            talk[req[r].id] = Append(Continued(req[r]), [of |-> req[r].id, image |-> req[r].image])
       /\ Named(req[r]) /\ req[r].result = "stop" => req[r].id \in full
       /\ Settled(req[r].msgs)
       /\ req[r].prev # None => SameTurns(req[r].msgs, talk[req[r].prev], Whole)
  /\ \A n \in DOMAIN cache :
       Settled(cache[n].messages) /\ SameTurns(cache[n].messages, talk[cache[n].id], Whole)
  /\ \A n \in DOMAIN file :
       Settled(file[n].messages) /\ SameTurns(file[n].messages, talk[file[n].id], {})

(* Sessions are in the order in which they were stored, at least as far     *)
(* from each other as there are sessions between them.                      *)
Spaced(sessions, names) ==
  /\ \A p \in DOMAIN sessions : \E m \in DOMAIN names : names[m] = sessions[p].id
  /\ \A p, q \in DOMAIN sessions, m, n \in DOMAIN names :
       p <= q /\ names[m] = sessions[p].id /\ names[n] = sessions[q].id => q - p <= n - m
OrderInv == Spaced(cache, stored) /\ Spaced(file, stored)

(* A session is there, or as many have been stored after it.                *)
Has(sessions, id)  == \E n \in DOMAIN sessions : sessions[n].id = id
Far(id, k, names)  == \E m \in DOMAIN names : names[m] = id /\ k <= Len(names) - m

KeepInv ==
  /\ \A id \in Whole : Has(cache, id) \/ Far(id, cap, stored)
  /\ \A id \in written : Has(file, id) \/ unread \/ Far(id, least, stored)
  /\ loaded /\ persist /\ ~unread => \A id \in written : Has(cache, id) \/ Far(id, least, stored)

IInv == TypeOK /\ RequestInv /\ NameInv /\ TalkInv /\ OrderInv /\ KeepInv

-----------------------------------------------------------------------------
(* What is sent piece by piece: appending to a sequence leaves it alone.     *)
LEMMA AppendFacts ==
  ASSUME NEW S, NEW e \in Seq(S), NEW x \in S
  PROVE  /\ Append(e, x) \in Seq(S) /\ Len(Append(e, x)) = Len(e) + 1
         /\ \A n \in DOMAIN e : n \in 1 .. Len(e) /\ Append(e, x)[n] = e[n]
         /\ Append(e, x)[Len(e) + 1] = x
         /\ DOMAIN Append(e, x) = 1 .. Len(e) + 1 /\ DOMAIN e = 1 .. Len(e)
         /\ Len(e) \in Nat
  OBVIOUS

LEMMA EventIs ==
  ASSUME NEW type \in EventName, NEW i \in Nat
  PROVE  /\ Event(type, i) \in EventType
         /\ Event(type, i).type = type /\ Event(type, i).index = i
  BY DEF Event, EventType

(* Two events are the same if they say the same.                            *)
LEMMA EventsSame ==
  ASSUME NEW e \in EventType
  PROVE  e = Event(e.type, e.index)
  BY DEF Event, EventType

LEMMA IndexIsNat ==
  ASSUME NEW e \in Seq(EventType), NEW m \in DOMAIN e
  PROVE  e[m].index \in Nat
<1>1. e[m] \in EventType
  OBVIOUS
<1> QED
  BY <1>1 DEF EventType

LEMMA AddItem ==
  ASSUME NEW e \in Seq(EventType), NEW n \in Nat, Followable(e, n), Adding(e, n)
  PROVE  LET f == Append(e, Event("added", n + 1))
         IN f \in Seq(EventType) /\ Followable(f, n + 1) /\ Adding(f, n + 1)
<1> DEFINE x == Event("added", n + 1)
           f == Append(e, x)
<1>1. x \in EventType /\ x.type = "added" /\ x.index = n + 1
  BY EventIs DEF EventName
<1>2. /\ f \in Seq(EventType) /\ Len(f) = Len(e) + 1 /\ f[Len(e) + 1] = x
      /\ \A m \in DOMAIN e : m \in 1 .. Len(e) /\ f[m] = e[m]
      /\ DOMAIN f = 1 .. Len(e) + 1 /\ DOMAIN e = 1 .. Len(e) /\ Len(e) \in Nat
  BY <1>1, AppendFacts
<1> HIDE DEF x, f
<1>3. \A m \in DOMAIN f : (m \in DOMAIN e /\ f[m] = e[m]) \/ (m = Len(e) + 1 /\ f[m] = x)
  BY <1>2
<1>4. \A m \in DOMAIN f : f[m] \in EventType
  BY <1>2
<1>5. \A m \in DOMAIN e : e[m].index \in Nat
  BY IndexIsNat
<1>6. Followable(f, n + 1)
  <2>1. Len(f) > 0 => f[1] = Event("created", 0)
    BY <1>2 DEF Followable, Adding
  <2>2. \A p \in DOMAIN f : f[p].type \notin Ending
    BY <1>1, <1>3 DEF Followable, Ending
  <2>3. ASSUME NEW p \in DOMAIN f, f[p].type = "added"
        PROVE  /\ f[p].index \in 1 .. n + 1
               /\ f[p].index > 1 => \E m \in 1 .. p - 1 : f[m] = Event("added", f[p].index - 1)
    <3>1. CASE p \in DOMAIN e /\ f[p] = e[p]
      <4>1. e[p].index \in 1 .. n
        BY <2>3, <3>1 DEF Followable
      <4>2. ASSUME e[p].index > 1 PROVE \E m \in 1 .. p - 1 : f[m] = Event("added", e[p].index - 1)
        <5>1. PICK m \in 1 .. p - 1 : e[m] = Event("added", e[p].index - 1)
          BY <2>3, <3>1, <4>2 DEF Followable
        <5>2. m \in DOMAIN e
          BY <1>2, <3>1
        <5> QED  BY <1>2, <5>1, <5>2
      <4> QED  BY <3>1, <4>1, <4>2
    <3>2. CASE p = Len(e) + 1 /\ f[p] = x
      <4>1. f[p].index = n + 1
        BY <1>1, <3>2
      <4>2. ASSUME n + 1 > 1 PROVE \E m \in 1 .. p - 1 : f[m] = Event("added", n)
        <5>1. PICK m \in DOMAIN e : e[m] = Event("added", n)
          BY <4>2 DEF Adding
        <5> QED  BY <1>2, <3>2, <5>1
      <4> QED  BY <4>1, <4>2
    <3> QED  BY <1>3, <3>1, <3>2
  <2>4. ASSUME NEW p \in DOMAIN f, f[p].type \in {"delta", "done"}
        PROVE  /\ f[p].index \in 1 .. n + 1
               /\ \E m \in 1 .. p - 1 : f[m] = Event("added", f[p].index)
               /\ \A m \in DOMAIN f : f[m] = Event("done", f[p].index) => p <= m
    <3>1. p \in DOMAIN e /\ f[p] = e[p]
      BY <1>1, <1>3, <2>4
    <3>2. e[p].index \in 1 .. n
      BY <2>4, <3>1 DEF Followable
    <3>3. PICK m \in 1 .. p - 1 : e[m] = Event("added", e[p].index)
      BY <2>4, <3>1 DEF Followable
    <3>4. m \in DOMAIN e
      BY <1>2, <3>1
    <3>5. \A k \in DOMAIN f : f[k] # Event("done", f[p].index)
      <4>1. \A k \in DOMAIN f : f[k].type # "done"
        BY <1>1, <1>3 DEF Adding
      <4>2. Event("done", f[p].index).type = "done"
        BY <1>5, <3>1, EventIs DEF EventName
      <4> QED  BY <4>1, <4>2
    <3> QED  BY <1>2, <3>1, <3>2, <3>3, <3>4, <3>5
  <2> QED  BY <2>1, <2>2, <2>3, <2>4 DEF Followable
<1>7. Adding(f, n + 1)
  <2>1. ASSUME NEW i \in 1 .. n + 1 PROVE \E m \in DOMAIN f : f[m] = Event("added", i)
    <3>1. CASE i = n + 1
      BY <1>2, <3>1 DEF x
    <3>2. CASE i \in 1 .. n
      <4>1. PICK m \in DOMAIN e : e[m] = Event("added", i)
        BY <3>2 DEF Adding
      <4> QED  BY <1>2, <4>1
    <3> QED  BY <3>1, <3>2
  <2>2. \A p \in DOMAIN f : f[p].type # "done"
    BY <1>1, <1>3 DEF Adding
  <2> QED  BY <1>2, <2>1, <2>2 DEF Adding
<1> QED
  BY <1>2, <1>6, <1>7 DEF f, x

(* Events of items: deltas while items are added.                           *)
LEMMA AddDelta ==
  ASSUME NEW e \in Seq(EventType), NEW n \in Nat, Followable(e, n), Adding(e, n),
         NEW i \in 1 .. n
  PROVE  LET f == Append(e, Event("delta", i))
         IN f \in Seq(EventType) /\ Followable(f, n) /\ Adding(f, n)
<1> DEFINE x == Event("delta", i)
           f == Append(e, x)
<1>1. x \in EventType /\ x.type = "delta" /\ x.index = i
  BY EventIs DEF EventName
<1>2. /\ f \in Seq(EventType) /\ Len(f) = Len(e) + 1 /\ f[Len(e) + 1] = x
      /\ \A m \in DOMAIN e : m \in 1 .. Len(e) /\ f[m] = e[m]
      /\ DOMAIN f = 1 .. Len(e) + 1 /\ DOMAIN e = 1 .. Len(e) /\ Len(e) \in Nat
  BY <1>1, AppendFacts
<1> HIDE DEF x, f
<1>3. \A m \in DOMAIN f : (m \in DOMAIN e /\ f[m] = e[m]) \/ (m = Len(e) + 1 /\ f[m] = x)
  BY <1>2
<1>4. \A m \in DOMAIN e : e[m].index \in Nat
  BY IndexIsNat
<1>5. \A p \in DOMAIN f : f[p].type # "done"
  BY <1>1, <1>3 DEF Adding
<1>6. Followable(f, n)
  <2>1. Len(f) > 0 => f[1] = Event("created", 0)
    BY <1>2 DEF Followable, Adding
  <2>2. \A p \in DOMAIN f : f[p].type \notin Ending
    BY <1>1, <1>3 DEF Followable, Ending
  <2>3. ASSUME NEW p \in DOMAIN f, f[p].type = "added"
        PROVE  /\ f[p].index \in 1 .. n
               /\ f[p].index > 1 => \E m \in 1 .. p - 1 : f[m] = Event("added", f[p].index - 1)
    <3>1. p \in DOMAIN e /\ f[p] = e[p]
      BY <1>1, <1>3, <2>3
    <3>2. e[p].index \in 1 .. n
      BY <2>3, <3>1 DEF Followable
    <3>3. ASSUME e[p].index > 1 PROVE \E m \in 1 .. p - 1 : f[m] = Event("added", e[p].index - 1)
      <4>1. PICK m \in 1 .. p - 1 : e[m] = Event("added", e[p].index - 1)
        BY <2>3, <3>1, <3>3 DEF Followable
      <4>2. m \in DOMAIN e
        BY <1>2, <3>1
      <4> QED  BY <1>2, <4>1, <4>2
    <3> QED  BY <3>1, <3>2, <3>3
  <2>4. ASSUME NEW p \in DOMAIN f, f[p].type \in {"delta", "done"}
        PROVE  /\ f[p].index \in 1 .. n
               /\ \E m \in 1 .. p - 1 : f[m] = Event("added", f[p].index)
               /\ \A m \in DOMAIN f : f[m] = Event("done", f[p].index) => p <= m
    <3>1. f[p].index \in 1 .. n /\ \E m \in 1 .. p - 1 : f[m] = Event("added", f[p].index)
      <4>1. CASE p \in DOMAIN e /\ f[p] = e[p]
        <5>1. e[p].index \in 1 .. n
          BY <2>4, <4>1 DEF Followable
        <5>2. PICK m \in 1 .. p - 1 : e[m] = Event("added", e[p].index)
          BY <2>4, <4>1 DEF Followable
        <5>3. m \in DOMAIN e
          BY <1>2, <4>1
        <5> QED  BY <1>2, <4>1, <5>1, <5>2, <5>3
      <4>2. CASE p = Len(e) + 1 /\ f[p] = x
        <5>1. PICK m \in DOMAIN e : e[m] = Event("added", i)
          BY DEF Adding
        <5> QED  BY <1>1, <1>2, <4>2, <5>1
      <4> QED  BY <1>3, <4>1, <4>2
    <3>2. \A k \in DOMAIN f : f[k] # Event("done", f[p].index)
      <4>1. Event("done", f[p].index).type = "done"
        BY <3>1, EventIs DEF EventName
      <4> QED  BY <1>5, <4>1
    <3> QED  BY <3>1, <3>2
  <2> QED  BY <2>1, <2>2, <2>3, <2>4 DEF Followable
<1>7. Adding(f, n)
  <2>1. ASSUME NEW j \in 1 .. n PROVE \E m \in DOMAIN f : f[m] = Event("added", j)
    <3>1. PICK m \in DOMAIN e : e[m] = Event("added", j)
      BY DEF Adding
    <3> QED  BY <1>2, <3>1
  <2> QED  BY <1>2, <1>5, <2>1 DEF Adding
<1> QED
  BY <1>2, <1>6, <1>7 DEF f, x

(* The items are done one after the other; all, or as many as can be sent.  *)
LEMMA DoItems ==
  ASSUME NEW e \in Seq(EventType), NEW n \in Nat, Followable(e, n), Adding(e, n),
         NEW k \in 0 .. n, NEW f \in Seq(EventType), Len(f) = Len(e) + k,
         \A m \in 1 .. Len(e) : f[m] = e[m],
         \A j \in 1 .. k : f[Len(e) + j] = Event("done", j)
  PROVE  Followable(f, n) /\ Len(f) > 0 /\ (k = n => AllDone(f, n))
<1>1. /\ DOMAIN f = 1 .. Len(e) + k /\ DOMAIN e = 1 .. Len(e) /\ Len(e) \in Nat
      /\ Len(f) > 0 /\ Len(e) > 0
  BY DEF Adding
<1>2. \A m \in DOMAIN f : \/ m \in DOMAIN e /\ f[m] = e[m]
                          \/ m - Len(e) \in 1 .. k /\ f[m] = Event("done", m - Len(e))
  <2> SUFFICES ASSUME NEW m \in DOMAIN f, m \notin DOMAIN e
               PROVE  m - Len(e) \in 1 .. k /\ f[m] = Event("done", m - Len(e))
    BY <1>1
  <2>1. m - Len(e) \in 1 .. k /\ Len(e) + (m - Len(e)) = m
    BY <1>1
  <2> QED  BY <2>1
<1>3. \A j \in 1 .. k : Event("done", j).type = "done" /\ Event("done", j).index = j
  BY EventIs DEF EventName
<1>4. \A m \in DOMAIN e : e[m].index \in Nat
  BY IndexIsNat
<1>5. Followable(f, n)
  <2>1. Len(f) > 0 => f[1] = Event("created", 0)
    BY <1>1 DEF Followable
  <2>2. \A p \in DOMAIN f : f[p].type \notin Ending
    BY <1>2, <1>3 DEF Followable, Ending
  <2>3. ASSUME NEW p \in DOMAIN f, f[p].type = "added"
        PROVE  /\ f[p].index \in 1 .. n
               /\ f[p].index > 1 => \E m \in 1 .. p - 1 : f[m] = Event("added", f[p].index - 1)
    <3>1. p \in DOMAIN e /\ f[p] = e[p]
      BY <1>2, <1>3, <2>3
    <3>2. e[p].index \in 1 .. n
      BY <2>3, <3>1 DEF Followable
    <3>3. ASSUME e[p].index > 1 PROVE \E m \in 1 .. p - 1 : f[m] = Event("added", e[p].index - 1)
      <4>1. PICK m \in 1 .. p - 1 : e[m] = Event("added", e[p].index - 1)
        BY <2>3, <3>1, <3>3 DEF Followable
      <4>2. m \in 1 .. Len(e)
        BY <1>1, <3>1
      <4> QED  BY <4>1, <4>2
    <3> QED  BY <3>1, <3>2, <3>3
  <2>4. ASSUME NEW p \in DOMAIN f, f[p].type \in {"delta", "done"}
        PROVE  /\ f[p].index \in 1 .. n
               /\ \E m \in 1 .. p - 1 : f[m] = Event("added", f[p].index)
               /\ \A m \in DOMAIN f : f[m] = Event("done", f[p].index) => p <= m
    <3>1. CASE p \in DOMAIN e /\ f[p] = e[p]
      <4>1. e[p].index \in 1 .. n
        BY <2>4, <3>1 DEF Followable
      <4>2. PICK m \in 1 .. p - 1 : e[m] = Event("added", e[p].index)
        BY <2>4, <3>1 DEF Followable
      <4>3. m \in 1 .. Len(e)
        BY <1>1, <3>1
      <4>4. ASSUME NEW l \in DOMAIN f, f[l] = Event("done", e[p].index) PROVE p <= l
        <5>1. CASE l \in DOMAIN e /\ f[l] = e[l]
          BY <2>4, <3>1, <4>4, <5>1 DEF Followable
        <5>2. CASE l - Len(e) \in 1 .. k
          BY <1>1, <3>1, <5>2
        <5> QED  BY <1>2, <5>1, <5>2
      <4> QED  BY <3>1, <4>1, <4>2, <4>3, <4>4
    <3>2. CASE p - Len(e) \in 1 .. k /\ f[p] = Event("done", p - Len(e))
      <4> DEFINE i == p - Len(e)
      <4>1. i \in 1 .. k /\ i \in 1 .. n /\ f[p].index = i
        BY <1>3, <3>2
      <4>2. PICK m \in DOMAIN e : e[m] = Event("added", i)
        BY <4>1 DEF Adding
      <4>3. m \in 1 .. p - 1 /\ f[m] = Event("added", i)
        BY <1>1, <3>2, <4>2
      <4>4. ASSUME NEW l \in DOMAIN f, f[l] = Event("done", i) PROVE p <= l
        <5>1. f[l].type = "done" /\ f[l].index = i
          BY <1>3, <4>1, <4>4
        <5>2. ~(l \in DOMAIN e /\ f[l] = e[l])
          BY <5>1 DEF Adding
        <5>3. l - Len(e) \in 1 .. k /\ f[l] = Event("done", l - Len(e))
          BY <1>2, <5>2
        <5>4. l - Len(e) = i
          BY <1>3, <5>1, <5>3
        <5> QED  BY <1>1, <5>4
      <4> QED  BY <4>1, <4>3, <4>4
    <3> QED  BY <1>2, <3>1, <3>2
  <2> QED  BY <2>1, <2>2, <2>3, <2>4 DEF Followable
<1>6. ASSUME k = n PROVE AllDone(f, n)
  <2>1. ASSUME NEW i \in 1 .. n PROVE \E m \in DOMAIN f : f[m] = Event("done", i)
    <3>1. Len(e) + i \in DOMAIN f /\ f[Len(e) + i] = Event("done", i)
      BY <1>1, <1>6
    <3> QED  BY <3>1
  <2> QED  BY <1>1, <2>1 DEF AllDone
<1> QED
  BY <1>1, <1>5, <1>6

(* The events so far are in order, and so they are with the one that ends   *)
(* them.                                                                    *)
LEMMA FollowableInOrder ==
  ASSUME NEW e \in Seq(EventType), NEW n \in Nat, Followable(e, n)
  PROVE  InOrder(e)
<1>1. /\ \A i \in Nat : /\ Event("added", i).type = "added" /\ Event("added", i).index = i
                        /\ Event("delta", i).type = "delta" /\ Event("delta", i).index = i
                        /\ Event("done", i).type = "done" /\ Event("done", i).index = i
  BY EventIs DEF EventName
<1>2. DOMAIN e = 1 .. Len(e) /\ Len(e) \in Nat
  OBVIOUS
<1>3. \A p \in DOMAIN e : e[p].type \notin {"completed", "incomplete", "failed"}
  BY DEF Followable, Ending
<1>4. ASSUME NEW i \in 1 .. Len(e), NEW p \in DOMAIN e, e[p] = Event("added", i), i > 1
      PROVE  \E m \in DOMAIN e : e[m] = Event("added", i - 1) /\ m < p
  <2>1. e[p].type = "added" /\ e[p].index = i
    BY <1>1, <1>4
  <2>2. PICK m \in 1 .. p - 1 : e[m] = Event("added", i - 1)
    BY <1>4, <2>1 DEF Followable
  <2> QED  BY <1>2, <2>2
<1>5. ASSUME NEW i \in 1 .. Len(e), NEW p \in DOMAIN e,
             e[p] = Event("delta", i) \/ e[p] = Event("done", i)
      PROVE  /\ \E m \in DOMAIN e : e[m] = Event("added", i) /\ m < p
             /\ \A m \in DOMAIN e : e[m] = Event("done", i) => p <= m
  <2>1. e[p].type \in {"delta", "done"} /\ e[p].index = i
    BY <1>1, <1>5
  <2>2. PICK m \in 1 .. p - 1 : e[m] = Event("added", i)
    BY <1>5, <2>1 DEF Followable
  <2>3. \A m_1 \in DOMAIN e : e[m_1] = Event("done", i) => p <= m_1
    BY <1>5, <2>1 DEF Followable
  <2> QED  BY <1>2, <2>2, <2>3
<1>6. Len(e) > 0 => e[1] = Event("created", 0)
  BY DEF Followable
<1> QED
  BY <1>3, <1>4, <1>5, <1>6 DEF InOrder

LEMMA EndInOrder ==
  ASSUME NEW e \in Seq(EventType), NEW n \in Nat, Followable(e, n), Len(e) > 0,
         NEW type \in Ending, type # "failed" => AllDone(e, n)
  PROVE  InOrder(Append(e, Event(type, 0)))
<1> DEFINE x == Event(type, 0)
           f == Append(e, x)
<1>1. x \in EventType /\ x.type = type /\ x.index = 0
  BY EventIs DEF EventName
<1>2. /\ f \in Seq(EventType) /\ Len(f) = Len(e) + 1 /\ f[Len(e) + 1] = x
      /\ \A m \in DOMAIN e : m \in 1 .. Len(e) /\ f[m] = e[m]
      /\ DOMAIN f = 1 .. Len(e) + 1 /\ DOMAIN e = 1 .. Len(e) /\ Len(e) \in Nat
  BY <1>1, AppendFacts
<1> HIDE DEF x, f
<1>3. \A m \in DOMAIN f : (m \in DOMAIN e /\ f[m] = e[m]) \/ (m = Len(e) + 1 /\ f[m] = x)
  BY <1>2
<1>4. \A i \in Nat : /\ Event("added", i).type = "added" /\ Event("added", i).index = i
                     /\ Event("delta", i).type = "delta" /\ Event("delta", i).index = i
                     /\ Event("done", i).type = "done" /\ Event("done", i).index = i
  BY EventIs DEF EventName
<1>5. \A p \in DOMAIN f : f[p].type \in {"completed", "incomplete", "failed"} =>
        p = Len(f) /\ f[p].type = type
  BY <1>1, <1>2, <1>3 DEF Followable, Ending
<1>6. \A p \in DOMAIN f, i \in Nat :
        f[p] = Event("added", i) \/ f[p] = Event("delta", i) \/ f[p] = Event("done", i) =>
          p \in DOMAIN e /\ f[p] = e[p]
  BY <1>1, <1>3, <1>4 DEF Ending
<1>7. ASSUME NEW i \in 1 .. Len(f), NEW p \in DOMAIN f, f[p] = Event("added", i), i > 1
      PROVE  \E m \in DOMAIN f : f[m] = Event("added", i - 1) /\ m < p
  <2>1. p \in DOMAIN e /\ e[p] = f[p] /\ e[p].type = "added" /\ e[p].index = i
    BY <1>2, <1>4, <1>6, <1>7
  <2>2. PICK m \in 1 .. p - 1 : e[m] = Event("added", i - 1)
    BY <1>7, <2>1 DEF Followable
  <2>3. m \in DOMAIN e /\ m \in DOMAIN f /\ m < p
    BY <1>2, <2>1, <2>2
  <2> QED  BY <1>2, <2>2, <2>3
<1>8. ASSUME NEW i \in 1 .. Len(f), NEW p \in DOMAIN f,
             f[p] = Event("delta", i) \/ f[p] = Event("done", i)
      PROVE  /\ \E m \in DOMAIN f : f[m] = Event("added", i) /\ m < p
             /\ \A m \in DOMAIN f : f[m] = Event("done", i) => p <= m
  <2>1. p \in DOMAIN e /\ e[p] = f[p] /\ e[p].type \in {"delta", "done"} /\ e[p].index = i
    BY <1>2, <1>4, <1>6, <1>8
  <2>2. PICK m \in 1 .. p - 1 : e[m] = Event("added", i)
    BY <2>1 DEF Followable
  <2>3. m \in DOMAIN e /\ m \in DOMAIN f /\ m < p /\ f[m] = e[m]
    BY <1>2, <2>1, <2>2
  <2>4. \A l \in DOMAIN f : f[l] = Event("done", i) => p <= l
    <3> SUFFICES ASSUME NEW l \in DOMAIN f, f[l] = Event("done", i) PROVE p <= l
      OBVIOUS
    <3>1. l \in DOMAIN e /\ e[l] = Event("done", i)
      BY <1>2, <1>6
    <3> QED  BY <2>1, <3>1 DEF Followable
  <2> QED  BY <2>2, <2>3, <2>4
<1>9. ASSUME type # "failed", NEW i \in 1 .. Len(f), NEW p \in DOMAIN f, f[p] = Event("added", i)
      PROVE  \E m \in DOMAIN f : f[m] = Event("done", i)
  <2>1. p \in DOMAIN e /\ e[p] = f[p] /\ e[p].type = "added" /\ e[p].index = i
    BY <1>2, <1>4, <1>6, <1>9
  <2>2. i \in 1 .. n
    BY <2>1 DEF Followable
  <2>3. PICK m \in DOMAIN e : e[m] = Event("done", i)
    BY <1>9, <2>2 DEF AllDone
  <2> QED  BY <1>2, <2>3
<1>10. f[1] = Event("created", 0)
  BY <1>2 DEF Followable
<1> QED
  BY <1>5, <1>7, <1>8, <1>9, <1>10 DEF InOrder, f, x

-----------------------------------------------------------------------------
(* The record of a request, field by field.                                 *)
LEMMA RequestFields ==
  ASSUME NEW q \in RequestType
  PROVE  /\ q.pc \in Pc /\ q.streaming \in BOOLEAN /\ q.prev \in Response \cup {None}
         /\ q.id \in Response \cup {None} /\ q.image \in BOOLEAN /\ q.msgs \in Seq(TurnOf)
         /\ q.slots \in Nat /\ q.said \in Nat /\ q.items \in Seq({"message", "reasoning", "call"})
         /\ q.events \in Seq(EventType) /\ q.gone \in BOOLEAN
         /\ q.result \in {"none", "failed", "aborted", "stop", "cut"}
  BY DEF RequestType

LEMMA EmptyIs == ASSUME NEW S PROVE <<>> \in Seq(S) /\ Len(<<>>) = 0 /\ DOMAIN <<>> = {}
  OBVIOUS

LEMMA TwoAppended ==
  ASSUME NEW S, NEW a \in S, NEW b \in S PROVE Append(Append(<<>>, a), b) = <<a, b>>
<1> DEFINE s == Append(Append(<<>>, a), b)
           t == <<a, b>>
<1>1. s \in Seq(S) /\ Len(s) = 2 /\ s[1] = a /\ s[2] = b
  OBVIOUS
<1>2. t \in Seq(S) /\ Len(t) = 2 /\ t[1] = a /\ t[2] = b
  OBVIOUS
<1> HIDE DEF s, t
<1>3. \A i \in 1 .. Len(s) : s[i] = t[i]
  BY <1>1, <1>2
<1>4. s = t
  BY <1>1, <1>2, <1>3, SeqEqual
<1> QED
  BY <1>4 DEF s, t

LEMMA NothingAppended == ASSUME NEW S, NEW e \in Seq(S) PROVE e \o <<>> = e
  OBVIOUS

LEMMA Concatenated ==
  ASSUME NEW S, NEW e \in Seq(S), NEW g \in Seq(S)
  PROVE  /\ e \o g \in Seq(S) /\ Len(e \o g) = Len(e) + Len(g)
         /\ \A m \in 1 .. Len(e) : (e \o g)[m] = e[m]
         /\ \A j \in 1 .. Len(g) : (e \o g)[Len(e) + j] = g[j]
  OBVIOUS

LEMMA IdleIs ==
  /\ Idle \in RequestType /\ EventInv(Idle) /\ StageInv(Idle)
  /\ ~Named(Idle) /\ Idle.prev = None /\ Idle.id = None /\ Idle.msgs = <<>> /\ ~Ready(Idle)
  /\ ~Answered(Idle)
<1>1. /\ Idle.pc = "idle" /\ Idle.streaming = FALSE /\ Idle.prev = None /\ Idle.id = None
      /\ Idle.image = FALSE /\ Idle.msgs = <<>> /\ Idle.slots = 0 /\ Idle.said = 0
      /\ Idle.items = <<>> /\ Idle.events = <<>> /\ Idle.gone = FALSE /\ Idle.result = "none"
  BY DEF Idle
<1>2. <<>> \in Seq(TurnOf) /\ <<>> \in Seq({"message", "reasoning", "call"}) /\ <<>> \in Seq(EventType)
  BY EmptyIs
<1>3. Idle \in RequestType
  BY <1>2 DEF Idle, RequestType, Pc
<1>4. InOrder(<<>>)
  BY EmptyIs DEF InOrder
<1>5. EventInv(Idle)
  BY <1>1, <1>4, EmptyIs DEF EventInv, Writes
<1>6. StageInv(Idle)
  BY <1>1 DEF StageInv, Named
<1> QED
  BY <1>1, <1>3, <1>5, <1>6 DEF Named, Ready, Answered

(* Writing to the client changes the events only.                           *)
Alike(q, p) ==
  /\ p.pc = q.pc /\ p.streaming = q.streaming /\ p.prev = q.prev /\ p.id = q.id
  /\ p.image = q.image /\ p.msgs = q.msgs /\ p.slots = q.slots /\ p.items = q.items
  /\ p.result = q.result

LEMMA EmittedIs ==
  ASSUME NEW q \in RequestType, NEW frames \in Seq(EventType), NEW p \in Emitted(q, frames)
  PROVE  /\ p \in RequestType /\ Alike(q, p)
         /\ \/ ~Writes(q) /\ p = q
            \/ /\ Writes(q)
               /\ \E n \in 0 .. Len(frames) :
                    /\ p.events = q.events \o SubSeq(frames, 1, n)
                    /\ p.gone <=> n < Len(frames)
<1>1. CASE ~Writes(q)
  <2>1. p = q
    BY <1>1 DEF Emitted, Writes
  <2> QED  BY <1>1, <2>1 DEF Alike
<1>2. CASE Writes(q)
  <2>1. PICK n \in 0 .. Len(frames) :
          p = [q EXCEPT !.events = @ \o SubSeq(frames, 1, n), !.gone = (n < Len(frames))]
    BY <1>2 DEF Emitted, Writes
  <2> DEFINE e == q.events \o SubSeq(frames, 1, n)
             g == n < Len(frames)
  <2>2. e \in Seq(EventType)
    BY RequestFields
  <2>3. p = [q EXCEPT !.events = e, !.gone = g] /\ g \in BOOLEAN
    BY <2>1
  <2> HIDE DEF e, g
  <2>4. p \in RequestType
    BY <2>2, <2>3 DEF RequestType
  <2>5. p.events = e /\ p.gone = g /\ Alike(q, p)
    BY <2>3 DEF RequestType, Alike
  <2> QED  BY <1>2, <2>4, <2>5 DEF e, g
<1> QED
  BY <1>1, <1>2

(* One frame is written or not; of two, the second after the first.         *)
LEMMA PiecesOfOne ==
  ASSUME NEW e \in Seq(EventType), NEW x \in EventType, NEW n \in 0 .. Len(<<x>>)
  PROVE  /\ <<x>> \in Seq(EventType) /\ Len(<<x>>) = 1
         /\ n = 0 => e \o SubSeq(<<x>>, 1, n) = e
         /\ n = 1 => e \o SubSeq(<<x>>, 1, n) = Append(e, x)
  OBVIOUS

LEMMA PiecesOfTwo ==
  ASSUME NEW e \in Seq(EventType), NEW x \in EventType, NEW y \in EventType,
         NEW n \in 0 .. Len(<<x, y>>)
  PROVE  /\ <<x, y>> \in Seq(EventType) /\ Len(<<x, y>>) = 2
         /\ n = 0 => e \o SubSeq(<<x, y>>, 1, n) = e
         /\ n = 1 => e \o SubSeq(<<x, y>>, 1, n) = Append(e, x)
         /\ n = 2 => e \o SubSeq(<<x, y>>, 1, n) = Append(Append(e, x), y)
  OBVIOUS

-----------------------------------------------------------------------------
(* A step of a request after which it continues what it continued before,   *)
(* or nothing.                                                              *)
Carry(q, p) ==
  \/ ~Named(p) /\ ~Answered(p) /\ p.prev = None /\ p.msgs = <<>>
  \/ /\ p.id = q.id /\ p.prev = q.prev /\ p.image = q.image /\ p.msgs = q.msgs
     /\ (Named(p) => Named(q)) /\ (Ready(p) => Ready(q)) /\ (Answered(p) => Answered(q))

Ordinary(r) ==
  /\ \E p \in RequestType :
       /\ Become(r, p) /\ EventInv(p) /\ StageInv(p) /\ Carry(req[r], p)
       /\ Named(p) /\ p.result = "stop" => req[r].result = "stop" \/ p.id \in full'
  /\ \A id \in told' : id \in told \/ (Answered(req[r]) /\ id = req[r].id)
  /\ UNCHANGED <<settingVars, cacheVars, putVars, least>>
  /\ (UNCHANGED talk /\ full \subseteq full') \/ Forget

Fine(r) == r \in Request /\ req[r] \in RequestType /\ EventInv(req[r]) /\ StageInv(req[r])

LEMMA GivesUp ==
  ASSUME NEW r, Fine(r), Return(r)
  PROVE  \E p \in RequestType :
           /\ Become(r, p) /\ EventInv(p) /\ StageInv(p) /\ Carry(req[r], p)
           /\ Named(p) /\ p.result = "stop" => req[r].result = "stop" \/ p.id \in full'
  BY IdleIs DEF Return, Carry

(* A step that writes nothing.                                              *)
LEMMA Turns ==
  ASSUME NEW r, Fine(r), NEW pc \in Pc, NEW slots \in Nat,
         NEW result \in {"none", "failed", "aborted", "stop", "cut"},
         NEW p, p = [req[r] EXCEPT !.pc = pc, !.slots = slots, !.result = result]
  PROVE  /\ p \in RequestType
         /\ p.pc = pc /\ p.slots = slots /\ p.result = result
         /\ p.streaming = req[r].streaming /\ p.prev = req[r].prev /\ p.id = req[r].id
         /\ p.image = req[r].image /\ p.msgs = req[r].msgs /\ p.items = req[r].items
         /\ p.events = req[r].events /\ p.gone = req[r].gone
  BY DEF RequestType, Fine

LEMMA AcquireStep == ASSUME NEW r, Fine(r), Acquire(r) PROVE Ordinary(r)
<1> DEFINE q == req[r]
<1>1. CASE Return(r)
  <2>1. \E p \in RequestType :
           /\ Become(r, p) /\ EventInv(p) /\ StageInv(p) /\ Carry(req[r], p)
           /\ Named(p) /\ p.result = "stop" => req[r].result = "stop" \/ p.id \in full'
    BY <1>1, GivesUp
  <2> QED  BY <2>1 DEF Ordinary, Acquire, Quiet, cacheVars, putVars
<1>2. ASSUME NEW p, p = [q EXCEPT !.pc = "held", !.slots = 1], Become(r, p) PROVE Ordinary(r)
  <2>1. p \in RequestType /\ p.pc = "held" /\ p.slots = 1 /\ p.result = q.result
        /\ p.streaming = q.streaming /\ p.prev = q.prev /\ p.id = q.id
        /\ p.image = q.image /\ p.msgs = q.msgs /\ p.items = q.items
        /\ p.events = q.events /\ p.gone = q.gone
    BY <1>2 DEF RequestType, Fine, Pc
  <2>2. q.pc = "parse"
    BY DEF Acquire
  <2>3. EventInv(p)
    BY <2>1, <2>2 DEF Fine, EventInv, Writes
  <2>4. StageInv(p) /\ p.result = "none"
    BY <2>1, <2>2 DEF Fine, StageInv, Named
  <2>5. Carry(q, p)
    BY <2>1, <2>2 DEF Carry, Named, Ready, Answered
  <2> QED  BY <1>2, <2>1, <2>3, <2>4, <2>5 DEF Ordinary, Acquire, Quiet, cacheVars, putVars
<1> QED
  BY <1>1, <1>2 DEF Acquire

LEMMA UpstreamStep ==
  ASSUME NEW r, Fine(r), UpstreamFails(r) \/ UpstreamDone(r) PROVE Ordinary(r)
<1> DEFINE q == req[r]
<1>1. q.pc = "relay" /\ q.result = "none"
  BY DEF UpstreamFails, UpstreamDone, Fine, StageInv
<1>2. PICK p : /\ Become(r, p)
               /\ \/ p = [q EXCEPT !.pc = "close", !.result = "failed"]
                  \/ p = [q EXCEPT !.pc = "tools"]
  BY DEF UpstreamFails, UpstreamDone
<1>3. /\ p \in RequestType /\ p.slots = q.slots
      /\ p.streaming = q.streaming /\ p.prev = q.prev /\ p.id = q.id
      /\ p.image = q.image /\ p.msgs = q.msgs /\ p.items = q.items
      /\ p.events = q.events /\ p.gone = q.gone
      /\ \/ p.pc = "close" /\ p.result = "failed"
         \/ p.pc = "tools" /\ p.result = "none"
  BY <1>1, <1>2 DEF RequestType, Fine, Pc
<1>4. EventInv(p)
  BY <1>1, <1>3 DEF Fine, EventInv, Writes
<1>5. StageInv(p)
  BY <1>1, <1>3 DEF Fine, StageInv, Named
<1>6. Carry(q, p)
  BY <1>1, <1>3 DEF Carry, Named, Ready, Answered
<1> QED
  BY <1>2, <1>3, <1>4, <1>5, <1>6 DEF Ordinary, UpstreamFails, UpstreamDone, Quiet, cacheVars, putVars

LEMMA ToolsDoneStep == ASSUME NEW r, Fine(r), ToolsDone(r) PROVE Ordinary(r)
<1> DEFINE q == req[r]
<1>1. PICK result \in {"stop", "cut"} :
        /\ Become(r, [q EXCEPT !.pc = "close", !.result = result])
        /\ full' = IF result = "stop" THEN full \cup {q.id} ELSE full
  BY DEF ToolsDone
<1> DEFINE p == [q EXCEPT !.pc = "close", !.result = result]
<1>2. /\ p \in RequestType /\ p.slots = q.slots
      /\ p.streaming = q.streaming /\ p.prev = q.prev /\ p.id = q.id
      /\ p.image = q.image /\ p.msgs = q.msgs /\ p.items = q.items
      /\ p.events = q.events /\ p.gone = q.gone
      /\ p.pc = "close" /\ p.result = result
  BY DEF RequestType, Fine, Pc
<1>3. Become(r, p)
  BY <1>1
<1> HIDE DEF p
<1>4. q.pc = "tools"
  BY DEF ToolsDone
<1>5. EventInv(p)
  BY <1>2, <1>4 DEF Fine, EventInv, Writes
<1>6. StageInv(p)
  BY <1>2, <1>4 DEF Fine, StageInv, Named
<1>7. Carry(q, p)
  BY <1>2, <1>4 DEF Carry, Named, Ready, Answered
<1>8. p.result = "stop" => p.id \in full'
  BY <1>1, <1>2
<1> QED
  BY <1>1, <1>2, <1>3, <1>5, <1>6, <1>7, <1>8 DEF Ordinary, ToolsDone, cacheVars, putVars

LEMMA ReleaseStep == ASSUME NEW r, Fine(r), Release(r) PROVE Ordinary(r)
<1> DEFINE q == req[r]
           p == [q EXCEPT !.pc = "answer", !.slots = @ - 1]
<1>1. q.pc = "release" /\ q.slots = 1
  BY DEF Release, Fine, StageInv
<1>2. p = [q EXCEPT !.pc = "answer", !.slots = 0]
  BY <1>1
<1>4. Become(r, p) /\ q \in RequestType
  BY DEF Release, Fine
<1> HIDE DEF p
<1>3. /\ p \in RequestType /\ p.slots = 0
      /\ p.streaming = q.streaming /\ p.prev = q.prev /\ p.id = q.id
      /\ p.image = q.image /\ p.msgs = q.msgs /\ p.items = q.items
      /\ p.events = q.events /\ p.gone = q.gone
      /\ p.pc = "answer" /\ p.result = q.result
  BY <1>2 DEF RequestType, Fine, Pc
<1>5. EventInv(p)
  BY <1>1, <1>3 DEF Fine, EventInv, Writes
<1>6. StageInv(p)
  BY <1>1, <1>3 DEF Fine, StageInv, Named
<1>7. Carry(q, p)
  BY <1>1, <1>3 DEF Carry, Named, Ready, Answered
<1> QED
  BY <1>3, <1>4, <1>5, <1>6, <1>7 DEF Ordinary, Release, Quiet, cacheVars, putVars

LEMMA AnswerStep == ASSUME NEW r, Fine(r), Answer(r) PROVE Ordinary(r)
<1>1. Return(r)
  BY DEF Answer
<1>2. \E p \in RequestType :
         /\ Become(r, p) /\ EventInv(p) /\ StageInv(p) /\ Carry(req[r], p)
         /\ Named(p) /\ p.result = "stop" => req[r].result = "stop" \/ p.id \in full'
  BY <1>1, GivesUp
<1>3. \A id \in told' : id \in told \/ (Answered(req[r]) /\ id = req[r].id)
  BY DEF Answer, Answered, Fine, EventInv
<1> QED
  BY <1>2, <1>3 DEF Ordinary, Answer, settingVars, cacheVars, putVars

(* The requests the client hears of: the opening of the stream.             *)
LEMMA OpenStep == ASSUME NEW r, Fine(r), Open(r) PROVE Ordinary(r)
<1> DEFINE q == req[r]
           x == Event("created", 0)
           y == Event("in_progress", 0)
<1>1. q.pc = "open" /\ q.events = <<>> /\ q.items = <<>> /\ ~q.gone /\ q.result = "none"
  BY DEF Open, Fine, EventInv, StageInv
<1>2. PICK stream \in BOOLEAN : \E e \in Emitted([q EXCEPT !.streaming = stream], Opening) :
        IF e.gone THEN Return(r) ELSE Become(r, [e EXCEPT !.pc = "relay"])
  BY DEF Open
<1> DEFINE a == [q EXCEPT !.streaming = stream]
<1>3. PICK e \in Emitted(a, Opening) : IF e.gone THEN Return(r) ELSE Become(r, [e EXCEPT !.pc = "relay"])
  BY <1>2
<1>4. /\ a \in RequestType /\ a.pc = "open" /\ a.streaming = stream /\ a.prev = q.prev /\ a.id = q.id
      /\ a.image = q.image /\ a.msgs = q.msgs /\ a.slots = q.slots /\ a.items = <<>>
      /\ a.events = <<>> /\ ~a.gone /\ a.result = "none"
  BY <1>1 DEF RequestType, Fine
<1> HIDE DEF a
<1>5. x \in EventType /\ y \in EventType /\ x.type = "created" /\ y.type = "in_progress"
  BY EventIs DEF EventName
<1>6. Opening = <<x, y>> /\ Opening \in Seq(EventType) /\ Len(Opening) = 2
  BY <1>5 DEF Opening
<1>7. /\ e \in RequestType /\ Alike(a, e)
      /\ \/ ~Writes(a) /\ e = a
         \/ /\ Writes(a)
            /\ \E n \in 0 .. Len(Opening) :
                 /\ e.events = a.events \o SubSeq(Opening, 1, n)
                 /\ e.gone <=> n < Len(Opening)
  BY <1>3, <1>4, <1>6, EmittedIs
<1>8. CASE e.gone
  BY <1>3, <1>8, GivesUp DEF Ordinary, Open, cacheVars, putVars, settingVars
<1>9. CASE ~e.gone
  <2> DEFINE p == [e EXCEPT !.pc = "relay"]
  <2>1. Become(r, p)
    BY <1>3, <1>9
  <2>2. /\ p \in RequestType /\ p.pc = "relay" /\ p.streaming = stream /\ p.prev = q.prev /\ p.id = q.id
        /\ p.image = q.image /\ p.msgs = q.msgs /\ p.slots = q.slots /\ p.items = <<>>
        /\ p.events = e.events /\ ~p.gone /\ p.result = "none"
    BY <1>4, <1>7, <1>9 DEF RequestType, Pc, Alike
  <2> HIDE DEF p
  <2>3. stream => p.events = <<x, y>>
    <3> SUFFICES ASSUME stream PROVE p.events = <<x, y>>
      BY <1>5, TwoAppended
    <3>1. PICK n \in 0 .. Len(Opening) : /\ e.events = a.events \o SubSeq(Opening, 1, n)
                                         /\ e.gone <=> n < Len(Opening)
      BY <1>4, <1>7 DEF Writes
    <3>2. n = 2
      BY <1>6, <1>9, <3>1
    <3>3. <<>> \o SubSeq(<<x, y>>, 1, 2) = Append(Append(<<>>, x), y)
      BY <1>5, EmptyIs, PiecesOfTwo
    <3>4. Append(Append(<<>>, x), y) = <<x, y>>
      BY <1>5, TwoAppended
    <3> QED  BY <1>4, <1>6, <2>2, <3>1, <3>2, <3>3, <3>4
  <2>4. ~stream => p.events = <<>>
    BY <1>4, <1>7, <2>2 DEF Writes
  <2>5. Followable(<<x, y>>, 0) /\ Adding(<<x, y>>, 0)
    <3>1. <<x, y>>[1] = x /\ <<x, y>>[2] = y /\ Len(<<x, y>>) = 2 /\ DOMAIN <<x, y>> = {1, 2}
      OBVIOUS
    <3>2. \A i \in DOMAIN <<x, y>> : <<x, y>>[i].type \in {"created", "in_progress"}
      BY <1>5, <3>1
    <3>3. Followable(<<x, y>>, 0)
      BY <3>1, <3>2 DEF Followable, Ending
    <3>4. 1 .. 0 = {}
      OBVIOUS
    <3> QED  BY <3>1, <3>2, <3>3, <3>4 DEF Adding
  <2>6. <<x, y>> \in Seq(EventType)
    BY <1>5
  <2>7. InOrder(<<x, y>>) /\ InOrder(<<>>)
    BY <2>5, <2>6, FollowableInOrder, IdleIs DEF EventInv, Idle
  <2>8. Len(p.items) = 0
    BY <2>2, EmptyIs
  <2>9. \A i \in DOMAIN p.events : p.events[i].type \notin Ending
    BY <2>3, <2>4, <2>5, EmptyIs DEF Followable
  <2>10. EventInv(p)
    BY <2>2, <2>3, <2>4, <2>5, <2>7, <2>8, <2>9 DEF EventInv, Writes
  <2>11. StageInv(p)
    BY <1>1, <2>2 DEF Fine, StageInv, Named
  <2>12. Carry(q, p)
    BY <1>1, <2>2 DEF Carry, Named, Ready, Answered
  <2> QED  BY <2>1, <2>2, <2>10, <2>11, <2>12 DEF Ordinary, Open, settingVars, cacheVars, putVars
<1> QED
  BY <1>8, <1>9

(* What the sink does with the frames of an event: those of an item that is *)
(* there, or of the next one.                                               *)
LEMMA RelayedStep ==
  ASSUME NEW r, Fine(r), req[r].pc \in {"relay", "tools"},
         NEW items \in Seq({"message", "reasoning", "call"}), NEW frames \in Seq(EventType),
         Relayed(r, items, frames),
         Writes(req[r]) => \A n \in 0 .. Len(frames) :
           /\ InOrder(req[r].events \o SubSeq(frames, 1, n))
           /\ \A i \in DOMAIN (req[r].events \o SubSeq(frames, 1, n)) :
                (req[r].events \o SubSeq(frames, 1, n))[i].type \notin Ending
           /\ n = Len(frames) =>
                /\ Followable(req[r].events \o SubSeq(frames, 1, n), Len(items))
                /\ Adding(req[r].events \o SubSeq(frames, 1, n), Len(items)),
         UNCHANGED <<cacheVars, told, putVars>> /\ Quiet
  PROVE  Ordinary(r)
<1> DEFINE q == req[r]
           m == q.said + 1
           a == [q EXCEPT !.items = items, !.said = m]
<1>1. PICK e \in Emitted(a, frames) :
        Become(r, IF e.gone THEN [e EXCEPT !.pc = "close", !.result = "aborted"] ELSE e)
  BY DEF Relayed
<1>2. m \in Nat
  BY RequestFields DEF Fine
<1> HIDE DEF m
<1>3. /\ a \in RequestType /\ a.pc = q.pc /\ a.streaming = q.streaming /\ a.prev = q.prev /\ a.id = q.id
      /\ a.image = q.image /\ a.msgs = q.msgs /\ a.slots = q.slots /\ a.items = items
      /\ a.events = q.events /\ a.gone = q.gone /\ a.result = q.result
  BY <1>2 DEF RequestType, Fine
<1> HIDE DEF a
<1>4. ~q.gone /\ q.result = "none" /\ q.slots = 1
  BY DEF Fine, EventInv, StageInv
<1>5. /\ e \in RequestType /\ Alike(a, e)
      /\ \/ ~Writes(a) /\ e = a
         \/ /\ Writes(a)
            /\ \E n \in 0 .. Len(frames) :
                 /\ e.events = a.events \o SubSeq(frames, 1, n)
                 /\ e.gone <=> n < Len(frames)
  BY <1>1, <1>3, EmittedIs
<1>6. InOrder(e.events) /\ \A i \in DOMAIN e.events : e.events[i].type \notin Ending
  <2>1. CASE ~Writes(a) /\ e = a
    BY <1>3, <2>1 DEF Fine, EventInv
  <2>2. CASE Writes(a)
    <3>1. Writes(q)
      BY <1>3, <2>2 DEF Writes
    <3> QED  BY <1>3, <1>5, <2>2, <3>1
  <2> QED  BY <1>5, <2>1, <2>2
<1>7. ~q.streaming => e.events = <<>> /\ ~e.gone
  BY <1>3, <1>5 DEF Writes, Fine, EventInv
<1>8. CASE e.gone
  <2> DEFINE p == [e EXCEPT !.pc = "close", !.result = "aborted"]
  <2>1. Become(r, p)
    BY <1>1, <1>8
  <2>2. /\ p \in RequestType /\ p.pc = "close" /\ p.streaming = q.streaming /\ p.prev = q.prev /\ p.id = q.id
        /\ p.image = q.image /\ p.msgs = q.msgs /\ p.slots = q.slots
        /\ p.events = e.events /\ p.gone /\ p.result = "aborted"
    <3>1. e \in RequestType /\ e.gone
      BY <1>5, <1>8
    <3>2. /\ p \in RequestType /\ p.pc = "close" /\ p.result = "aborted" /\ p.gone
          /\ p.events = e.events /\ p.streaming = e.streaming /\ p.prev = e.prev /\ p.id = e.id
          /\ p.image = e.image /\ p.msgs = e.msgs /\ p.slots = e.slots
      BY ONLY <3>1 DEF RequestType, Pc
    <3>3. /\ e.streaming = q.streaming /\ e.prev = q.prev /\ e.id = q.id
          /\ e.image = q.image /\ e.msgs = q.msgs /\ e.slots = q.slots
      BY <1>3, <1>5 DEF Alike
    <3> HIDE DEF p, q
    <3> QED  BY ONLY <3>2, <3>3
  <2> HIDE DEF p
  <2>3. EventInv(p)
    BY <1>6, <1>7, <1>8, <2>2 DEF EventInv, Writes
  <2>4. StageInv(p)
    BY <1>4, <2>2 DEF Fine, StageInv, Named
  <2>5. Carry(q, p)
    BY <2>2 DEF Carry, Named, Ready, Answered
  <2> QED  BY <2>1, <2>2, <2>3, <2>4, <2>5 DEF Ordinary, Quiet, cacheVars, putVars
<1>9. CASE ~e.gone
  <2>1. Become(r, e)
    BY <1>1, <1>9
  <2>2. /\ e.pc = q.pc /\ e.streaming = q.streaming /\ e.prev = q.prev /\ e.id = q.id
        /\ e.image = q.image /\ e.msgs = q.msgs /\ e.slots = q.slots /\ e.items = items
        /\ e.result = "none"
    BY <1>3, <1>4, <1>5 DEF Alike
  <2>3. Writes(e) => Followable(e.events, Len(items)) /\ Adding(e.events, Len(items))
    <3> SUFFICES ASSUME Writes(e)
                 PROVE  Followable(e.events, Len(items)) /\ Adding(e.events, Len(items))
      OBVIOUS
    <3>1. Writes(a) /\ Writes(q)
      BY <1>3, <1>4, <2>2 DEF Writes
    <3>2. PICK n \in 0 .. Len(frames) : /\ e.events = a.events \o SubSeq(frames, 1, n)
                                        /\ e.gone <=> n < Len(frames)
      BY <1>5, <3>1
    <3>3. n = Len(frames)
      BY <1>9, <3>2
    <3> QED  BY <1>3, <3>1, <3>2, <3>3
  <2>4. EventInv(e)
    BY <1>6, <1>7, <1>9, <2>2, <2>3 DEF EventInv
  <2>5. StageInv(e)
    BY <2>2 DEF Fine, StageInv, Named
  <2>6. Carry(q, e)
    BY <2>2 DEF Carry, Named, Ready, Answered
  <2> QED  BY <1>5, <2>1, <2>2, <2>4, <2>5, <2>6 DEF Ordinary, Quiet, cacheVars, putVars
<1> QED
  BY <1>8, <1>9

(* A delta of an item that was added.                                       *)
LEMMA DeltaFrames ==
  ASSUME NEW e \in Seq(EventType), NEW n \in Nat, Followable(e, n), Adding(e, n),
         NEW i \in 1 .. n, NEW k \in 0 .. Len(<<Event("delta", i)>>)
  PROVE  LET f == e \o SubSeq(<<Event("delta", i)>>, 1, k)
         IN /\ InOrder(f) /\ \A j \in DOMAIN f : f[j].type \notin Ending
            /\ k = Len(<<Event("delta", i)>>) => Followable(f, n) /\ Adding(f, n)
<1> DEFINE x == Event("delta", i)
           f == e \o SubSeq(<<x>>, 1, k)
<1>1. x \in EventType
  BY EventIs DEF EventName
<1>2. Len(<<x>>) = 1 /\ (k = 0 \/ k = 1)
  OBVIOUS
<1>3. CASE k = 0
  <2>1. f = e
    BY <1>1, <1>3, PiecesOfOne
  <2> QED  BY <1>2, <1>3, <2>1, FollowableInOrder DEF Followable
<1>4. CASE k = 1
  <2>1. f = Append(e, x)
    BY <1>1, <1>4, PiecesOfOne
  <2>2. f \in Seq(EventType) /\ Followable(f, n) /\ Adding(f, n)
    BY <2>1, AddDelta
  <2> QED  BY <2>2, FollowableInOrder DEF Followable
<1> QED
  BY <1>2, <1>3, <1>4

(* The next item is added, with a delta.                                    *)
LEMMA ItemFrames ==
  ASSUME NEW e \in Seq(EventType), NEW n \in Nat, Followable(e, n), Adding(e, n),
         NEW k \in 0 .. Len(<<Event("added", n + 1), Event("delta", n + 1)>>)
  PROVE  LET f == e \o SubSeq(<<Event("added", n + 1), Event("delta", n + 1)>>, 1, k)
         IN /\ InOrder(f) /\ \A j \in DOMAIN f : f[j].type \notin Ending
            /\ k = Len(<<Event("added", n + 1), Event("delta", n + 1)>>) =>
                 Followable(f, n + 1) /\ Adding(f, n + 1)
<1> DEFINE x == Event("added", n + 1)
           y == Event("delta", n + 1)
           f == e \o SubSeq(<<x, y>>, 1, k)
           g == Append(e, x)
<1>1. x \in EventType /\ y \in EventType
  BY EventIs DEF EventName
<1>2. Len(<<x, y>>) = 2 /\ (k = 0 \/ k = 1 \/ k = 2)
  OBVIOUS
<1>3. g \in Seq(EventType) /\ Followable(g, n + 1) /\ Adding(g, n + 1)
  BY AddItem
<1> DEFINE Goal == /\ InOrder(f) /\ \A j \in DOMAIN f : f[j].type \notin Ending
                   /\ k = Len(<<x, y>>) => Followable(f, n + 1) /\ Adding(f, n + 1)
<1>4. g \in Seq(EventType) /\ n + 1 \in Nat /\ n + 1 \in 1 .. n + 1
  BY <1>3
<1>5. ASSUME NEW m \in Nat, f \in Seq(EventType), Followable(f, m), k = 2 => m = n + 1 /\ Adding(f, m)
      PROVE  Goal
  <2> HIDE DEF f, x, y
  <2>1. InOrder(f)
    BY <1>5, FollowableInOrder
  <2> QED  BY <1>2, <1>5, <2>1 DEF Followable
<1>6. /\ k = 0 => f = e
      /\ k = 1 => f = g
      /\ k = 2 => f = Append(g, y)
  BY <1>1, PiecesOfTwo
<1>7. LET h == Append(g, y) IN h \in Seq(EventType) /\ Followable(h, n + 1) /\ Adding(h, n + 1)
  <2> HIDE DEF g
  <2> QED  BY <1>3, <1>4, AddDelta
<1> HIDE DEF Goal, f, g, x, y
<1>8. Goal
  <2>1. CASE k = 0
    BY <1>6, <1>5, <2>1
  <2>2. CASE k = 1
    BY <1>3, <1>4, <1>6, <1>5, <2>2
  <2>3. CASE k = 2
    BY <1>4, <1>6, <1>7, <1>5, <2>3
  <2> QED  BY <1>2, <2>1, <2>2, <2>3
<1> QED
  BY <1>8 DEF Goal, f, g, x, y

LEMMA TextEventStep ==
  ASSUME NEW r, Fine(r), NEW kind \in {"message", "reasoning"}, TextEvent(r, kind)
  PROVE  Ordinary(r)
<1> DEFINE q == req[r]
           n == Len(q.items)
<1>1. /\ q.pc = "relay" /\ q.items \in Seq({"message", "reasoning", "call"})
      /\ n \in Nat /\ q.events \in Seq(EventType)
      /\ UNCHANGED <<cacheVars, told, putVars>> /\ Quiet
  BY RequestFields DEF TextEvent, Fine
<1>2. Writes(q) => Followable(q.events, n) /\ Adding(q.events, n)
  BY <1>1 DEF Fine, EventInv
<1>3. ASSUME NEW i \in DOMAIN q.items, Relayed(r, q.items, <<Event("delta", i)>>)
      PROVE  Ordinary(r)
  <2>1. i \in 1 .. n
    BY <1>1
  <2>2. <<Event("delta", i)>> \in Seq(EventType)
    <3>1. Event("delta", i) \in EventType
      BY <2>1, EventIs DEF EventName
    <3> QED  BY <3>1
  <2>3. Writes(q) => \A k \in 0 .. Len(<<Event("delta", i)>>) :
           /\ InOrder(q.events \o SubSeq(<<Event("delta", i)>>, 1, k))
           /\ \A j \in DOMAIN (q.events \o SubSeq(<<Event("delta", i)>>, 1, k)) :
                (q.events \o SubSeq(<<Event("delta", i)>>, 1, k))[j].type \notin Ending
           /\ k = Len(<<Event("delta", i)>>) =>
                /\ Followable(q.events \o SubSeq(<<Event("delta", i)>>, 1, k), n)
                /\ Adding(q.events \o SubSeq(<<Event("delta", i)>>, 1, k), n)
    BY <1>1, <1>2, <2>1, DeltaFrames
  <2> QED  BY <1>1, <1>3, <2>2, <2>3, RelayedStep
<1>4. ASSUME Relayed(r, Append(q.items, kind), <<Event("added", n + 1), Event("delta", n + 1)>>)
      PROVE  Ordinary(r)
  <2> DEFINE items  == Append(q.items, kind)
             frames == <<Event("added", n + 1), Event("delta", n + 1)>>
  <2>1. items \in Seq({"message", "reasoning", "call"}) /\ Len(items) = n + 1
    BY <1>1
  <2>2. frames \in Seq(EventType)
    <3>1. Event("added", n + 1) \in EventType /\ Event("delta", n + 1) \in EventType
      BY <1>1, EventIs DEF EventName
    <3> QED  BY <3>1
  <2>3. Writes(q) => \A k \in 0 .. Len(frames) :
           /\ InOrder(q.events \o SubSeq(frames, 1, k))
           /\ \A j \in DOMAIN (q.events \o SubSeq(frames, 1, k)) :
                (q.events \o SubSeq(frames, 1, k))[j].type \notin Ending
           /\ k = Len(frames) =>
                /\ Followable(q.events \o SubSeq(frames, 1, k), n + 1)
                /\ Adding(q.events \o SubSeq(frames, 1, k), n + 1)
    BY <1>1, <1>2, ItemFrames
  <2>4. Relayed(r, items, frames)
    BY <1>4
  <2> HIDE DEF items, frames
  <2> QED  BY <1>1, <2>1, <2>2, <2>3, <2>4, RelayedStep
<1> QED
  BY <1>3, <1>4 DEF TextEvent

LEMMA ToolCallStep == ASSUME NEW r, Fine(r), ToolCall(r) PROVE Ordinary(r)
<1> DEFINE q == req[r]
           n == Len(q.items)
           items  == Append(q.items, "call")
           frames == <<Event("added", n + 1), Event("delta", n + 1)>>
<1>1. /\ q.pc = "tools" /\ q.items \in Seq({"message", "reasoning", "call"})
      /\ n \in Nat /\ q.events \in Seq(EventType)
      /\ UNCHANGED <<cacheVars, told, putVars>> /\ Quiet
  BY RequestFields DEF ToolCall, Fine
<1>2. CASE Relayed(r, items, frames)
  <2>1. items \in Seq({"message", "reasoning", "call"}) /\ Len(items) = n + 1
    BY <1>1
  <2>2. frames \in Seq(EventType)
    <3>1. Event("added", n + 1) \in EventType /\ Event("delta", n + 1) \in EventType
      BY <1>1, EventIs DEF EventName
    <3> QED  BY <3>1
  <2>3. Writes(q) => Followable(q.events, n) /\ Adding(q.events, n)
    BY <1>1 DEF Fine, EventInv
  <2>4. Writes(q) => \A k \in 0 .. Len(frames) :
           /\ InOrder(q.events \o SubSeq(frames, 1, k))
           /\ \A j \in DOMAIN (q.events \o SubSeq(frames, 1, k)) :
                (q.events \o SubSeq(frames, 1, k))[j].type \notin Ending
           /\ k = Len(frames) =>
                /\ Followable(q.events \o SubSeq(frames, 1, k), n + 1)
                /\ Adding(q.events \o SubSeq(frames, 1, k), n + 1)
    BY <1>1, <2>3, ItemFrames
  <2> HIDE DEF items, frames
  <2> QED  BY <1>1, <1>2, <2>1, <2>2, <2>4, RelayedStep
<1>3. CASE Become(r, [q EXCEPT !.pc = "close", !.result = "failed"])
  <2> DEFINE p == [q EXCEPT !.pc = "close", !.result = "failed"]
  <2>1. /\ p \in RequestType /\ p.pc = "close" /\ p.result = "failed" /\ p.slots = q.slots
        /\ p.streaming = q.streaming /\ p.prev = q.prev /\ p.id = q.id
        /\ p.image = q.image /\ p.msgs = q.msgs /\ p.items = q.items
        /\ p.events = q.events /\ p.gone = q.gone
    BY DEF RequestType, Fine, Pc
  <2>2. Become(r, p)
    BY <1>3
  <2> HIDE DEF p
  <2>3. EventInv(p)
    BY <1>1, <2>1 DEF Fine, EventInv, Writes
  <2>4. StageInv(p)
    BY <1>1, <2>1 DEF Fine, StageInv, Named
  <2>5. Carry(q, p)
    BY <1>1, <2>1 DEF Carry, Named, Ready, Answered
  <2> QED  BY <1>1, <2>1, <2>2, <2>3, <2>4, <2>5 DEF Ordinary, Quiet, cacheVars, putVars
<1> QED
  BY <1>2, <1>3 DEF ToolCall

(* The items are closed, and the response is kept if it is complete and its *)
(* client is there.                                                         *)
LEMMA CloseStep == ASSUME NEW r, Fine(r), Close(r) PROVE Ordinary(r)
<1> DEFINE q == req[r]
           n == Len(q.items)
           dones  == [j \in 1 .. n |-> Event("done", j)]
           frames == IF Ended(q) THEN dones ELSE <<>>
<1>1. /\ q.pc = "close" /\ q.items \in Seq({"message", "reasoning", "call"}) /\ q \in RequestType
      /\ n \in Nat /\ q.events \in Seq(EventType) /\ q.slots = 1
      /\ UNCHANGED <<cacheVars, told, putVars>> /\ Quiet
  BY RequestFields DEF Close, Fine, StageInv
<1>2. PICK e \in Emitted(q, frames) : Become(r, [e EXCEPT !.pc = IF Kept(e) THEN "put" ELSE "terminal"])
  BY DEF Close
<1>3. dones \in Seq(EventType) /\ Len(dones) = n /\ \A j \in 1 .. n : dones[j] = Event("done", j)
  <2>1. ASSUME NEW j \in 1 .. n PROVE Event("done", j) \in EventType
    <3>1. j \in Nat
      BY <1>1
    <3> QED  BY <3>1, EventIs DEF EventName
  <2> QED  BY <1>1, <2>1
<1> HIDE DEF dones
<1>4. frames \in Seq(EventType) /\ (Ended(q) => frames = dones) /\ (~Ended(q) => frames = <<>>)
  BY <1>3, EmptyIs
<1> HIDE DEF frames
<1>5. /\ e \in RequestType /\ Alike(q, e)
      /\ \/ ~Writes(q) /\ e = q
         \/ /\ Writes(q)
            /\ \E k \in 0 .. Len(frames) :
                 /\ e.events = q.events \o SubSeq(frames, 1, k)
                 /\ e.gone <=> k < Len(frames)
  BY <1>1, <1>2, <1>4, EmittedIs
<1>6. ASSUME Writes(q)
      PROVE  /\ Followable(e.events, n) /\ Len(e.events) > 0
             /\ ~e.gone /\ Ended(q) => AllDone(e.events, n)
  <2>1. Followable(q.events, n) /\ Adding(q.events, n)
    BY <1>1, <1>6 DEF Fine, EventInv
  <2>2. PICK k \in 0 .. Len(frames) : /\ e.events = q.events \o SubSeq(frames, 1, k)
                                      /\ e.gone <=> k < Len(frames)
    BY <1>5, <1>6
  <2>3. CASE ~Ended(q)
    <3>1. frames = <<>> /\ Len(frames) = 0 /\ k = 0
      BY <1>4, <2>3, EmptyIs
    <3>2. SubSeq(frames, 1, k) = <<>>
      BY <3>1
    <3>3. e.events = q.events
      BY <1>1, <2>2, <3>2, NothingAppended
    <3> QED  BY <2>1, <2>3, <3>3 DEF Adding
  <2>4. CASE Ended(q)
    <3> DEFINE f == q.events \o SubSeq(dones, 1, k)
    <3>1. k \in 0 .. n /\ k \in Nat /\ frames = dones
      BY <1>1, <1>3, <1>4, <2>4
    <3>2. SubSeq(dones, 1, k) \in Seq(EventType) /\ Len(SubSeq(dones, 1, k)) = k
          /\ \A j \in 1 .. k : SubSeq(dones, 1, k)[j] = Event("done", j)
      BY <1>3, <3>1
    <3>3. /\ f \in Seq(EventType) /\ Len(f) = Len(q.events) + k
          /\ \A m \in 1 .. Len(q.events) : f[m] = q.events[m]
          /\ \A j \in 1 .. k : f[Len(q.events) + j] = Event("done", j)
      <4> DEFINE g == SubSeq(dones, 1, k)
      <4> HIDE DEF g
      <4>1. g \in Seq(EventType) /\ Len(g) = k /\ \A j \in 1 .. k : g[j] = Event("done", j)
        BY <3>2 DEF g
      <4>2. f = q.events \o g
        BY DEF g
      <4> HIDE DEF f
      <4>3. /\ q.events \o g \in Seq(EventType) /\ Len(q.events \o g) = Len(q.events) + Len(g)
            /\ \A m \in 1 .. Len(q.events) : (q.events \o g)[m] = q.events[m]
            /\ \A j \in 1 .. Len(g) : (q.events \o g)[Len(q.events) + j] = g[j]
        <5> DEFINE h == q.events
        <5>1. h \in Seq(EventType) /\ g \in Seq(EventType)
          BY <1>1, <4>1
        <5> HIDE DEF h
        <5>2. /\ h \o g \in Seq(EventType) /\ Len(h \o g) = Len(h) + Len(g)
              /\ \A m \in 1 .. Len(h) : (h \o g)[m] = h[m]
              /\ \A j \in 1 .. Len(g) : (h \o g)[Len(h) + j] = g[j]
          BY ONLY <5>1, Concatenated
        <5> QED  BY <5>2 DEF h
      <4> QED  BY <4>1, <4>2, <4>3
    <3> HIDE DEF f
    <3>4. Followable(f, n) /\ Len(f) > 0 /\ (k = n => AllDone(f, n))
      BY <1>1, <2>1, <3>1, <3>3, DoItems
    <3>5. e.events = f
      BY <2>2, <3>1 DEF f
    <3>6. ~e.gone => k = n
      BY <1>3, <2>2, <3>1
    <3> QED  BY <3>4, <3>5, <3>6
  <2> QED  BY <2>3, <2>4
<1>7. InOrder(e.events) /\ \A i \in DOMAIN e.events : e.events[i].type \notin Ending
  <2>1. CASE Writes(q)
    <3>1. e.events \in Seq(EventType)
      BY <1>5, RequestFields
    <3> QED  BY <1>1, <1>6, <2>1, <3>1, FollowableInOrder DEF Followable
  <2>2. CASE e = q
    BY <1>1, <2>2 DEF Fine, EventInv
  <2> QED  BY <1>5, <2>1, <2>2
<1>8. ~q.streaming => e.events = <<>> /\ ~e.gone
  BY <1>5 DEF Writes, Fine, EventInv
<1> DEFINE pc == IF Kept(e) THEN "put" ELSE "terminal"
           p  == [e EXCEPT !.pc = pc]
<1>9. Become(r, p) /\ pc \in {"put", "terminal"} /\ (pc = "put" <=> Kept(e))
  BY <1>2
<1> HIDE DEF pc
<1>10. /\ p \in RequestType /\ p.pc = pc /\ p.streaming = q.streaming /\ p.prev = q.prev /\ p.id = q.id
       /\ p.image = q.image /\ p.msgs = q.msgs /\ p.slots = q.slots /\ p.items = q.items
       /\ p.events = e.events /\ p.gone = e.gone /\ p.result = q.result
  BY <1>5, <1>9 DEF RequestType, Pc, Alike
<1> HIDE DEF p
<1>11. Ended(p) <=> Ended(q)
  BY <1>10 DEF Ended
<1>12. Writes(p) => Writes(q) /\ ~e.gone
  BY <1>5, <1>10 DEF Writes
<1>13. EventInv(p)
  BY <1>6, <1>7, <1>8, <1>9, <1>10, <1>11, <1>12 DEF EventInv
<1>14. e.result = q.result
  BY <1>5 DEF Alike
<1>15. StageInv(p)
  BY <1>1, <1>9, <1>10, <1>14 DEF Fine, StageInv, Named, Kept
<1>16. Carry(q, p)
  BY <1>1, <1>9, <1>10, <1>14 DEF Carry, Named, Ready, Answered, Kept
<1> QED
  BY <1>1, <1>9, <1>10, <1>13, <1>15, <1>16 DEF Ordinary, Quiet, cacheVars, putVars

(* The event that ends the stream; who reads completed has an answer that   *)
(* was put.                                                                 *)
LEMMA TerminalStep == ASSUME NEW r, Fine(r), Terminal(r) PROVE Ordinary(r)
<1> DEFINE q == req[r]
           n == Len(q.items)
           x == Event(Verdict(q), 0)
           frames == IF q.result = "aborted" THEN <<>> ELSE <<x>>
<1>1. /\ q.pc = "terminal" /\ q.items \in Seq({"message", "reasoning", "call"}) /\ q \in RequestType
      /\ n \in Nat /\ q.events \in Seq(EventType) /\ q.slots = 1
      /\ UNCHANGED <<cacheVars, putVars>> /\ Quiet
  BY RequestFields DEF Terminal, Fine, StageInv
<1>2. PICK e \in Emitted(q, frames) :
        /\ Become(r, [e EXCEPT !.pc = "release"])
        /\ told' = IF Event("completed", 0) \in ToSet(e.events) THEN told \cup {q.id} ELSE told
  BY DEF Terminal
<1>3. Verdict(q) \in Ending /\ Verdict(q) \in EventName
  BY DEF Verdict, Ending, EventName
<1>4. Verdict(q) = "completed" <=> q.result = "stop"
  BY DEF Verdict
<1>5. Verdict(q) # "failed" => Ended(q)
  BY DEF Verdict, Ended
<1>6. x \in EventType /\ x.type = Verdict(q)
  BY <1>3, EventIs
<1> HIDE DEF x
<1>7. frames \in Seq(EventType) /\ Len(frames) \in 0 .. 1 /\ (Len(frames) = 1 => frames = <<x>>)
  BY <1>6, EmptyIs
<1> HIDE DEF frames
<1>8. /\ e \in RequestType /\ Alike(q, e)
      /\ \/ ~Writes(q) /\ e = q
         \/ /\ Writes(q)
            /\ \E k \in 0 .. Len(frames) :
                 /\ e.events = q.events \o SubSeq(frames, 1, k)
                 /\ e.gone <=> k < Len(frames)
  BY <1>1, <1>2, <1>7, EmittedIs
<1>9. \/ e.events = q.events /\ (e.gone <=> q.gone)
      \/ Writes(q) /\ e.events = q.events /\ e.gone
      \/ Writes(q) /\ ~e.gone /\ e.events = Append(q.events, x)
  <2>1. CASE ~Writes(q)
    BY <1>8, <2>1
  <2>2. CASE Writes(q)
    <3>1. PICK k \in 0 .. Len(frames) : /\ e.events = q.events \o SubSeq(frames, 1, k)
                                        /\ e.gone <=> k < Len(frames)
      BY <1>8, <2>2
    <3>2. CASE Len(frames) = 1
      <4>1. k = 0 => e.events = q.events
        BY <1>1, <1>6, <1>7, <3>1, <3>2, PiecesOfOne
      <4>2. k = 1 => e.events = Append(q.events, x)
        BY <1>1, <1>6, <1>7, <3>1, <3>2, PiecesOfOne
      <4>3. (k = 0 /\ e.gone) \/ (k = 1 /\ ~e.gone)
        BY <3>1, <3>2
      <4> QED  BY <2>2, <4>1, <4>2, <4>3
    <3>3. CASE Len(frames) = 0
      <4>1. k = 0 /\ SubSeq(frames, 1, k) = <<>>
        BY <1>7, <3>1, <3>3
      <4>2. e.events = q.events
        BY <1>1, <3>1, <4>1
      <4> QED  BY <2>2, <3>1, <3>3, <4>1, <4>2 DEF Writes
    <3> QED  BY <1>7, <3>2, <3>3
  <2> QED  BY <2>1, <2>2
<1>10. InOrder(e.events)
  <2>1. CASE e.events = q.events
    BY <2>1 DEF Fine, EventInv
  <2>2. CASE Writes(q) /\ e.events = Append(q.events, x)
    <3>1. /\ Followable(q.events, n) /\ Len(q.events) > 0
          /\ Ended(q) => AllDone(q.events, n)
      BY <1>1, <2>2 DEF Fine, EventInv
    <3> QED  BY <1>1, <1>3, <1>5, <2>2, <3>1, EndInOrder DEF x
  <2> QED  BY <1>9, <2>1, <2>2
<1>11. ~q.streaming => e.events = <<>> /\ ~e.gone
  BY <1>8 DEF Writes, Fine, EventInv
<1> DEFINE p  == [e EXCEPT !.pc = "release"]
<1>12. Become(r, p)
  BY <1>2
<1>13. /\ p \in RequestType /\ p.pc = "release" /\ p.streaming = q.streaming /\ p.prev = q.prev /\ p.id = q.id
       /\ p.image = q.image /\ p.msgs = q.msgs /\ p.slots = q.slots /\ p.items = q.items
       /\ p.events = e.events /\ p.gone = e.gone /\ p.result = q.result
  BY <1>8 DEF RequestType, Pc, Alike
<1> HIDE DEF p
<1>14. EventInv(p)
  BY <1>10, <1>11, <1>13 DEF EventInv
<1>15. StageInv(p)
  BY <1>1, <1>13 DEF Fine, StageInv, Named
<1>16. Carry(q, p)
  BY <1>1, <1>8, <1>9, <1>13 DEF Carry, Named, Ready, Answered, Writes
<1>17. ASSUME Event("completed", 0) \in ToSet(e.events) PROVE Answered(q)
  <2>1. PICK i \in DOMAIN e.events : e.events[i] = Event("completed", 0)
    BY <1>17 DEF ToSet
  <2>2. e.events[i].type = "completed"
    BY <2>1, EventIs DEF EventName, Ending
  <2>3. \A j \in DOMAIN q.events : q.events[j].type # "completed"
    BY <1>1 DEF Fine, EventInv, Ending
  <2>4. Writes(q) /\ e.events = Append(q.events, x)
    BY <1>9, <2>2, <2>3
  <2>5. i = Len(q.events) + 1 /\ e.events[i] = x
    BY <1>1, <1>6, <2>2, <2>3, <2>4, AppendFacts
  <2> QED  BY <1>1, <1>4, <1>6, <2>2, <2>4, <2>5 DEF Answered, Writes
<1>18. \A id \in told' : id \in told \/ (Answered(q) /\ id = q.id)
  BY <1>2, <1>17
<1> QED
  BY <1>1, <1>12, <1>13, <1>14, <1>15, <1>16, <1>18 DEF Ordinary, Quiet, cacheVars, putVars

-----------------------------------------------------------------------------
(* Conversations.                                                           *)
LEMMA SameTurnsLess ==
  ASSUME NEW s, NEW t, NEW V, NEW W, V \subseteq W, SameTurns(s, t, W)
  PROVE  SameTurns(s, t, V)
  BY DEF SameTurns, SameTurn

(* Sessions that can be the cache, as far as conversations and their order  *)
(* are concerned and what this process has stored.                          *)
Usable(sessions) ==
  /\ sessions \in Seq(SessionType) /\ Spaced(sessions, stored)
  /\ \A n \in DOMAIN sessions :
       /\ Settled(sessions[n].messages)
       /\ SameTurns(sessions[n].messages, talk[sessions[n].id], Whole)
  /\ \A id \in Whole : Has(sessions, id) \/ Far(id, cap, stored)

(* The cache is as it was, or has been loaded.                              *)
CacheGoesOn ==
  /\ UNCHANGED <<file, stored, written>> /\ (loaded => loaded') /\ (unread => unread')
  /\ loaded' \in BOOLEAN /\ unread' \in BOOLEAN /\ Usable(cache')
  /\ loaded' /\ persist /\ ~unread' =>
       \A id \in written : Has(cache', id) \/ Far(id, least, stored)

LEMMA CacheStays == ASSUME IInv, UNCHANGED <<cacheVars, putVars>> PROVE CacheGoesOn
<1>1. Usable(cache)
  BY DEF IInv, TypeOK, OrderInv, TalkInv, KeepInv, Usable
<1>2. UNCHANGED <<loaded, cache, file, stored, written, unread>>
  BY DEF cacheVars, putVars
<1>3. loaded \in BOOLEAN /\ unread \in BOOLEAN
  BY DEF IInv, TypeOK
<1>4. loaded /\ persist /\ ~unread => \A id \in written : Has(cache, id) \/ Far(id, least, stored)
  BY DEF IInv, KeepInv
<1> QED
  BY <1>1, <1>2, <1>3, <1>4 DEF CacheGoesOn

(* A step of a request that stores nothing: the others go on with what they *)
(* have, and it continues a conversation that is kept.                      *)
LEMMA Onward ==
  ASSUME IInv, NEW r \in Request, NEW p \in RequestType, Become(r, p), EventInv(p), StageInv(p),
         UNCHANGED <<settingVars, least>>, CacheGoesOn,
         told' \subseteq Stored, Whole' \subseteq Whole,
         talk' \in [DOMAIN talk' -> Seq(TurnOf)], DOMAIN talk' \subseteq Response,
         \A id \in Stored \cup {req[s].id : s \in Request \ {r}} :
           /\ id \in DOMAIN talk => id \in DOMAIN talk' /\ talk'[id] = talk[id]
           /\ id \in full => id \in full',
         Named(p) => /\ p.id \in DOMAIN talk'
                     /\ \A s \in Request \ {r} : Named(req[s]) => req[s].id # p.id,
         Ready(p) => /\ p.id \notin Stored
                     /\ talk'[p.id] = Append(IF p.prev = None THEN <<>> ELSE talk'[p.prev],
                                             [of |-> p.id, image |-> p.image]),
         Answered(p) => p.id \in Stored,
         p.prev # None => p.prev \in Stored /\ SameTurns(p.msgs, talk[p.prev], Whole),
         Settled(p.msgs),
         Named(p) /\ p.result = "stop" => p.id \in full'
  PROVE  IInv'
<1>1. /\ req' \in [Request -> RequestType] /\ req'[r] = p
      /\ \A s \in Request \ {r} : req'[s] = req[s]
  BY DEF Become, IInv, TypeOK
<1>2. /\ cap' = cap /\ persist' = persist /\ file' = file
      /\ stored' = stored /\ written' = written /\ least' = least
      /\ Stored' = Stored
      /\ (loaded => loaded') /\ (unread => unread') /\ Usable(cache')
  BY DEF settingVars, CacheGoesOn, Stored
<1>3. TypeOK'
  BY <1>1, <1>2 DEF IInv, TypeOK, CacheGoesOn, Usable
<1>4. RequestInv'
  BY <1>1 DEF IInv, RequestInv
<1>5. NameInv'
  <2>1. /\ \A m, n \in DOMAIN stored' : stored'[m] = stored'[n] => m = n
        /\ Stored' \subseteq DOMAIN talk' /\ told' \subseteq Stored'
    BY <1>2 DEF IInv, NameInv
  <2>2. \A s, t \in Request : req'[s].id = req'[t].id /\ Named(req'[s]) => s = t
    <3> SUFFICES ASSUME NEW s \in Request, NEW t \in Request, req'[s].id = req'[t].id, Named(req'[s]), s # t
                 PROVE  FALSE
      OBVIOUS
    <3>1. StageInv(req'[s]) /\ StageInv(req'[t])
      BY <1>4 DEF RequestInv
    <3>2. Named(req'[t])
      BY <3>1 DEF StageInv
    <3>3. CASE s = r
      BY <1>1, <3>2, <3>3
    <3>4. CASE t = r
      BY <1>1, <3>2, <3>4
    <3>5. CASE s # r /\ t # r
      BY <1>1, <3>5 DEF IInv, NameInv
    <3> QED  BY <3>3, <3>4, <3>5
  <2>3. ASSUME NEW s \in Request
        PROVE  /\ Named(req'[s]) => req'[s].id \in DOMAIN talk'
               /\ Ready(req'[s]) => req'[s].id \notin Stored'
               /\ Answered(req'[s]) => req'[s].id \in Stored'
               /\ req'[s].prev # None => req'[s].prev \in Stored'
    <3>1. CASE s = r
      BY <1>1, <1>2, <3>1
    <3>2. CASE s # r
      BY <1>1, <1>2, <3>2 DEF IInv, NameInv, Ready
    <3> QED  BY <3>1, <3>2
  <2>4. Whole' # {} => loaded'
    BY <1>2 DEF IInv, NameInv
  <2> QED  BY <2>1, <2>2, <2>3, <2>4 DEF NameInv, Ready
<1>6. \A turns : Settled(turns) => \A n \in DOMAIN turns : turns[n].of \in full' /\ turns[n].of \in Stored'
  BY <1>2 DEF Settled
<1>7. \A s, id : id \in Stored /\ SameTurns(s, talk[id], Whole) => SameTurns(s, talk'[id], Whole')
  <2> SUFFICES ASSUME NEW s, NEW id, id \in Stored, SameTurns(s, talk[id], Whole)
               PROVE  SameTurns(s, talk'[id], Whole')
    OBVIOUS
  <2>1. talk'[id] = talk[id]
    BY DEF IInv, NameInv
  <2> QED  BY <2>1, SameTurnsLess
<1>8. TalkInv'
  <2>1. ASSUME NEW s \in Request
        PROVE  /\ Ready(req'[s]) =>
                    talk'[req'[s].id] =
                      Append(IF req'[s].prev = None THEN <<>> ELSE talk'[req'[s].prev],
                             [of |-> req'[s].id, image |-> req'[s].image])
               /\ Named(req'[s]) /\ req'[s].result = "stop" => req'[s].id \in full'
               /\ \A n \in DOMAIN req'[s].msgs : /\ req'[s].msgs[n].of \in full'
                                                 /\ req'[s].msgs[n].of \in Stored'
               /\ req'[s].prev # None => SameTurns(req'[s].msgs, talk'[req'[s].prev], Whole')
    <3>1. CASE s = r
      BY <1>1, <1>6, <1>7, <3>1
    <3>2. CASE s # r
      <4>1. req'[s] = req[s] /\ s \in Request \ {r}
        BY <1>1, <3>2
      <4>2. ASSUME Ready(req[s]) PROVE /\ talk'[req[s].id] = talk[req[s].id]
                                       /\ req[s].prev # None => talk'[req[s].prev] = talk[req[s].prev]
        <5>1. Named(req[s])
          BY <4>2 DEF Ready, Named
        <5> QED  BY <4>1, <5>1 DEF IInv, NameInv
      <4>3. Ready(req[s]) =>
              talk'[req[s].id] = Append(IF req[s].prev = None THEN <<>> ELSE talk'[req[s].prev],
                                        [of |-> req[s].id, image |-> req[s].image])
        BY <4>2 DEF IInv, TalkInv, Continued
      <4>4. Named(req[s]) /\ req[s].result = "stop" => req[s].id \in full'
        BY <4>1 DEF IInv, TalkInv
      <4>5. Settled(req[s].msgs) /\ (req[s].prev # None => SameTurns(req[s].msgs, talk[req[s].prev], Whole))
        BY DEF IInv, TalkInv
      <4>6. req[s].prev # None => req[s].prev \in Stored
        BY DEF IInv, NameInv
      <4> QED  BY <1>6, <1>7, <4>1, <4>3, <4>4, <4>5, <4>6
    <3> QED  BY <3>1, <3>2
  <2>2. \A n \in DOMAIN cache' : cache'[n].id \in Stored
    BY <1>2 DEF Usable, Spaced, Stored, ToSet
  <2>3. \A n \in DOMAIN file : file[n].id \in Stored
    BY DEF IInv, OrderInv, Spaced, Stored, ToSet
  <2>4. ASSUME NEW n \in DOMAIN cache'
        PROVE  /\ \A k \in DOMAIN cache'[n].messages : /\ cache'[n].messages[k].of \in full'
                                                      /\ cache'[n].messages[k].of \in Stored'
               /\ SameTurns(cache'[n].messages, talk'[cache'[n].id], Whole')
    <3>1. Settled(cache'[n].messages) /\ SameTurns(cache'[n].messages, talk[cache'[n].id], Whole)
      BY <1>2 DEF Usable
    <3> QED  BY <1>6, <1>7, <2>2, <3>1
  <2>5. ASSUME NEW n \in DOMAIN file
        PROVE  /\ \A k \in DOMAIN file[n].messages : /\ file[n].messages[k].of \in full'
                                                     /\ file[n].messages[k].of \in Stored'
               /\ SameTurns(file[n].messages, talk'[file[n].id], {})
    <3>1. Settled(file[n].messages) /\ SameTurns(file[n].messages, talk[file[n].id], {})
      BY DEF IInv, TalkInv
    <3>2. talk'[file[n].id] = talk[file[n].id]
      BY <2>3 DEF IInv, NameInv
    <3> QED  BY <1>6, <3>1, <3>2
  <2> QED  BY <1>2, <2>1, <2>4, <2>5 DEF TalkInv, Continued, Settled
<1>9. OrderInv'
  BY <1>2 DEF IInv, OrderInv, Usable
<1>10. KeepInv'
  <2>1. \A id \in Whole' : Has(cache', id) \/ Far(id, cap', stored')
    BY <1>2 DEF Usable
  <2>2. \A id \in written' : Has(file', id) \/ unread' \/ Far(id, least', stored')
    BY <1>2 DEF IInv, KeepInv
  <2> QED  BY <1>2, <2>1, <2>2 DEF CacheGoesOn, KeepInv
<1> QED
  BY <1>3, <1>4, <1>5, <1>8, <1>9, <1>10 DEF IInv

LEMMA IsFine == ASSUME IInv, NEW r \in Request PROVE Fine(r)
  BY DEF IInv, TypeOK, RequestInv, Fine

LEMMA OrdinaryStep == ASSUME IInv, NEW r \in Request, Ordinary(r) PROVE IInv'
<1> DEFINE q == req[r]
<1>1. PICK p \in RequestType :
        /\ Become(r, p) /\ EventInv(p) /\ StageInv(p) /\ Carry(req[r], p)
        /\ Named(p) /\ p.result = "stop" => req[r].result = "stop" \/ p.id \in full'
  BY DEF Ordinary
<1>2. /\ req' \in [Request -> RequestType] /\ req'[r] = p
      /\ \A s \in Request \ {r} : req'[s] = req[s]
  BY <1>1 DEF Become, IInv, TypeOK
<1>3. UNCHANGED <<settingVars, least>> /\ Stored' = Stored /\ stored' = stored /\ CacheGoesOn
  BY CacheStays DEF Ordinary, putVars, Stored
<1>4. told' \subseteq Stored
  BY DEF Ordinary, IInv, NameInv
<1>5. Whole' \subseteq Whole
  <2> SUFFICES ASSUME NEW x \in Whole' PROVE x \in Whole
    OBVIOUS
  <2>1. CASE x \in told'
    BY <2>1 DEF Ordinary, Whole
  <2>2. ASSUME NEW s \in Request, Answered(req'[s]), x = req'[s].id PROVE x \in Whole
    <3>1. Answered(req[s]) /\ x = req[s].id
      <4>1. CASE s # r
        BY <1>2, <2>2, <4>1
      <4>2. CASE s = r
        BY <1>1, <1>2, <2>2, <4>2 DEF Carry
      <4> QED  BY <4>1, <4>2
    <3> QED  BY <3>1 DEF Whole
  <2> QED  BY <2>1, <2>2 DEF Whole
<1>6. /\ talk' \in [DOMAIN talk' -> Seq(TurnOf)] /\ DOMAIN talk' \subseteq Response
      /\ \A id \in Stored \cup {req'[s].id : s \in Request} :
           /\ id \in DOMAIN talk => id \in DOMAIN talk' /\ talk'[id] = talk[id]
           /\ id \in full => id \in full'
  <2>1. talk \in [DOMAIN talk -> Seq(TurnOf)] /\ DOMAIN talk \subseteq Response
    BY DEF IInv, TypeOK
  <2>2. CASE UNCHANGED talk /\ full \subseteq full'
    BY <2>1, <2>2
  <2>3. CASE Forget
    <3>1. Stored \cup {req'[s].id : s \in Request} \subseteq InUse'
      BY <1>3 DEF InUse, Stored
    <3> QED  BY <2>1, <2>3, <3>1 DEF Forget
  <2> QED  BY <2>2, <2>3 DEF Ordinary
<1>7. \A id \in Stored \cup {req[s].id : s \in Request \ {r}} :
           /\ id \in DOMAIN talk => id \in DOMAIN talk' /\ talk'[id] = talk[id]
           /\ id \in full => id \in full'
  <2>1. {req[s].id : s \in Request \ {r}} \subseteq {req'[s].id : s \in Request}
    BY <1>2
  <2> QED  BY <1>6, <2>1
<1>8. p.id \in {req'[s].id : s \in Request}
  BY <1>2
<1>9. Named(p) => /\ p.id = q.id /\ p.prev = q.prev /\ p.image = q.image /\ Named(q)
                  /\ (Ready(p) => Ready(q)) /\ (Answered(p) => Answered(q))
  BY <1>1 DEF Carry
<1>10. Named(p) => /\ p.id \in DOMAIN talk /\ p.id \in DOMAIN talk' /\ talk'[p.id] = talk[p.id]
                   /\ \A s \in Request \ {r} : Named(req[s]) => req[s].id # p.id
  BY <1>6, <1>8, <1>9 DEF IInv, NameInv
<1>11. q.prev # None => q.prev \in Stored /\ q.prev \in DOMAIN talk
  BY DEF IInv, NameInv
<1>12. (Ready(p) => Named(p)) /\ (Answered(p) => Named(p))
  BY DEF Ready, Answered, Named
<1>13. Ready(p) => /\ p.id \notin Stored
                   /\ talk'[p.id] = Append(IF p.prev = None THEN <<>> ELSE talk'[p.prev],
                                           [of |-> p.id, image |-> p.image])
  <2> SUFFICES ASSUME Ready(p)
               PROVE  /\ p.id \notin Stored
                      /\ talk'[p.id] = Append(IF p.prev = None THEN <<>> ELSE talk'[p.prev],
                                              [of |-> p.id, image |-> p.image])
    OBVIOUS
  <2>1. Ready(q) /\ p.id = q.id /\ p.prev = q.prev /\ p.image = q.image
    BY <1>9, <1>12
  <2>2. q.id \notin Stored
    BY <2>1 DEF IInv, NameInv, Ready
  <2>3. talk[q.id] = Append(IF q.prev = None THEN <<>> ELSE talk[q.prev], [of |-> q.id, image |-> q.image])
    BY <2>1 DEF IInv, TalkInv, Continued
  <2>4. q.prev # None => talk'[q.prev] = talk[q.prev]
    BY <1>7, <1>11
  <2> QED  BY <1>10, <1>12, <2>1, <2>2, <2>3, <2>4
<1>14. Answered(p) => p.id \in Stored
  BY <1>9, <1>12 DEF IInv, NameInv
<1>15. Settled(p.msgs) /\ (p.prev # None => p.prev \in Stored /\ SameTurns(p.msgs, talk[p.prev], Whole))
  <2>1. CASE p.prev = None /\ p.msgs = <<>>
    BY <2>1, EmptyIs DEF Settled
  <2>2. CASE p.prev = q.prev /\ p.msgs = q.msgs
    BY <1>11, <2>2 DEF IInv, TalkInv
  <2> QED  BY <1>1, <2>1, <2>2 DEF Carry
<1>16. Named(p) /\ p.result = "stop" => p.id \in full'
  <2> SUFFICES ASSUME Named(p), p.result = "stop", q.result = "stop" PROVE p.id \in full'
    BY <1>1
  <2>1. p.id \in full
    BY <1>9 DEF IInv, TalkInv
  <2> QED  BY <1>6, <1>8, <2>1
<1> QED
  BY <1>1, <1>3, <1>4, <1>5, <1>6, <1>7, <1>10, <1>13, <1>14, <1>15, <1>16, Onward

-----------------------------------------------------------------------------
(* The response gets its id, a new one.                                     *)
LEMMA ResolveStep == ASSUME IInv, NEW r \in Request, Resolve(r) PROVE IInv'
<1> DEFINE q == req[r]
<1>1. Fine(r) /\ q.pc = "held"
  BY IsFine DEF Resolve
<1>2. UNCHANGED <<settingVars, cacheVars, full, told, putVars, least>>
  BY DEF Resolve
<1>3. CASE Return(r) /\ UNCHANGED talk
  <2>1. \E p \in RequestType :
           /\ Become(r, p) /\ EventInv(p) /\ StageInv(p) /\ Carry(req[r], p)
           /\ Named(p) /\ p.result = "stop" => req[r].result = "stop" \/ p.id \in full'
    BY <1>1, <1>3, GivesUp
  <2>2. Ordinary(r)
    BY <1>2, <1>3, <2>1 DEF Ordinary
  <2> QED  BY <2>2, OrdinaryStep
<1>4. ASSUME NEW id \in Response \ DOMAIN talk, NEW turns,
             turns = Append(IF q.prev = None THEN <<>> ELSE talk[q.prev], [of |-> id, image |-> q.image]),
             Become(r, [q EXCEPT !.pc = "open", !.id = id]),
             talk' = [i \in DOMAIN talk \cup {id} |-> IF i = id THEN turns ELSE talk[i]]
      PROVE  IInv'
  <2>1. PICK p : p = [q EXCEPT !.pc = "open", !.id = id]
    OBVIOUS
  <2>2. /\ p \in RequestType /\ p.pc = "open" /\ p.slots = q.slots /\ p.result = q.result
        /\ p.streaming = q.streaming /\ p.prev = q.prev /\ p.id = id
        /\ p.image = q.image /\ p.msgs = q.msgs /\ p.items = q.items
        /\ p.events = q.events /\ p.gone = q.gone
    BY <1>1, <2>1 DEF RequestType, Fine, Pc
  <2>3. Become(r, p)
    BY <1>4, <2>1
  <2>4. EventInv(p)
    BY <1>1, <2>2 DEF Fine, EventInv, Writes
  <2>5. id # None /\ id \notin DOMAIN talk
    BY SessionAssumption
  <2>6. StageInv(p) /\ p.result = "none" /\ Named(p) /\ ~Answered(p)
    BY <1>1, <2>2, <2>5 DEF Fine, StageInv, Named, Answered
  <2>7. q.prev # None => q.prev \in Stored /\ q.prev \in DOMAIN talk
    BY DEF IInv, NameInv
  <2>8. talk \in [DOMAIN talk -> Seq(TurnOf)] /\ DOMAIN talk \subseteq Response
    BY DEF IInv, TypeOK
  <2>9. turns \in Seq(TurnOf)
    <3>1. (IF q.prev = None THEN <<>> ELSE talk[q.prev]) \in Seq(TurnOf)
      BY <2>7, <2>8, EmptyIs
    <3>2. [of |-> id, image |-> q.image] \in TurnOf
      BY <1>1 DEF Fine, RequestType, TurnOf
    <3> QED  BY <1>4, <3>1, <3>2
  <2>10. /\ talk' \in [DOMAIN talk' -> Seq(TurnOf)] /\ DOMAIN talk' \subseteq Response
         /\ id \in DOMAIN talk' /\ talk'[id] = turns
         /\ \A i \in DOMAIN talk : i \in DOMAIN talk' /\ talk'[i] = talk[i]
    BY <1>4, <2>8, <2>9
  <2>11. CacheGoesOn
    BY <1>2, CacheStays
  <2>12. req' = [req EXCEPT ![r] = p] /\ req \in [Request -> RequestType]
    BY <2>3 DEF Become, IInv, TypeOK
  <2>13. Whole' \subseteq Whole
    <3> SUFFICES ASSUME NEW x \in Whole' PROVE x \in Whole
      OBVIOUS
    <3>1. \A s \in Request : Answered(req'[s]) => req'[s] = req[s]
      BY <2>6, <2>12
    <3> QED  BY <1>2, <3>1 DEF Whole
  <2>14. told' \subseteq Stored
    BY <1>2 DEF IInv, NameInv
  <2>15. \A i \in Stored \cup {req[s].id : s \in Request \ {r}} :
           /\ i \in DOMAIN talk => i \in DOMAIN talk' /\ talk'[i] = talk[i]
           /\ i \in full => i \in full'
    BY <1>2, <2>10
  <2>16. \A s \in Request \ {r} : Named(req[s]) => req[s].id # p.id
    BY <2>2, <2>5 DEF IInv, NameInv
  <2>17. p.id \notin Stored
    BY <2>2, <2>5 DEF IInv, NameInv
  <2>18. talk'[p.id] = Append(IF p.prev = None THEN <<>> ELSE talk'[p.prev],
                              [of |-> p.id, image |-> p.image])
    BY <1>4, <2>2, <2>7, <2>10
  <2>19. Settled(p.msgs) /\ (p.prev # None => p.prev \in Stored /\ SameTurns(p.msgs, talk[p.prev], Whole))
    BY <2>2, <2>7 DEF IInv, TalkInv
  <2>20. UNCHANGED <<settingVars, least>>
    BY <1>2
  <2> HIDE DEF q
  <2> QED
    BY <2>2, <2>3, <2>4, <2>6, <2>10, <2>11, <2>13, <2>14, <2>15, <2>16, <2>17, <2>18, <2>19, <2>20, Onward
<1>5. ASSUME NEW id \in Response \ DOMAIN talk,
             Become(r, [q EXCEPT !.pc = "open", !.id = id]),
             LET before == IF q.prev = None THEN <<>> ELSE talk[q.prev]
                 turns  == Append(before, [of |-> id, image |-> q.image])
             IN talk' = [i \in DOMAIN talk \cup {id} |-> IF i = id THEN turns ELSE talk[i]]
      PROVE  IInv'
  BY <1>4, <1>5
<1> QED
  BY <1>3, <1>5 DEF Resolve

(* What a lookup or a store finds: the cache, or what could be read.        *)
LEMMA OpenedIs ==
  ASSUME IInv, NEW c \in Opened, ensureLoaded(c)
  PROVE  /\ Usable(c) /\ loaded' \in BOOLEAN /\ unread' \in BOOLEAN /\ loaded' /\ (unread => unread')
         /\ persist /\ ~unread' => \A id \in written : Has(c, id) \/ Far(id, least, stored)
<1>1. loaded' /\ loaded' \in BOOLEAN /\ unread' \in BOOLEAN /\ (unread => unread')
  BY DEF ensureLoaded, IInv, TypeOK
<1>2. CASE loaded
  <2>1. c = cache /\ unread' = unread
    BY <1>2 DEF Opened, ensureLoaded, IInv, TypeOK
  <2> QED  BY <1>1, <1>2, <2>1 DEF IInv, TypeOK, OrderInv, TalkInv, KeepInv, Usable
<1>3. CASE ~loaded
  <2>1. Whole = {}
    BY <1>3 DEF IInv, NameInv
  <2>2. Usable(<<>>)
    BY <2>1, EmptyIs DEF Usable, Spaced
  <2>3. Usable(file)
    BY <2>1 DEF IInv, TypeOK, OrderInv, TalkInv, Usable
  <2>4. Usable(c)
    BY <1>3, <2>2, <2>3 DEF Opened, readSessionFile
  <2>5. ASSUME persist, ~unread' PROVE \A id \in written : Has(c, id) \/ Far(id, least, stored)
    <3>1. c = file /\ ~unread
      BY <1>3, <2>5 DEF ensureLoaded
    <3> QED  BY <3>1 DEF IInv, KeepInv
  <2> QED  BY <1>1, <2>4, <2>5
<1> QED
  BY <1>2, <1>3

LEMMA BeginStep ==
  ASSUME IInv, NEW r \in Request, NEW prev \in Response \cup {None}, NEW image \in Image,
         Begin(r, prev, image)
  PROVE  IInv'
<1> DEFINE q == req[r]
           asked == [Idle EXCEPT !.pc = "parse", !.image = image, !.prev = prev]
<1>1. Fine(r) /\ q.pc = "idle" /\ image \in BOOLEAN
  BY IsFine, SessionAssumption DEF Begin
<1>2. UNCHANGED <<file, told, stored, written>> /\ UNCHANGED <<settingVars, talk, full, least>>
  BY DEF Begin, Quiet
<1>3. /\ asked \in RequestType /\ asked.pc = "parse" /\ ~asked.streaming /\ asked.prev = prev
      /\ asked.id = None /\ asked.msgs = <<>> /\ asked.slots = 0 /\ asked.items = <<>>
      /\ asked.events = <<>> /\ ~asked.gone /\ asked.result = "none"
  <2>1. /\ Idle \in RequestType /\ ~Idle.streaming /\ Idle.id = None /\ Idle.msgs = <<>> /\ Idle.slots = 0
        /\ Idle.items = <<>> /\ Idle.events = <<>> /\ ~Idle.gone /\ Idle.result = "none"
    BY IdleIs DEF Idle
  <2>2. PICK i \in RequestType : i = Idle
    BY <2>1
  <2> DEFINE a == [i EXCEPT !.pc = "parse", !.image = image, !.prev = prev]
  <2>3. /\ a \in RequestType /\ a.pc = "parse" /\ a.streaming = i.streaming /\ a.prev = prev
        /\ a.id = i.id /\ a.msgs = i.msgs /\ a.slots = i.slots /\ a.items = i.items
        /\ a.events = i.events /\ a.gone = i.gone /\ a.result = i.result
    BY <1>1 DEF RequestType, Pc
  <2> QED  BY <2>1, <2>2, <2>3
<1> HIDE DEF asked
<1>4. PICK p \in RequestType :
        /\ Become(r, p) /\ EventInv(p) /\ StageInv(p) /\ ~Named(p) /\ ~Answered(p) /\ ~Ready(p)
        /\ Settled(p.msgs)
        /\ p.prev # None => p.prev \in Stored /\ SameTurns(p.msgs, talk[p.prev], Whole)
        /\ CacheGoesOn
  <2>1. ASSUME NEW p \in RequestType, p.pc = "parse", ~p.streaming, p.prev = prev, p.id = None,
               p.slots = 0, p.items = <<>>, p.events = <<>>, ~p.gone, p.result = "none",
               prev = None => p.msgs = <<>>
        PROVE  EventInv(p) /\ StageInv(p) /\ ~Named(p) /\ ~Answered(p) /\ ~Ready(p)
    <3>4. InOrder(<<>>)
      BY EmptyIs DEF InOrder
    <3>5. EventInv(p)
      BY <2>1, <3>4, EmptyIs DEF EventInv, Writes
    <3>6. StageInv(p)
      BY <2>1 DEF StageInv, Named
    <3> QED  BY <2>1, <3>5, <3>6 DEF Named, Answered, Ready
  <2>2. CASE prev = None
    <3>2. Become(r, asked) /\ UNCHANGED <<loaded, cache, unread>>
      BY <2>2 DEF Begin, asked
    <3>3. CacheGoesOn
      BY <1>2, <3>2, CacheStays DEF cacheVars, putVars
    <3>4. Settled(<<>>)
      BY EmptyIs DEF Settled
    <3>5. EventInv(asked) /\ StageInv(asked) /\ ~Named(asked) /\ ~Answered(asked) /\ ~Ready(asked)
      BY <1>3, <2>1, <2>2
    <3> QED  BY <1>3, <2>2, <3>2, <3>3, <3>4, <3>5
  <2>3. CASE prev # None
    <3>1. PICK c \in Opened :
            /\ ensureLoaded(c) /\ cache' = c
            /\ IF prev \in Ids(c) THEN Become(r, [asked EXCEPT !.msgs = SessionOf(c, prev).messages])
                                  ELSE UNCHANGED req
      BY <2>3 DEF Begin, asked
    <3>2. /\ Usable(c) /\ loaded' \in BOOLEAN /\ unread' \in BOOLEAN /\ loaded' /\ (unread => unread')
          /\ persist /\ ~unread' => \A id \in written : Has(c, id) \/ Far(id, least, stored)
      BY <3>1, OpenedIs
    <3>3. CacheGoesOn
      BY <1>2, <3>1, <3>2 DEF CacheGoesOn
    <3>4. CASE prev \in Ids(c)
      <4> DEFINE msgs == SessionOf(c, prev).messages
                 p == [asked EXCEPT !.msgs = msgs]
      <4>1. \E s \in ToSet(c) : s.id = prev
        BY <3>4 DEF Ids
      <4>2. SessionOf(c, prev) \in ToSet(c) /\ SessionOf(c, prev).id = prev
        BY <4>1 DEF SessionOf
      <4>3. PICK n \in DOMAIN c : SessionOf(c, prev) = c[n]
        BY <4>2 DEF ToSet
      <4>4. c[n] \in SessionType /\ msgs = c[n].messages /\ c[n].id = prev
        BY <3>2, <4>2, <4>3 DEF Usable
      <4>5. msgs \in Seq(TurnOf)
        BY <4>4 DEF SessionType
      <4>6. Settled(msgs) /\ SameTurns(msgs, talk[prev], Whole)
        BY <3>2, <4>4 DEF Usable
      <4>7. prev \in Stored
        BY <3>2, <4>4 DEF Usable, Spaced, Stored, ToSet
      <4>8. Become(r, p)
        BY <3>1, <3>4
      <4> HIDE DEF msgs
      <4>9. /\ p \in RequestType /\ p.pc = "parse" /\ p.streaming = asked.streaming /\ p.prev = prev
            /\ p.id = None /\ p.msgs = msgs /\ p.slots = 0 /\ p.items = <<>>
            /\ p.events = <<>> /\ p.gone = asked.gone /\ p.result = "none"
        BY <1>3, <4>5 DEF RequestType
      <4> HIDE DEF p
      <4>10. EventInv(p) /\ StageInv(p) /\ ~Named(p) /\ ~Answered(p) /\ ~Ready(p)
        BY <1>3, <2>1, <2>3, <4>9
      <4> QED  BY <3>3, <4>6, <4>7, <4>8, <4>9, <4>10
    <3>5. CASE prev \notin Ids(c)
      <4>1. Become(r, q)
        BY <3>1, <3>5 DEF Become, IInv, TypeOK
      <4>2. q \in RequestType /\ EventInv(q) /\ StageInv(q) /\ ~Named(q) /\ ~Answered(q) /\ ~Ready(q)
            /\ q.prev = None
        BY <1>1 DEF Fine, StageInv, Named, Answered, Ready
      <4>3. Settled(q.msgs)
        BY DEF IInv, TalkInv
      <4> QED  BY <3>3, <4>1, <4>2, <4>3
    <3> QED  BY <3>4, <3>5
  <2> QED  BY <2>2, <2>3
<1>5. req' = [req EXCEPT ![r] = p] /\ req \in [Request -> RequestType]
  BY <1>4 DEF Become, IInv, TypeOK
<1>6. Whole' \subseteq Whole
  <2>1. \A s \in Request : Answered(req'[s]) => req'[s] = req[s]
    BY <1>4, <1>5
  <2> QED  BY <1>2, <2>1 DEF Whole
<1>7. told' \subseteq Stored /\ talk' \in [DOMAIN talk' -> Seq(TurnOf)] /\ DOMAIN talk' \subseteq Response
  BY <1>2 DEF IInv, NameInv, TypeOK
<1>8. UNCHANGED <<settingVars, least, talk, full>>
  BY <1>2
<1> HIDE DEF q, asked
<1> QED
  BY <1>4, <1>6, <1>7, <1>8, Onward

-----------------------------------------------------------------------------
LEMMA MinOf == ASSUME NEW a \in Nat, NEW b \in Nat
               PROVE  Min({a, b}) \in Nat /\ Min({a, b}) <= a /\ Min({a, b}) <= b
  BY DEF Min

(* A new process knows what the file holds.                                 *)
LEMMA RestartStep == ASSUME IInv, Restart PROVE IInv'
<1>1. /\ req' = [r \in Request |-> Idle] /\ cap' \in Cap /\ persist' \in BOOLEAN
      /\ loaded' = FALSE /\ cache' = <<>> /\ told' = {} /\ least' = Min({least, cap'})
      /\ file' = file /\ stored' = stored /\ written' = written /\ unread' = unread /\ Forget
  BY DEF Restart, putVars
<1>2. cap' \in Nat /\ least \in Nat /\ least' \in Nat /\ least' <= cap' /\ least' <= least
  <2>1. cap' \in Nat /\ least \in Nat
    BY <1>1, SessionAssumption DEF IInv, TypeOK
  <2> QED  BY <1>1, <2>1, MinOf
<1>3. Stored' = Stored /\ Whole' = {}
  BY <1>1, IdleIs DEF Stored, Whole
<1>4. /\ talk' \in [DOMAIN talk' -> Seq(TurnOf)] /\ DOMAIN talk' \subseteq Response
      /\ \A id \in Stored : id \in DOMAIN talk => id \in DOMAIN talk' /\ talk'[id] = talk[id]
      /\ \A id \in Stored : id \in full => id \in full'
  <2>1. Stored \subseteq InUse'
    BY <1>1 DEF InUse, Stored
  <2> QED  BY <1>1, <2>1 DEF Forget, IInv, TypeOK
<1>5. TypeOK'
  BY <1>1, <1>2, <1>4, IdleIs, EmptyIs DEF IInv, TypeOK
<1>6. RequestInv'
  BY <1>1, IdleIs DEF RequestInv
<1>7. NameInv'
  <2>1. \A r \in Request : /\ req'[r].id = None /\ ~Named(req'[r]) /\ req'[r].pc = "idle"
                           /\ ~Answered(req'[r]) /\ req'[r].prev = None
    BY <1>1, IdleIs DEF Idle
  <2> QED  BY <1>1, <1>3, <1>4, <2>1 DEF IInv, NameInv
<1>8. TalkInv'
  <2>1. \A r \in Request : /\ ~Ready(req'[r]) /\ ~Named(req'[r]) /\ req'[r].prev = None
                           /\ DOMAIN req'[r].msgs = {}
    BY <1>1, IdleIs, EmptyIs
  <2>2. \A n \in DOMAIN file : file[n].id \in Stored
    BY DEF IInv, OrderInv, Spaced, Stored, ToSet
  <2>3. ASSUME NEW n \in DOMAIN file
        PROVE  /\ \A k \in DOMAIN file[n].messages : /\ file[n].messages[k].of \in full'
                                                     /\ file[n].messages[k].of \in Stored
               /\ SameTurns(file[n].messages, talk'[file[n].id], {})
    <3>1. Settled(file[n].messages) /\ SameTurns(file[n].messages, talk[file[n].id], {})
      BY DEF IInv, TalkInv
    <3>2. talk'[file[n].id] = talk[file[n].id]
      BY <1>4, <2>2 DEF IInv, NameInv
    <3> QED  BY <1>4, <3>1, <3>2 DEF Settled
  <2> QED  BY <1>1, <1>3, <2>1, <2>3, EmptyIs DEF TalkInv, Settled
<1>9. OrderInv'
  BY <1>1, EmptyIs DEF IInv, OrderInv, Spaced
<1>10. KeepInv'
  <2>1. stored \in Seq(Response)
    BY DEF IInv, TypeOK
  <2>2. \A id : Far(id, least, stored) => Far(id, least', stored)
    BY <1>2, <2>1 DEF Far
  <2> QED  BY <1>1, <1>3, <2>2 DEF IInv, KeepInv
<1> QED
  BY <1>5, <1>6, <1>7, <1>8, <1>9, <1>10 DEF IInv

-----------------------------------------------------------------------------
(* What is kept of a cache that has become too long.                        *)
LEMMA MaxOf == ASSUME NEW k \in Int PROVE Max({1, k}) = IF k > 1 THEN k ELSE 1
  BY DEF Max

LEMMA NewestIs ==
  ASSUME NEW S, NEW t \in Seq(S), Len(t) > 0, cap \in Nat \ {0}
  PROVE  LET k == IF Len(t) > cap THEN Len(t) - cap ELSE 0
         IN /\ k \in Nat /\ k < Len(t) /\ (k > 0 => Len(t) - k = cap)
            /\ Newest(t) \in Seq(S) /\ Len(Newest(t)) = Len(t) - k
            /\ \A n \in 1 .. Len(t) - k : Newest(t)[n] = t[n + k]
<1> DEFINE k == IF Len(t) > cap THEN Len(t) - cap ELSE 0
<1>1. Len(t) \in Nat /\ k \in Nat /\ k < Len(t) /\ (k > 0 => Len(t) - k = cap)
  OBVIOUS
<1>2. Max({1, Len(t) - cap + 1}) = k + 1
  <2>1. Len(t) - cap + 1 \in Int
    BY <1>1
  <2> QED  BY <1>1, <2>1, MaxOf
<1> HIDE DEF k
<1>3. Newest(t) = SubSeq(t, k + 1, Len(t))
  BY <1>2 DEF Newest
<1>4. /\ SubSeq(t, k + 1, Len(t)) \in Seq(S) /\ Len(SubSeq(t, k + 1, Len(t))) = Len(t) - k
      /\ \A n \in 1 .. Len(t) - k : SubSeq(t, k + 1, Len(t))[n] = t[n + k]
  BY <1>1
<1> QED
  BY <1>1, <1>3, <1>4 DEF k

(* A session is stored under a new name: the order of those that stay.      *)
LEMMA SpacedLater ==
  ASSUME NEW s \in Seq(SessionType), NEW names \in Seq(Response), NEW id \in Response,
         \A m \in DOMAIN names : names[m] # id, Spaced(s, names)
  PROVE  Spaced(s, Append(names, id))
<1>1. /\ Append(names, id) \in Seq(Response) /\ Len(Append(names, id)) = Len(names) + 1
      /\ \A n \in DOMAIN names : n \in 1 .. Len(names) /\ Append(names, id)[n] = names[n]
      /\ Append(names, id)[Len(names) + 1] = id /\ Len(names) \in Nat
      /\ DOMAIN Append(names, id) = 1 .. Len(names) + 1 /\ DOMAIN names = 1 .. Len(names)
  BY AppendFacts
<1> DEFINE more == Append(names, id)
<1> HIDE DEF more
<1>2. \A m \in DOMAIN more, p \in DOMAIN s :
        more[m] = s[p].id => m \in DOMAIN names /\ names[m] = s[p].id
  <2> SUFFICES ASSUME NEW m \in DOMAIN more, NEW p \in DOMAIN s, more[m] = s[p].id
               PROVE  m \in DOMAIN names /\ names[m] = s[p].id
    OBVIOUS
  <2>1. s[p].id # id
    BY DEF Spaced
  <2> QED  BY <1>1, <2>1 DEF more
<1>3. \A p \in DOMAIN s : \E m \in DOMAIN more : more[m] = s[p].id
  BY <1>1 DEF Spaced, more
<1>4. \A p, q \in DOMAIN s, m, n \in DOMAIN more :
        p <= q /\ more[m] = s[p].id /\ more[n] = s[q].id => q - p <= n - m
  BY <1>2 DEF Spaced
<1>5. Spaced(s, more)
  BY <1>3, <1>4 DEF Spaced
<1> QED
  BY <1>5 DEF more

LEMMA OneFarther ==
  ASSUME NEW p \in Nat, NEW q \in Nat, NEW m \in Nat, NEW k \in Nat, NEW a \in Nat, NEW b \in Nat,
         a - (p + k) <= b - m, q + k = a + 1
  PROVE  q - p <= b + 1 - m
  OBVIOUS

(* ... and of all, with the new one at the end and the k oldest gone.       *)
LEMMA SpacedNewest ==
  ASSUME NEW c \in Seq(SessionType), NEW names \in Seq(Response), NEW new \in SessionType,
         \A m \in DOMAIN names : names[m] # new.id, Spaced(c, names),
         \A m, n \in DOMAIN names : names[m] = names[n] => m = n,
         NEW k \in Nat, NEW d \in Seq(SessionType), Len(d) = Len(c) + 1 - k, k <= Len(c),
         \A n \in 1 .. Len(c) + 1 - k : d[n] = Append(c, new)[n + k]
  PROVE  Spaced(d, Append(names, new.id))
<1>1. /\ Append(names, new.id) \in Seq(Response) /\ Len(Append(names, new.id)) = Len(names) + 1
      /\ \A n \in DOMAIN names : n \in 1 .. Len(names) /\ Append(names, new.id)[n] = names[n]
      /\ Append(names, new.id)[Len(names) + 1] = new.id /\ Len(names) \in Nat
      /\ DOMAIN Append(names, new.id) = 1 .. Len(names) + 1 /\ DOMAIN names = 1 .. Len(names)
  <2>1. new.id \in Response
    BY DEF SessionType
  <2> QED  BY <2>1, AppendFacts
<1>2. /\ Append(c, new) \in Seq(SessionType) /\ Len(Append(c, new)) = Len(c) + 1
      /\ \A n \in DOMAIN c : n \in 1 .. Len(c) /\ Append(c, new)[n] = c[n]
      /\ Append(c, new)[Len(c) + 1] = new /\ Len(c) \in Nat
      /\ DOMAIN c = 1 .. Len(c)
  BY AppendFacts
<1> DEFINE more == Append(names, new.id)
<1> HIDE DEF more
<1>3. DOMAIN d = 1 .. Len(c) + 1 - k
  BY <1>2
<1>4. \A p \in DOMAIN d : \/ p + k \in DOMAIN c /\ d[p] = c[p + k]
                          \/ p + k = Len(c) + 1 /\ d[p] = new
  BY <1>2, <1>3
<1>5. \A m \in DOMAIN more : \/ m \in DOMAIN names /\ more[m] = names[m] /\ more[m] # new.id
                             \/ m = Len(names) + 1 /\ more[m] = new.id
  BY <1>1 DEF more
<1>6. \A p \in DOMAIN c : c[p].id # new.id
  BY DEF Spaced
<1>7. \A p \in DOMAIN d : \E m \in DOMAIN more : more[m] = d[p].id
  <2> SUFFICES ASSUME NEW p \in DOMAIN d PROVE \E m \in DOMAIN more : more[m] = d[p].id
    OBVIOUS
  <2>1. CASE p + k \in DOMAIN c /\ d[p] = c[p + k]
    <3>1. PICK m \in DOMAIN names : names[m] = c[p + k].id
      BY <2>1 DEF Spaced
    <3>2. m \in DOMAIN more /\ more[m] = names[m]
      BY <1>1 DEF more
    <3> QED  BY <2>1, <3>1, <3>2
  <2>2. CASE d[p] = new
    <3>1. Len(names) + 1 \in DOMAIN more /\ more[Len(names) + 1] = d[p].id
      BY <1>1, <2>2 DEF more
    <3> QED  BY <3>1
  <2> QED  BY <1>4, <2>1, <2>2
\* The newest is as far from the others as they are from the end.
<1>8. \A p \in DOMAIN c, m \in DOMAIN names : names[m] = c[p].id => Len(c) - p <= Len(names) - m
  <2> SUFFICES ASSUME NEW p \in DOMAIN c, NEW m \in DOMAIN names, names[m] = c[p].id
               PROVE  Len(c) - p <= Len(names) - m
    OBVIOUS
  <2>1. Len(c) \in DOMAIN c /\ p <= Len(c)
    BY <1>2
  <2>2. PICK n \in DOMAIN names : names[n] = c[Len(c)].id
    BY <2>1 DEF Spaced
  <2>3. Len(c) - p <= n - m
    BY <2>1, <2>2 DEF Spaced
  <2>4. n <= Len(names) /\ n \in Nat /\ m \in Nat
    BY <1>1
  <2> QED  BY <1>1, <1>2, <2>3, <2>4
<1>9. ASSUME NEW p \in DOMAIN d, NEW q \in DOMAIN d, NEW m \in DOMAIN more, NEW n \in DOMAIN more,
             p <= q, more[m] = d[p].id, more[n] = d[q].id
      PROVE  q - p <= n - m
  <2>1. p \in Nat /\ q \in Nat /\ m \in Nat /\ n \in Nat
    BY <1>1, <1>3 DEF more
  <2>2. CASE q + k \in DOMAIN c /\ d[q] = c[q + k]
    <3>1. p + k \in DOMAIN c /\ d[p] = c[p + k]
      BY <1>2, <1>4, <1>9, <2>1, <2>2
    <3>2. m \in DOMAIN names /\ names[m] = c[p + k].id /\ n \in DOMAIN names /\ names[n] = c[q + k].id
      BY <1>5, <1>6, <1>9, <2>2, <3>1
    <3>3. p + k <= q + k
      BY <1>9, <2>1
    <3>4. (q + k) - (p + k) <= n - m
      BY <2>2, <3>1, <3>2, <3>3 DEF Spaced
    <3> QED  BY <2>1, <3>4
  <2>3. CASE q + k = Len(c) + 1 /\ d[q] = new
    <3>1. n = Len(names) + 1
      BY <1>5, <1>9, <2>3
    <3>2. CASE d[p] = new
      <4>1. p + k = Len(c) + 1
        BY <1>4, <1>6, <3>2
      <4>2. m = Len(names) + 1
        BY <1>5, <1>9, <3>2
      <4> QED  BY <1>1, <1>2, <2>1, <2>3, <3>1, <4>1, <4>2
    <3>3. CASE p + k \in DOMAIN c /\ d[p] = c[p + k]
      <4>1. m \in DOMAIN names /\ names[m] = c[p + k].id
        BY <1>5, <1>6, <1>9, <3>3
      <4>2. Len(c) - (p + k) <= Len(names) - m
        BY <1>8, <3>3, <4>1
      <4>3. p \in Nat /\ q \in Nat /\ m \in Nat /\ k \in Nat /\ Len(c) \in Nat /\ Len(names) \in Nat
        BY <1>1, <1>2, <2>1
      <4>4. q + k = Len(c) + 1
        BY <2>3
      <4>5. q - p <= Len(names) + 1 - m
        BY ONLY <4>2, <4>3, <4>4, OneFarther
      <4>6. n - m = Len(names) + 1 - m
        BY ONLY <2>1, <3>1, <4>3
      <4> QED  BY ONLY <4>5, <4>6
    <3> QED  BY <1>4, <3>2, <3>3
  <2> QED  BY <1>4, <2>2, <2>3
<1>10. Spaced(d, more)
  BY <1>7, <1>9 DEF Spaced
<1> QED
  BY <1>10 DEF more

(* Whoever is evicted has as many after it as the cache holds.              *)
LEMMA Evicted ==
  ASSUME NEW c \in Seq(SessionType), NEW names \in Seq(Response), NEW new \in SessionType,
         Spaced(c, names), NEW k \in Nat, NEW d, DOMAIN d = 1 .. Len(c) + 1 - k, k <= Len(c),
         \A n \in 1 .. Len(c) + 1 - k : d[n] = Append(c, new)[n + k],
         NEW size \in Nat, k > 0 => Len(c) + 1 - k = size, NEW j \in Nat, j <= size,
         NEW id, Has(c, id) \/ Far(id, j, names)
  PROVE  Has(d, id) \/ Far(id, j, Append(names, new.id))
<1>1. /\ Len(Append(names, new.id)) = Len(names) + 1
      /\ \A n \in DOMAIN names : n \in 1 .. Len(names) /\ Append(names, new.id)[n] = names[n]
      /\ Len(names) \in Nat /\ DOMAIN names = 1 .. Len(names)
      /\ DOMAIN Append(names, new.id) = 1 .. Len(names) + 1
  <2>1. new.id \in Response
    BY DEF SessionType
  <2> QED  BY <2>1, AppendFacts
<1>2. /\ \A n \in DOMAIN c : n \in 1 .. Len(c) /\ Append(c, new)[n] = c[n]
      /\ Len(c) \in Nat /\ DOMAIN c = 1 .. Len(c)
  BY AppendFacts
<1> DEFINE more == Append(names, new.id)
<1> HIDE DEF more
<1>3. CASE Far(id, j, names)
  <2>1. PICK m \in DOMAIN names : names[m] = id /\ j <= Len(names) - m
    BY <1>3 DEF Far
  <2>2. m \in DOMAIN more /\ more[m] = id /\ j <= Len(more) - m
    BY <1>1, <2>1 DEF more
  <2> QED  BY <2>2 DEF Far, more
<1>4. CASE Has(c, id)
  <2>1. PICK n \in DOMAIN c : c[n].id = id
    BY <1>4 DEF Has
  <2>2. n \in Nat /\ n <= Len(c) /\ n >= 1
    BY <1>2
  <2>3. CASE n > k
    <3>1. n - k \in 1 .. Len(c) + 1 - k /\ n - k + k = n
      BY <1>2, <2>2, <2>3
    <3>2. d[n - k] = c[n]
      BY <1>2, <3>1
    <3> QED  BY <2>1, <3>1, <3>2 DEF Has
  <2>4. CASE n <= k
    <3>1. PICK m \in DOMAIN names : names[m] = id
      BY <2>1 DEF Spaced
    <3>2. Len(c) \in DOMAIN c
      BY <1>2, <2>2
    <3>3. PICK l \in DOMAIN names : names[l] = c[Len(c)].id
      BY <3>2 DEF Spaced
    <3>4. Len(c) - n <= l - m
      BY <2>1, <2>2, <3>1, <3>2, <3>3 DEF Spaced
    <3>5. m \in Nat /\ l \in Nat /\ l <= Len(names)
      BY <1>1
    <3>6. Len(c) + 1 - k = size
      BY <2>2, <2>4
    <3>7. j <= Len(names) + 1 - m
      BY <1>1, <1>2, <2>2, <2>4, <3>4, <3>5, <3>6
    <3>8. m \in DOMAIN more /\ more[m] = id /\ j <= Len(more) - m
      BY <1>1, <3>1, <3>7 DEF more
    <3> QED  BY <3>8 DEF Far, more
  <2> QED  BY <2>2, <2>3, <2>4
<1> QED
  BY <1>3, <1>4

(* The file has the sessions of the cache, without images.                  *)
LEMMA DumpIs ==
  ASSUME NEW d \in Seq(SessionType)
  PROVE  /\ Dump(d) \in Seq(SessionType) /\ DOMAIN Dump(d) = DOMAIN d
         /\ \A n \in DOMAIN d :
              /\ Dump(d)[n].id = d[n].id
              /\ DOMAIN Dump(d)[n].messages = DOMAIN d[n].messages
              /\ Len(Dump(d)[n].messages) = Len(d[n].messages)
              /\ \A k \in DOMAIN d[n].messages :
                   /\ Dump(d)[n].messages[k].of = d[n].messages[k].of
                   /\ Dump(d)[n].messages[k].image = FALSE
<1>1. ASSUME NEW t \in Seq(TurnOf)
      PROVE  /\ WithoutImages(t) \in Seq(TurnOf) /\ DOMAIN WithoutImages(t) = DOMAIN t
             /\ Len(WithoutImages(t)) = Len(t)
             /\ \A k \in DOMAIN t : /\ WithoutImages(t)[k].of = t[k].of
                                    /\ WithoutImages(t)[k].image = FALSE
  <2>1. ASSUME NEW x \in TurnOf
        PROVE  /\ [x EXCEPT !.image = FALSE] \in TurnOf /\ [x EXCEPT !.image = FALSE].of = x.of
               /\ [x EXCEPT !.image = FALSE].image = FALSE
    BY DEF TurnOf
  <2>2. \A k \in DOMAIN t : t[k] \in TurnOf
    OBVIOUS
  <2>3. DOMAIN t = 1 .. Len(t) /\ Len(t) \in Nat
    OBVIOUS
  <2>4. /\ WithoutImages(t) \in [1 .. Len(t) -> TurnOf]
        /\ \A k \in DOMAIN t : WithoutImages(t)[k] = [t[k] EXCEPT !.image = FALSE]
    BY <2>1, <2>2, <2>3 DEF WithoutImages
  <2>5. WithoutImages(t) \in Seq(TurnOf) /\ Len(WithoutImages(t)) = Len(t)
    BY <2>3, <2>4
  <2>6. \A k \in DOMAIN t : /\ WithoutImages(t)[k].of = t[k].of
                            /\ WithoutImages(t)[k].image = FALSE
    <3>1. \A k \in DOMAIN t : WithoutImages(t)[k] = [t[k] EXCEPT !.image = FALSE] /\ t[k] \in TurnOf
      BY <2>2, <2>4
    <3> QED  BY ONLY <2>1, <3>1
  <2>7. DOMAIN WithoutImages(t) = DOMAIN t
    BY <2>3, <2>4
  <2> QED  BY <2>5, <2>6, <2>7
<1>2. ASSUME NEW s \in SessionType
      PROVE  LET w == [s EXCEPT !.messages = WithoutImages(@)]
             IN w \in SessionType /\ w.id = s.id /\ w.messages = WithoutImages(s.messages)
  <2> DEFINE m == WithoutImages(s.messages)
  <2>1. m \in Seq(TurnOf)
    <3>1. s.messages \in Seq(TurnOf)
      BY DEF SessionType
    <3> QED  BY <1>1, <3>1
  <2> HIDE DEF m
  <2>2. LET w == [s EXCEPT !.messages = m] IN w \in SessionType /\ w.id = s.id /\ w.messages = m
    BY <2>1 DEF SessionType
  <2> QED  BY <2>2 DEF m
<1>3. \A n \in DOMAIN d : d[n] \in SessionType /\ d[n].messages \in Seq(TurnOf)
  <2>1. \A n \in DOMAIN d : d[n] \in SessionType
    OBVIOUS
  <2> QED  BY <2>1 DEF SessionType
<1>4. DOMAIN d = 1 .. Len(d) /\ Len(d) \in Nat
  OBVIOUS
<1>5. \A n \in DOMAIN d : Dump(d)[n] = [d[n] EXCEPT !.messages = WithoutImages(@)]
  BY DEF Dump
<1>6. \A n \in DOMAIN d : /\ Dump(d)[n] \in SessionType /\ Dump(d)[n].id = d[n].id
                          /\ Dump(d)[n].messages = WithoutImages(d[n].messages)
  BY <1>2, <1>3, <1>5
<1>7. DOMAIN Dump(d) = DOMAIN d /\ Dump(d) \in [1 .. Len(d) -> SessionType]
  <2>1. Dump(d) = [n \in DOMAIN d |-> Dump(d)[n]]
    BY DEF Dump
  <2> QED  BY <1>4, <1>6, <2>1
<1>8. Dump(d) \in Seq(SessionType)
  BY <1>4, <1>7
<1>9. ASSUME NEW n \in DOMAIN d
      PROVE  /\ Dump(d)[n].id = d[n].id
             /\ DOMAIN Dump(d)[n].messages = DOMAIN d[n].messages
             /\ Len(Dump(d)[n].messages) = Len(d[n].messages)
             /\ \A k \in DOMAIN d[n].messages :
                  /\ Dump(d)[n].messages[k].of = d[n].messages[k].of
                  /\ Dump(d)[n].messages[k].image = FALSE
  <2>1. d[n].messages \in Seq(TurnOf) /\ Dump(d)[n].messages = WithoutImages(d[n].messages)
        /\ Dump(d)[n].id = d[n].id
    BY <1>3, <1>6
  <2> QED  BY ONLY <1>1, <2>1
<1> QED
  BY ONLY <1>7, <1>8, <1>9

-----------------------------------------------------------------------------
(* An answered response is stored under its name, before its client hears   *)
(* of it.                                                                   *)
LEMMA SessionIs ==
  ASSUME NEW q \in RequestType, q.id # None
  PROVE  /\ Session(q) \in SessionType /\ Session(q).id = q.id
         /\ Session(q).messages = Append(q.msgs, [of |-> q.id, image |-> q.image])
<1>1. [of |-> q.id, image |-> q.image] \in TurnOf /\ q.msgs \in Seq(TurnOf) /\ q.id \in Response
  BY DEF RequestType, TurnOf
<1> DEFINE m == Append(q.msgs, [of |-> q.id, image |-> q.image])
<1>2. m \in Seq(TurnOf)
  BY <1>1
<1>3. Session(q) = [id |-> q.id, messages |-> m]
  BY DEF Session
<1> HIDE DEF m
<1>4. Session(q) \in SessionType /\ Session(q).id = q.id /\ Session(q).messages = m
  BY <1>1, <1>2, <1>3 DEF SessionType
<1> QED
  BY <1>4 DEF m

(* A turn added to both.                                                    *)
LEMMA OneMoreTurn ==
  ASSUME NEW s \in Seq(TurnOf), NEW t \in Seq(TurnOf), NEW W, SameTurns(s, t, W), NEW x \in TurnOf
  PROVE  SameTurns(Append(s, x), Append(t, x), W)
<1>1. /\ Len(Append(s, x)) = Len(s) + 1 /\ Append(s, x)[Len(s) + 1] = x
      /\ \A n \in DOMAIN s : Append(s, x)[n] = s[n]
      /\ DOMAIN Append(s, x) = 1 .. Len(s) + 1 /\ DOMAIN s = 1 .. Len(s) /\ Len(s) \in Nat
  BY AppendFacts
<1>2. /\ Len(Append(t, x)) = Len(t) + 1 /\ Append(t, x)[Len(t) + 1] = x
      /\ \A n \in DOMAIN t : Append(t, x)[n] = t[n]
      /\ DOMAIN t = 1 .. Len(t)
  BY AppendFacts
<1>3. Len(s) = Len(t) /\ \A n \in DOMAIN s : SameTurn(s[n], t[n], W)
  BY DEF SameTurns
<1>4. ASSUME NEW n \in DOMAIN Append(s, x) PROVE SameTurn(Append(s, x)[n], Append(t, x)[n], W)
  <2>1. CASE n \in DOMAIN s
    BY <1>1, <1>2, <1>3, <2>1
  <2>2. CASE n = Len(s) + 1
    <3>1. Append(s, x)[n] = x /\ Append(t, x)[n] = x
      BY <1>1, <1>2, <1>3, <2>2
    <3>2. SameTurn(x, x, W)
      BY DEF SameTurn
    <3>3. ASSUME NEW u, NEW v, u = x, v = x PROVE SameTurn(u, v, W)
      BY ONLY <3>2, <3>3
    <3> QED  BY ONLY <3>1, <3>3
  <2>3. n \in DOMAIN s \/ n = Len(s) + 1
    BY <1>1
  <2> QED  BY <2>1, <2>2, <2>3
<1> QED
  BY <1>1, <1>2, <1>3, <1>4 DEF SameTurns

(* Turns of which none is of the new response are as good as before.        *)
LEMMA SameTurnsMore ==
  ASSUME NEW s, NEW t, NEW V, NEW W, NEW id, W \subseteq V \cup {id},
         \A n \in DOMAIN s : s[n].of # id, SameTurns(s, t, V)
  PROVE  SameTurns(s, t, W)
  BY DEF SameTurns, SameTurn

LEMMA PutStep == ASSUME IInv, NEW r \in Request, Put(r) PROVE IInv'
<1> DEFINE q == req[r]
<1>1. /\ Fine(r) /\ q.pc = "put" /\ q.result = "stop" /\ ~q.gone /\ q.id # None /\ q.slots = 1
      /\ q.id \in Response
  <2>1. Fine(r) /\ q.pc = "put"
    BY IsFine DEF Put
  <2> QED  BY <2>1 DEF Fine, StageInv, Named, RequestType
<1>2. UNCHANGED <<told, settingVars, talk, full, least>>
  BY DEF Put, Quiet
<1>3. PICK c \in Opened :
        /\ ensureLoaded(c) /\ cache' = Newest(Append(c, Session(q)))
        /\ stored' = Append(stored, Session(q).id) /\ persistLocked(cache')
  BY DEF Put, put
<1>4. /\ Usable(c) /\ loaded' \in BOOLEAN /\ unread' \in BOOLEAN /\ loaded' /\ (unread => unread')
      /\ persist /\ ~unread' => \A id \in written : Has(c, id) \/ Far(id, least, stored)
  BY <1>3, OpenedIs
<1>5. PICK new \in SessionType :
        /\ new = Session(q) /\ new.id = q.id
        /\ new.messages = Append(q.msgs, [of |-> q.id, image |-> q.image])
  BY <1>1, SessionIs DEF Fine
<1>6. PICK p : p = [q EXCEPT !.pc = "terminal"] /\ req' = [req EXCEPT ![r] = p]
  BY DEF Put, Become
<1>7. /\ p \in RequestType /\ p.pc = "terminal" /\ p.slots = q.slots /\ p.result = q.result
      /\ p.streaming = q.streaming /\ p.prev = q.prev /\ p.id = q.id
      /\ p.image = q.image /\ p.msgs = q.msgs /\ p.items = q.items
      /\ p.events = q.events /\ p.gone = q.gone
  BY <1>1, <1>6 DEF RequestType, Fine, Pc
<1>8. EventInv(p)
  BY <1>1, <1>7 DEF Fine, EventInv, Writes, Ended
<1>9. StageInv(p) /\ Named(p) /\ Answered(p) /\ ~Ready(p)
  BY <1>1, <1>7 DEF Fine, StageInv, Named, Answered, Ready
<1>10. /\ req' \in [Request -> RequestType] /\ req'[r] = p
       /\ \A s \in Request \ {r} : req'[s] = req[s]
  BY <1>6, <1>7 DEF IInv, TypeOK
\* The names.
<1>11. stored \in Seq(Response) /\ \A m \in DOMAIN stored : stored[m] # q.id
  <2>1. q.id \notin Stored
    BY <1>1 DEF IInv, NameInv
  <2> QED  BY <2>1 DEF IInv, TypeOK, Stored, ToSet
<1>12. /\ stored' = Append(stored, q.id) /\ stored' \in Seq(Response)
       /\ Len(stored') = Len(stored) + 1 /\ stored'[Len(stored) + 1] = q.id
       /\ \A m \in DOMAIN stored : m \in 1 .. Len(stored) /\ stored'[m] = stored[m]
       /\ DOMAIN stored' = 1 .. Len(stored) + 1 /\ DOMAIN stored = 1 .. Len(stored)
       /\ Len(stored) \in Nat
  <2>1. stored' = Append(stored, q.id)
    BY <1>3, <1>5
  <2> QED  BY <1>1, <1>11, <2>1, AppendFacts
<1>13. Stored' = Stored \cup {q.id} /\ q.id \notin Stored
  <2>1. \A x : x \in Stored' <=> \E m \in DOMAIN stored' : x = stored'[m]
    BY DEF Stored, ToSet
  <2>2. \A x : x \in Stored <=> \E m \in DOMAIN stored : x = stored[m]
    BY DEF Stored, ToSet
  <2>3. ASSUME NEW x PROVE x \in Stored' <=> x \in Stored \cup {q.id}
    <3>1. ASSUME x \in Stored' PROVE x \in Stored \cup {q.id}
      <4>1. PICK m \in DOMAIN stored' : x = stored'[m]
        BY <2>1, <3>1
      <4>2. CASE m \in DOMAIN stored
        BY <1>12, <2>2, <4>1, <4>2
      <4>3. CASE m = Len(stored) + 1
        BY <1>12, <4>1, <4>3
      <4> QED  BY <1>12, <4>2, <4>3
    <3>2. ASSUME x \in Stored PROVE x \in Stored'
      <4>1. PICK m \in DOMAIN stored : x = stored[m]
        BY <2>2, <3>2
      <4>2. m \in DOMAIN stored' /\ stored'[m] = x
        BY <1>12, <4>1
      <4> QED  BY <2>1, <4>2
    <3>3. q.id \in Stored'
      <4>1. Len(stored) + 1 \in DOMAIN stored' /\ stored'[Len(stored) + 1] = q.id
        BY <1>12
      <4> QED  BY <2>1, <4>1
    <3> QED  BY <3>1, <3>2, <3>3
  <2> QED  BY <1>11, <2>2, <2>3
<1>14. Whole' \subseteq Whole \cup {q.id}
  <2>1. \A s \in Request : s # r /\ Answered(req'[s]) => Answered(req[s]) /\ req'[s].id = req[s].id
    BY <1>10
  <2> QED  BY <1>2, <1>7, <1>10, <2>1 DEF Whole
\* What is in the cache then.
<1> DEFINE t == Append(c, new)
           k == IF Len(t) > cap THEN Len(t) - cap ELSE 0
<1>15. /\ c \in Seq(SessionType) /\ t \in Seq(SessionType) /\ Len(t) = Len(c) + 1 /\ Len(c) \in Nat
       /\ \A n \in DOMAIN c : n \in 1 .. Len(c) /\ t[n] = c[n]
       /\ t[Len(c) + 1] = new /\ DOMAIN c = 1 .. Len(c)
  BY <1>4, AppendFacts DEF Usable
<1>16. cap \in Nat \ {0}
  BY SessionAssumption DEF IInv, TypeOK
<1>17. cache' = Newest(t)
  BY <1>3, <1>5
<1> HIDE DEF t
<1>18. /\ k \in Nat /\ k < Len(t) /\ (k > 0 => Len(t) - k = cap)
       /\ cache' \in Seq(SessionType) /\ Len(cache') = Len(t) - k
       /\ \A n \in 1 .. Len(t) - k : cache'[n] = t[n + k]
  <2>1. Len(t) > 0
    BY <1>15
  <2> QED  BY ONLY <1>15, <1>16, <1>17, <2>1, NewestIs
<1> HIDE DEF k
<1>19. DOMAIN cache' = 1 .. Len(c) + 1 - k /\ k <= Len(c)
  BY <1>15, <1>18
<1>20. \A n \in 1 .. Len(c) + 1 - k : cache'[n] = Append(c, new)[n + k]
  <2>1. Len(t) - k = Len(c) + 1 - k
    BY <1>15, <1>18
  <2> QED  BY <1>18, <2>1 DEF t
<1>21. \A n \in DOMAIN cache' : cache'[n] = new \/ \E m \in DOMAIN c : cache'[n] = c[m]
  <2> SUFFICES ASSUME NEW n \in DOMAIN cache', n + k # Len(c) + 1
               PROVE  \E m \in DOMAIN c : cache'[n] = c[m]
    BY <1>15, <1>18, <1>19
  <2>1. n + k \in DOMAIN c
    BY <1>15, <1>18, <1>19
  <2> QED  BY <1>15, <1>18, <1>19, <2>1
<1>22. Spaced(cache', stored')
  <2>1. \A m \in DOMAIN stored : stored[m] # new.id
    BY <1>5, <1>11
  <2>2. Spaced(c, stored) /\ \A m, n \in DOMAIN stored : stored[m] = stored[n] => m = n
    BY <1>4 DEF Usable, IInv, NameInv
  <2>3. Len(cache') = Len(c) + 1 - k
    BY <1>15, <1>18
  <2>4. stored' = Append(stored, new.id)
    BY <1>5, <1>12
  <2>5. cache' \in Seq(SessionType) /\ k \in Nat /\ k <= Len(c) /\ c \in Seq(SessionType)
    BY <1>15, <1>18, <1>19
  <2>6. Spaced(cache', Append(stored, new.id))
    BY ONLY <1>11, <1>20, <2>1, <2>2, <2>3, <2>5, SpacedNewest, new \in SessionType
  <2> QED  BY <2>4, <2>6
<1>23. \A id, j : j \in Nat /\ j <= cap /\ (Has(c, id) \/ Far(id, j, stored)) =>
         Has(cache', id) \/ Far(id, j, stored')
  <2> SUFFICES ASSUME NEW id, NEW j \in Nat, j <= cap, Has(c, id) \/ Far(id, j, stored)
               PROVE  Has(cache', id) \/ Far(id, j, stored')
    OBVIOUS
  <2>1. /\ c \in Seq(SessionType) /\ stored \in Seq(Response) /\ k \in Nat /\ k <= Len(c)
        /\ DOMAIN cache' = 1 .. Len(c) + 1 - k
    BY <1>11, <1>15, <1>18, <1>19
  <2>2. cap \in Nat
    BY <1>16
  <2>3. stored' = Append(stored, new.id)
    BY <1>5, <1>12
  <2>4. Spaced(c, stored)
    BY <1>4 DEF Usable
  <2>5. k > 0 => Len(c) + 1 - k = cap
    BY <1>15, <1>18
  <2>6. Has(cache', id) \/ Far(id, j, Append(stored, new.id))
    BY ONLY <1>20, <2>1, <2>2, <2>4, <2>5, Evicted, j \in Nat, j <= cap,
            Has(c, id) \/ Far(id, j, stored), new \in SessionType
  <2> QED  BY <2>3, <2>6
<1>24. Has(cache', q.id)
  <2> DEFINE n == Len(t) - k
  <2>1. n \in DOMAIN cache' /\ n \in 1 .. Len(t) - k /\ n + k = Len(c) + 1
    BY <1>15, <1>18, <1>19
  <2>2. cache'[n] = new
    BY <1>15, <1>18, <2>1
  <2> QED  BY <1>5, <2>1, <2>2 DEF Has
\* What is in the file.
<1>25. \/ file' = file /\ written' = written
       \/ persist /\ file' = Dump(cache') /\ written' = written \cup Ids(cache')
  BY <1>3 DEF persistLocked, writeSessionFile
<1>26. TypeOK'
  <2>1. file' \in Seq(SessionType)
    BY <1>18, <1>25, DumpIs DEF IInv, TypeOK
  <2> QED  BY <1>2, <1>4, <1>10, <1>12, <1>18, <2>1 DEF IInv, TypeOK, settingVars
<1>27. RequestInv'
  BY <1>8, <1>9, <1>10 DEF IInv, RequestInv
<1>28. NameInv'
  <2>1. ASSUME NEW m \in DOMAIN stored', NEW n \in DOMAIN stored', stored'[m] = stored'[n] PROVE m = n
    <3>1. CASE m \in DOMAIN stored /\ n \in DOMAIN stored
      BY <1>12, <2>1, <3>1 DEF IInv, NameInv
    <3>2. CASE m \notin DOMAIN stored
      <4>1. m = Len(stored) + 1
        BY <1>12, <3>2
      <4> QED  BY <1>11, <1>12, <2>1, <4>1
    <3>3. CASE n \notin DOMAIN stored
      <4>1. n = Len(stored) + 1
        BY <1>12, <3>3
      <4> QED  BY <1>11, <1>12, <2>1, <4>1
    <3> QED  BY <3>1, <3>2, <3>3
  <2>2. q.id \in DOMAIN talk /\ Stored \subseteq DOMAIN talk /\ told \subseteq Stored
    BY <1>1 DEF IInv, NameInv, Named
  <2>3. ASSUME NEW s \in Request, NEW u \in Request, req'[s].id = req'[u].id, Named(req'[s]) PROVE s = u
    <3>1. \A v \in Request : req'[v].id = req[v].id /\ (Named(req'[v]) => Named(req[v]))
      BY <1>1, <1>7, <1>10 DEF Named
    <3> QED  BY <2>3, <3>1 DEF IInv, NameInv
  <2>4. ASSUME NEW s \in Request
        PROVE  /\ Named(req'[s]) => req'[s].id \in DOMAIN talk'
               /\ req'[s].pc \in {"open", "relay", "tools", "close", "put"} => req'[s].id \notin Stored'
               /\ Answered(req'[s]) => req'[s].id \in Stored'
               /\ req'[s].prev # None => req'[s].prev \in Stored'
    <3>1. CASE s = r
      BY <1>2, <1>7, <1>10, <1>13, <2>2, <3>1 DEF IInv, NameInv
    <3>2. CASE s # r
      <4>1. req'[s] = req[s]
        BY <1>10, <3>2
      <4>2. Named(req[s]) => req[s].id # q.id
        BY <3>2 DEF IInv, NameInv
      <4>3. req[s].pc \in {"open", "relay", "tools", "close", "put"} => Named(req[s])
        BY DEF Named
      <4> QED  BY <1>2, <1>13, <4>1, <4>2, <4>3 DEF IInv, NameInv
    <3> QED  BY <3>1, <3>2
  <2> QED  BY <1>2, <1>4, <1>13, <2>1, <2>2, <2>3, <2>4 DEF NameInv
\* The conversations: the new one's last turn is the only one of its name.
<1>29. \A turns : Settled(turns) =>
         /\ \A n \in DOMAIN turns : turns[n].of \in full' /\ turns[n].of \in Stored'
         /\ \A n \in DOMAIN turns : turns[n].of # q.id
  BY <1>2, <1>13 DEF Settled
<1>30. \A turns, s : Settled(turns) /\ SameTurns(turns, s, Whole) => SameTurns(turns, s, Whole')
  BY <1>14, <1>29, SameTurnsMore
<1>31. /\ \A n \in DOMAIN new.messages : /\ new.messages[n].of \in full'
                                         /\ new.messages[n].of \in Stored'
       /\ SameTurns(new.messages, talk[q.id], Whole')
  <2> DEFINE x == [of |-> q.id, image |-> q.image]
             b == Continued(q)
  <2>1. Settled(q.msgs) /\ q.msgs \in Seq(TurnOf) /\ q.id \in full /\ talk[q.id] = Append(b, x)
    BY <1>1 DEF IInv, TalkInv, Fine, RequestType, Ready, Named
  <2>2. x \in TurnOf /\ x.of = q.id
    BY <1>1 DEF TurnOf, Fine, RequestType
  <2> HIDE DEF x
  <2>3. b \in Seq(TurnOf) /\ SameTurns(q.msgs, b, Whole)
    <3>1. CASE q.prev = None
      <4>1. b = <<>> /\ q.msgs = <<>>
        BY <1>1, <3>1 DEF Continued, Fine, StageInv
      <4> QED  BY <4>1, EmptyIs DEF SameTurns
    <3>2. CASE q.prev # None
      <4>1. q.prev \in DOMAIN talk /\ b = talk[q.prev]
        BY <3>2 DEF IInv, NameInv, Continued
      <4> QED  BY <3>2, <4>1 DEF IInv, TypeOK, TalkInv
    <3> QED  BY <3>1, <3>2
  <2> HIDE DEF b
  <2>4. SameTurns(q.msgs, b, Whole')
    BY <1>30, <2>1, <2>3
  <2>5. new.messages = Append(q.msgs, x)
    BY <1>5 DEF x
  <2>6. SameTurns(new.messages, talk[q.id], Whole')
    BY <2>1, <2>2, <2>3, <2>4, <2>5, OneMoreTurn
  <2>7. ASSUME NEW n \in DOMAIN new.messages
        PROVE  new.messages[n].of \in full' /\ new.messages[n].of \in Stored'
    <3>1. /\ \A m \in DOMAIN q.msgs : new.messages[m] = q.msgs[m]
          /\ new.messages[Len(q.msgs) + 1] = x
          /\ DOMAIN new.messages = 1 .. Len(q.msgs) + 1 /\ DOMAIN q.msgs = 1 .. Len(q.msgs)
          /\ Len(q.msgs) \in Nat
      BY <2>1, <2>2, <2>5, AppendFacts
    <3>2. n \in DOMAIN q.msgs \/ n = Len(q.msgs) + 1
      BY <3>1
    <3> QED  BY <1>2, <1>13, <1>29, <2>1, <2>2, <3>1, <3>2
  <2> QED  BY <2>6, <2>7
<1>32. ASSUME NEW n \in DOMAIN cache'
       PROVE  /\ \A i \in DOMAIN cache'[n].messages : /\ cache'[n].messages[i].of \in full'
                                                      /\ cache'[n].messages[i].of \in Stored'
              /\ SameTurns(cache'[n].messages, talk'[cache'[n].id], Whole')
  <2>1. CASE cache'[n] = new
    BY <1>2, <1>5, <1>31, <2>1
  <2>2. ASSUME NEW m \in DOMAIN c, cache'[n] = c[m]
        PROVE  /\ \A i \in DOMAIN cache'[n].messages : /\ cache'[n].messages[i].of \in full'
                                                       /\ cache'[n].messages[i].of \in Stored'
               /\ SameTurns(cache'[n].messages, talk'[cache'[n].id], Whole')
    <3>1. Settled(c[m].messages) /\ SameTurns(c[m].messages, talk[c[m].id], Whole)
      BY <1>4 DEF Usable
    <3> QED  BY <1>2, <1>29, <1>30, <2>2, <3>1
  <2> QED  BY <1>21, <2>1, <2>2
<1>33. ASSUME NEW n \in DOMAIN file'
       PROVE  /\ \A i \in DOMAIN file'[n].messages : /\ file'[n].messages[i].of \in full'
                                                     /\ file'[n].messages[i].of \in Stored'
              /\ SameTurns(file'[n].messages, talk'[file'[n].id], {})
  <2>1. CASE file' = file
    <3>1. Settled(file[n].messages) /\ SameTurns(file[n].messages, talk[file[n].id], {})
      BY <2>1 DEF IInv, TalkInv
    <3> QED  BY <1>2, <1>29, <2>1, <3>1
  <2>2. CASE file' = Dump(cache')
    <3> DEFINE s == file'[n].messages
               u == cache'[n].messages
    <3>1. /\ DOMAIN file' = DOMAIN cache'
          /\ \A m \in DOMAIN cache' :
               /\ file'[m].id = cache'[m].id
               /\ DOMAIN file'[m].messages = DOMAIN cache'[m].messages
               /\ Len(file'[m].messages) = Len(cache'[m].messages)
               /\ \A i \in DOMAIN cache'[m].messages :
                    /\ file'[m].messages[i].of = cache'[m].messages[i].of
                    /\ file'[m].messages[i].image = FALSE
      BY ONLY <1>18, <2>2, DumpIs
    <3>2. /\ n \in DOMAIN cache' /\ file'[n].id = cache'[n].id /\ DOMAIN s = DOMAIN u /\ Len(s) = Len(u)
          /\ \A i \in DOMAIN u : s[i].of = u[i].of /\ s[i].image = FALSE
      BY <3>1
    <3>3. SameTurns(u, talk'[cache'[n].id], Whole')
      BY <1>32, <3>2
    <3>4. \A i \in DOMAIN s : s[i].of \in full' /\ s[i].of \in Stored'
      BY <1>32, <3>2
    <3> HIDE DEF s, u
    <3>5. SameTurns(s, talk'[cache'[n].id], {})
      BY <3>2, <3>3 DEF SameTurns, SameTurn
    <3> QED  BY <3>2, <3>4, <3>5 DEF s
  <2> QED  BY <1>25, <2>1, <2>2
<1>34. TalkInv'
  <2>1. ASSUME NEW s \in Request
        PROVE  /\ Ready(req'[s]) =>
                    talk'[req'[s].id] =
                      Append(IF req'[s].prev = None THEN <<>> ELSE talk'[req'[s].prev],
                             [of |-> req'[s].id, image |-> req'[s].image])
               /\ Named(req'[s]) /\ req'[s].result = "stop" => req'[s].id \in full'
               /\ \A n \in DOMAIN req'[s].msgs : /\ req'[s].msgs[n].of \in full'
                                                 /\ req'[s].msgs[n].of \in Stored'
               /\ req'[s].prev # None => SameTurns(req'[s].msgs, talk'[req'[s].prev], Whole')
    <3>1. /\ req'[s].prev = req[s].prev /\ req'[s].msgs = req[s].msgs /\ req'[s].id = req[s].id
          /\ req'[s].image = req[s].image /\ req'[s].result = req[s].result
          /\ (Named(req'[s]) => Named(req[s])) /\ (Ready(req'[s]) => Ready(req[s]))
      BY <1>1, <1>7, <1>9, <1>10 DEF Named
    <3>2. /\ Ready(req[s]) => talk[req[s].id] = Append(IF req[s].prev = None THEN <<>> ELSE talk[req[s].prev],
                                                      [of |-> req[s].id, image |-> req[s].image])
          /\ Named(req[s]) /\ req[s].result = "stop" => req[s].id \in full
      BY DEF IInv, TalkInv, Continued
    <3>3. Settled(req[s].msgs) /\ (req[s].prev # None => SameTurns(req[s].msgs, talk[req[s].prev], Whole))
      BY DEF IInv, TalkInv
    <3>4. /\ \A n \in DOMAIN req[s].msgs : req[s].msgs[n].of \in full' /\ req[s].msgs[n].of \in Stored'
          /\ req[s].prev # None => SameTurns(req[s].msgs, talk[req[s].prev], Whole')
      BY <1>29, <1>30, <3>3
    <3> QED  BY <1>2, <3>1, <3>2, <3>4
  <2> QED  BY <1>32, <1>33, <2>1 DEF TalkInv, Continued, Settled
<1>35. OrderInv'
  <2>1. CASE file' = file
    <3>1. Spaced(file, Append(stored, q.id))
      BY <1>1, <1>11, SpacedLater DEF IInv, TypeOK, OrderInv
    <3> QED  BY <1>12, <1>22, <2>1, <3>1 DEF OrderInv
  <2>2. CASE file' = Dump(cache')
    <3>1. DOMAIN file' = DOMAIN cache' /\ \A n \in DOMAIN cache' : file'[n].id = cache'[n].id
      BY <1>18, <2>2, DumpIs
    <3>2. Spaced(file', stored')
      BY <1>22, <3>1 DEF Spaced
    <3> QED  BY <1>22, <3>2 DEF OrderInv
  <2> QED  BY <1>25, <2>1, <2>2
<1>36. KeepInv'
  <2>1. least \in Nat /\ least <= cap /\ cap \in Nat /\ cap <= cap /\ cap' = cap /\ least' = least
        /\ persist' = persist
    BY <1>2, <1>16 DEF IInv, TypeOK, settingVars
  <2>2. \A id \in Whole' : Has(cache', id) \/ Far(id, cap', stored')
    <3>1. \A id \in Whole : Has(c, id) \/ Far(id, cap, stored)
      BY <1>4 DEF Usable
    <3> QED  BY <1>14, <1>23, <1>24, <2>1, <3>1
  <2>3. \A id : Far(id, least, stored) => Far(id, least, stored')
    <3>1. ASSUME NEW id, NEW m \in DOMAIN stored, stored[m] = id, least <= Len(stored) - m
          PROVE  m \in DOMAIN stored' /\ stored'[m] = id /\ least <= Len(stored') - m
      BY <1>12, <2>1, <3>1
    <3> QED  BY <3>1 DEF Far
  <2>4. \A id : Has(cache', id) <=> id \in Ids(cache')
    BY DEF Has, Ids, ToSet
  <2>5. persist /\ ~unread' => \A id \in written : Has(cache', id) \/ Far(id, least, stored')
    BY <1>4, <1>23, <2>1
  <2>6. persist /\ ~unread' => \A id \in written' : Has(cache', id) \/ Far(id, least, stored')
    BY <1>25, <2>4, <2>5
  <2>7. \A id \in written' : Has(file', id) \/ unread' \/ Far(id, least, stored')
    <3>1. CASE file' = file /\ written' = written
      BY <1>4, <2>3, <3>1 DEF IInv, KeepInv
    <3>2. CASE persist /\ file' = Dump(cache')
      <4>1. DOMAIN file' = DOMAIN cache' /\ \A n \in DOMAIN cache' : file'[n].id = cache'[n].id
        BY <1>18, <3>2, DumpIs
      <4>2. \A id : Has(cache', id) => Has(file', id)
        BY <4>1 DEF Has
      <4> QED  BY <2>6, <3>2, <4>2
    <3> QED  BY <1>25, <3>1, <3>2
  <2> QED  BY <2>1, <2>2, <2>6, <2>7 DEF KeepInv
<1> QED
  BY <1>26, <1>27, <1>28, <1>34, <1>35, <1>36 DEF IInv

-----------------------------------------------------------------------------
LEMMA InitIInv == Init => IInv
<1> SUFFICES ASSUME Init PROVE IInv
  OBVIOUS
<1>1. /\ cap \in Cap /\ persist \in BOOLEAN /\ loaded = FALSE /\ cache = <<>> /\ file = <<>>
      /\ req = [r \in Request |-> Idle] /\ talk = <<>> /\ full = {} /\ told = {} /\ stored = <<>>
      /\ written = {} /\ unread = FALSE /\ least = cap
  BY DEF Init
<1>2. cap \in Nat
  BY <1>1, SessionAssumption
<1>3. \A r \in Request : req[r] = Idle
  BY <1>1
<1>4. TypeOK
  <2>1. <<>> \in [DOMAIN <<>> -> Seq(TurnOf)] /\ DOMAIN <<>> = {}
    <3>1. <<>> \in Seq(Seq(TurnOf)) /\ Len(<<>>) = 0 /\ DOMAIN <<>> = {}
      BY EmptyIs
    <3>2. \A s \in Seq(Seq(TurnOf)) : s \in [DOMAIN s -> Seq(TurnOf)]
      OBVIOUS
    <3> QED  BY <3>1, <3>2
  <2>2. <<>> \in Seq(SessionType) /\ <<>> \in Seq(Response)
    BY EmptyIs
  <2>3. least \in Nat /\ least <= cap
    BY <1>1, <1>2
  <2>4. req \in [Request -> RequestType]
    BY <1>1, IdleIs
  <2>5. talk \in [DOMAIN talk -> Seq(TurnOf)] /\ DOMAIN talk \subseteq Response
    BY <1>1, <2>1
  <2>6. cap \in Cap /\ persist \in BOOLEAN /\ loaded \in BOOLEAN /\ unread \in BOOLEAN
    BY <1>1
  <2> QED  BY <1>1, <2>2, <2>3, <2>4, <2>5, <2>6 DEF TypeOK
<1>5. RequestInv
  BY <1>3, IdleIs DEF RequestInv
<1>6. Whole = {} /\ Stored = {}
  BY <1>1, <1>3, IdleIs, EmptyIs DEF Whole, Stored, ToSet
<1>7. NameInv
  <2>1. \A r \in Request : /\ ~Named(req[r]) /\ ~Answered(req[r]) /\ req[r].prev = None
                           /\ req[r].pc = "idle"
    BY <1>3, IdleIs DEF Idle
  <2> QED  BY <1>1, <1>6, <2>1, EmptyIs DEF NameInv
<1>8. TalkInv
  <2>1. \A r \in Request : /\ ~Ready(req[r]) /\ ~Named(req[r]) /\ req[r].prev = None
                           /\ DOMAIN req[r].msgs = {}
    BY <1>3, IdleIs, EmptyIs
  <2> QED  BY <1>1, <2>1, EmptyIs DEF TalkInv, Settled
<1>9. OrderInv /\ KeepInv
  BY <1>1, <1>6, EmptyIs DEF OrderInv, Spaced, KeepInv
<1> QED
  BY <1>4, <1>5, <1>7, <1>8, <1>9 DEF IInv

LEMMA StutterIInv == ASSUME IInv, UNCHANGED vars PROVE IInv'
<1>1. UNCHANGED <<cap, persist, loaded, cache, file, req, talk, full, told, stored, written, unread, least>>
  BY DEF vars, settingVars, cacheVars, putVars
<1>2. Stored' = Stored /\ Whole' = Whole
  BY <1>1 DEF Stored, Whole
<1>3. TypeOK'
  BY <1>1 DEF IInv, TypeOK
<1>4. RequestInv' /\ NameInv'
  BY <1>1, <1>2 DEF IInv, RequestInv, NameInv
<1>5. TalkInv'
  BY <1>1, <1>2 DEF IInv, TalkInv, Continued, Settled
<1>6. OrderInv' /\ KeepInv'
  BY <1>1, <1>2 DEF IInv, OrderInv, KeepInv
<1> QED
  BY <1>3, <1>4, <1>5, <1>6 DEF IInv

LEMMA RequestStepKeeps == ASSUME IInv, NEW r \in Request, RequestStep(r) PROVE IInv'
<1>1. Fine(r)
  BY IsFine
<1>2. CASE Resolve(r)
  BY <1>2, ResolveStep
<1>3. CASE Put(r)
  BY <1>3, PutStep
<1>4. CASE Acquire(r) \/ Open(r)
  BY <1>1, <1>4, AcquireStep, OpenStep, OrdinaryStep
<1>5. ASSUME NEW kind \in {"message", "reasoning"}, TextEvent(r, kind) PROVE IInv'
  BY <1>1, <1>5, TextEventStep, OrdinaryStep
<1>6. CASE UpstreamFails(r) \/ UpstreamDone(r)
  BY <1>1, <1>6, UpstreamStep, OrdinaryStep
<1>7. CASE ToolCall(r) \/ ToolsDone(r)
  BY <1>1, <1>7, ToolCallStep, ToolsDoneStep, OrdinaryStep
<1>8. CASE Close(r) \/ Terminal(r)
  BY <1>1, <1>8, CloseStep, TerminalStep, OrdinaryStep
<1>9. CASE Release(r) \/ Answer(r)
  BY <1>1, <1>9, ReleaseStep, AnswerStep, OrdinaryStep
<1> QED
  BY <1>2, <1>3, <1>4, <1>5, <1>6, <1>7, <1>8, <1>9 DEF RequestStep

(* What SessionCache, the handler of /v1/responses and its Emitter keep     *)
(* true together: where each request is, what its client has been sent,     *)
(* which names are taken, the conversation each session and each request    *)
(* goes on with, the order of the sessions, and which of them can be gone.  *)
THEOREM SessionInvariance == Spec => []IInv
<1>1. IInv /\ [Next]_vars => IInv'
  <2> SUFFICES ASSUME IInv, [Next]_vars PROVE IInv'
    OBVIOUS
  <2>1. CASE Restart
    BY <2>1, RestartStep
  <2>2. ASSUME NEW r \in Request, NEW prev \in Response \cup {None}, NEW image \in Image,
               Begin(r, prev, image)
        PROVE  IInv'
    BY <2>2, BeginStep
  <2>3. ASSUME NEW r \in Request, RequestStep(r) PROVE IInv'
    BY <2>3, RequestStepKeeps
  <2>4. CASE UNCHANGED vars
    BY <2>4, StutterIInv
  <2> QED  BY <2>1, <2>2, <2>3, <2>4 DEF Next
<1> QED
  BY <1>1, InitIInv, PTL DEF Spec

-----------------------------------------------------------------------------
(* Sessions in order have different names.                                  *)
LEMMA SpacedDiffer ==
  ASSUME NEW s \in Seq(SessionType), NEW names \in Seq(Response), Spaced(s, names)
  PROVE  IsSessions(s)
<1>1. ASSUME NEW m \in DOMAIN s, NEW n \in DOMAIN s, s[m].id = s[n].id, m <= n PROVE m = n
  <2>1. PICK k \in DOMAIN names : names[k] = s[m].id
    BY DEF Spaced
  <2>2. n - m <= k - k
    BY <1>1, <2>1 DEF Spaced
  <2>3. m \in Nat /\ n \in Nat /\ k \in Nat
    OBVIOUS
  <2> QED  BY ONLY <1>1, <2>2, <2>3
<1>2. \A m, n \in DOMAIN s : m <= n \/ n <= m
  OBVIOUS
<1>3. \A m, n \in DOMAIN s : s[m].id = s[n].id => m = n
  BY <1>1, <1>2
<1> QED
  BY <1>3 DEF IsSessions

(* As many are stored after it as it is far from the end.                   *)
LEMMA FarIsLater ==
  ASSUME stored \in Seq(Response), \A m, n \in DOMAIN stored : stored[m] = stored[n] => m = n,
         NEW id, NEW k \in Nat, Far(id, k, stored)
  PROVE  Cardinality(Later(id)) >= k
<1>1. DOMAIN stored = 1 .. Len(stored) /\ Len(stored) \in Nat
  OBVIOUS
<1>2. PICK m \in DOMAIN stored : stored[m] = id /\ k <= Len(stored) - m
  BY DEF Far
<1>3. m \in Nat /\ m >= 1 /\ m <= Len(stored)
  BY <1>1
<1>4. \A n \in DOMAIN stored : \A l \in 1 .. n - 1 : stored[l] = id => l = m
  BY <1>1, <1>2
<1>5. Later(id) = m + 1 .. Len(stored)
  <2>1. ASSUME NEW n \in Later(id) PROVE n \in m + 1 .. Len(stored)
    <3>1. n \in DOMAIN stored /\ \E l \in 1 .. n - 1 : stored[l] = id
      BY DEF Later
    <3>2. m \in 1 .. n - 1
      BY <1>4, <3>1
    <3> QED  BY <1>1, <1>3, <3>1, <3>2
  <2>2. ASSUME NEW n \in m + 1 .. Len(stored) PROVE n \in Later(id)
    <3>1. n \in DOMAIN stored /\ m \in 1 .. n - 1
      BY <1>1, <1>3
    <3> QED  BY <1>2, <3>1 DEF Later
  <2> QED  BY <2>1, <2>2
<1>6. Cardinality(Later(id)) = IF m + 1 > Len(stored) THEN 0 ELSE Len(stored) - (m + 1) + 1
  <2>1. m + 1 \in Int /\ Len(stored) \in Int
    BY <1>1, <1>3
  <2> QED  BY ONLY <1>5, <2>1, FS_Interval
<1> QED
  BY <1>1, <1>2, <1>3, <1>6

(* Every way out of the handler (handleResponses: refused before or after   *)
(* the account is acquired, the client gone at the first frame, the end)    *)
(* gives the account's slot back, once.                                     *)
THEOREM SlotGivenBack == Spec => []AccountGivenBack
<1>1. IInv => AccountGivenBack
  BY DEF IInv, RequestInv, StageInv, AccountGivenBack
<1> QED
  BY <1>1, SessionInvariance, PTL

(* What the client of a stream reads (Emitter, the sink and the end of      *)
(* handleResponses) is in the order it can follow: created first, an item   *)
(* only after the one before it, nothing for an item before it is added or  *)
(* after it is done, the end last and, unless the response failed, only     *)
(* with every item done - wherever the upstream fails or the client leaves. *)
THEOREM EventsFollow == Spec => []EventsInOrder
<1>1. IInv => EventsInOrder
  <2>1. IInv => \A r \in Request : InOrder(req[r].events)
    BY DEF IInv, RequestInv, EventInv
  <2> QED  BY <2>1 DEF EventsInOrder, InOrder
<1> QED
  BY <1>1, SessionInvariance, PTL

(* A session goes on with exactly the turns its client saw (SessionCache,   *)
(* its file, and the requests that continue them), none of them failed or   *)
(* cut, and no response is kept twice; images are missing only of turns     *)
(* this process has not answered.                                           *)
THEOREM SessionsAreConversations == Spec => []SessionIsConversation
<1>1. IInv => SessionIsConversation
  <2> SUFFICES ASSUME IInv PROVE SessionIsConversation
    OBVIOUS
  <2>1. IsSessions(cache) /\ IsSessions(file)
    BY SpacedDiffer DEF IInv, TypeOK, OrderInv
  <2>2. told \subseteq Whole /\ {} \subseteq Whole
    BY DEF Whole
  <2>3. ASSUME NEW s \in ToSet(cache)
        PROVE  /\ \A n \in DOMAIN s.messages : s.messages[n].of \in full
               /\ SameTurns(s.messages, talk[s.id], told)
    <3>1. PICK n \in DOMAIN cache : s = cache[n]
      BY DEF ToSet
    <3>2. Settled(s.messages) /\ SameTurns(s.messages, talk[s.id], Whole)
      BY <3>1 DEF IInv, TalkInv
    <3> QED  BY <2>2, <3>2, SameTurnsLess DEF Settled
  <2>4. ASSUME NEW s \in ToSet(file)
        PROVE  /\ \A n \in DOMAIN s.messages : s.messages[n].of \in full
               /\ SameTurns(s.messages, talk[s.id], {})
    <3>1. PICK n \in DOMAIN file : s = file[n]
      BY DEF ToSet
    <3>2. Settled(s.messages) /\ SameTurns(s.messages, talk[s.id], {})
      BY <3>1 DEF IInv, TalkInv
    <3> QED  BY <3>2 DEF Settled
  <2>5. \A r \in Request : req[r].prev # None => SameTurns(req[r].msgs, talk[req[r].prev], told)
    <3>1. \A r \in Request : req[r].prev # None => SameTurns(req[r].msgs, talk[req[r].prev], Whole)
      BY DEF IInv, TalkInv
    <3> QED  BY <2>2, <3>1, SameTurnsLess
  <2> QED  BY <2>1, <2>3, <2>4, <2>5 DEF SessionIsConversation
<1> QED
  BY <1>1, SessionInvariance, PTL

(* A response that a client was told is completed is in the cache: put came *)
(* before the event, and it is evicted only when as many as the cache holds *)
(* (sessionCacheSize) have been put after it.                               *)
THEOREM ToldIsKept == Spec => []CompletedIsKept
<1>1. IInv => CompletedIsKept
  <2> SUFFICES ASSUME IInv, NEW id \in told, id \notin Ids(cache)
               PROVE  Cardinality(Later(id)) >= cap
    BY DEF CompletedIsKept
  <2>1. ~Has(cache, id)
    BY DEF Has, Ids, ToSet
  <2>2. Far(id, cap, stored)
    BY <2>1 DEF IInv, KeepInv, Whole
  <2>3. cap \in Nat
    BY SessionAssumption DEF IInv, TypeOK
  <2> QED  BY <2>2, <2>3, FarIsLater DEF IInv, TypeOK, NameInv
<1> QED
  BY <1>1, SessionInvariance, PTL

(* A session that was written to responses_sessions.json is in it after any *)
(* number of restarts, with sessionCachePersist on or off and any sizes of  *)
(* the cache, until as many as the smallest of them have been put after it; *)
(* only a file that could once not be read loses it.                        *)
THEOREM WrittenComesBack == Spec => []SavedComesBack
<1>1. IInv => SavedComesBack
  <2> SUFFICES ASSUME IInv, NEW id \in written, id \notin Ids(file), ~unread
               PROVE  Cardinality(Later(id)) >= least
    BY DEF SavedComesBack, IInv, TypeOK
  <2>1. ~Has(file, id)
    BY DEF Has, Ids, ToSet
  <2>2. Far(id, least, stored)
    BY <2>1 DEF IInv, KeepInv
  <2> QED  BY <2>2, FarIsLater DEF IInv, TypeOK, NameInv
<1> QED
  BY <1>1, SessionInvariance, PTL

-----------------------------------------------------------------------------
(***************************************************************************)
(* What the items and the tools of a request become, for lists of any       *)
(* length: an induction over how many of them the code has read.            *)
(***************************************************************************)
(* Induction up to a bound, over a set of numbers.                          *)
LEMMA ReachesBound ==
  ASSUME NEW N \in Nat, NEW T, 0 \in T, \A m \in Nat : m < N /\ m \in T => m + 1 \in T
  PROVE  0 .. N \subseteq T
<1> DEFINE R == {ss \in Nat \X Nat : ss[1] < ss[2]}
<1> DEFINE Out == {m \in 0 .. N : m \notin T}
<1>1. IsWellFoundedOn(R, Nat)
  BY NatLessThanWellFounded DEF OpToRel
<1>2. SUFFICES ASSUME Out # {} PROVE FALSE
  OBVIOUS
<1>3. PICK x \in Out : \A y \in Out : <<y, x>> \notin R
  <2>1. Out \subseteq Nat
    OBVIOUS
  <2> QED  BY <1>1, <1>2, <2>1, WFMin
<1>4. ASSUME NEW y \in Out PROVE ~(y < x)
  <2>1. <<y, x>> \notin R /\ y \in Nat /\ x \in Nat
    BY <1>3
  <2> HIDE DEF Out
  <2>2. y < x => <<y, x>> \in R
    BY <2>1
  <2> QED  BY <2>1, <2>2
<1>5. x \in Nat \ {0} /\ x - 1 \in Nat /\ x - 1 < N /\ x - 1 < x /\ x - 1 \in 0 .. N
  OBVIOUS
<1>6. x - 1 \in T
  BY <1>4, <1>5
<1>7. (x - 1) + 1 \in T
  BY <1>5, <1>6
<1> QED
  BY <1>5, <1>7

Runs(f, x, g, N) == f[0] = x /\ \A d \in 1 .. N : f[d] = g[<<d, f[d - 1]>>]

(* A recursion over numbers defines a function: f[0] is x, and f[d] what g   *)
(* makes of d and f[d - 1].                                                 *)
LEMMA RecursionExists ==
  ASSUME NEW N \in Nat, NEW S, NEW x \in S, NEW g \in [(1 .. N) \X S -> S]
  PROVE  \E f \in [0 .. N -> S] : Runs(f, x, g, N)
<1> DEFINE T == {m \in 0 .. N : \E f \in [0 .. m -> S] : Runs(f, x, g, m)}
<1>1. 0 \in T
  <2> DEFINE f == [d \in 0 .. 0 |-> x]
  <2>1. f \in [0 .. 0 -> S] /\ Runs(f, x, g, 0) /\ 0 \in 0 .. N
    BY DEF Runs
  <2> HIDE DEF f
  <2> QED  BY <2>1
<1>2. ASSUME NEW m \in Nat, m < N, m \in T PROVE m + 1 \in T
  <2>1. PICK f \in [0 .. m -> S] : Runs(f, x, g, m)
    BY <1>2
  <2> DEFINE y == g[<<m + 1, f[m]>>]
  <2> DEFINE h == [d \in 0 .. m + 1 |-> IF d = m + 1 THEN y ELSE f[d]]
  <2>2. y \in S
    BY <1>2
  <2>3. h \in [0 .. m + 1 -> S]
    BY <2>2
  <2>4. h[m + 1] = g[<<m + 1, f[m]>>] /\ \A d \in 0 .. m : h[d] = f[d]
    BY <1>2
  <2> HIDE DEF h, y
  <2>5. ASSUME NEW d \in 1 .. m + 1 PROVE h[d] = g[<<d, h[d - 1]>>]
    <3>1. CASE d = m + 1
      <4>1. d - 1 = m /\ m \in 0 .. m
        BY <1>2, <3>1
      <4> QED  BY <2>4, <3>1, <4>1
    <3>2. CASE d # m + 1
      <4>1. d \in 1 .. m /\ d \in 0 .. m /\ d - 1 \in 0 .. m
        BY <1>2, <3>2
      <4> QED  BY <2>1, <2>4, <4>1 DEF Runs
    <3> QED  BY <3>1, <3>2
  <2>6. h[0] = x
    BY <1>2, <2>1, <2>4 DEF Runs
  <2>7. m + 1 \in 0 .. N
    BY <1>2
  <2>8. Runs(h, x, g, m + 1)
    BY <2>5, <2>6 DEF Runs
  <2> QED  BY <2>3, <2>7, <2>8
<1> HIDE DEF T
<1>3. 0 .. N \subseteq T
  BY <1>1, <1>2, ReachesBound
<1>4. N \in T
  BY <1>3
<1> QED
  BY <1>4 DEF T

(* And whatever function it defines has its values in S.                    *)
LEMMA RecursionStays ==
  ASSUME NEW N \in Nat, NEW S, NEW f, f[0] \in S,
         \A d \in 1 .. N : f[d - 1] \in S => f[d] \in S
  PROVE  \A d \in 0 .. N : f[d] \in S
<1> DEFINE T == {m \in 0 .. N : f[m] \in S}
<1>1. 0 \in T
  OBVIOUS
<1>2. ASSUME NEW m \in Nat, m < N, m \in T PROVE m + 1 \in T
  <2>1. m + 1 \in 1 .. N /\ m + 1 \in 0 .. N /\ (m + 1) - 1 = m
    BY <1>2
  <2>2. f[m] \in S
    BY <1>2
  <2> QED  BY <2>1, <2>2
<1> HIDE DEF T
<1>3. 0 .. N \subseteq T
  BY <1>1, <1>2, ReachesBound
<1> QED
  BY <1>3 DEF T

-----------------------------------------------------------------------------
Parsed == [ok : BOOLEAN, out : SUBSET Tools]

LEMMA DeclareIs ==
  ASSUME NEW st \in Parsed, NEW t \in Tools
  PROVE  /\ declareTool(st, t) \in Parsed
         /\ ~st.ok => ~declareTool(st, t).ok
         /\ declareTool(st, t).ok =>
              \/ t.type = "web_search" /\ declareTool(st, t).out = st.out
              \/ /\ t.type # "web_search" /\ declareTool(st, t).out = st.out \cup {t}
                 /\ upstreamToolName(t.name, t.nameSpace) \notin UpstreamNames(st.out)
<1>1. CASE ~st.ok \/ t.type = "web_search"
  BY <1>1 DEF declareTool, Parsed
<1>2. CASE st.ok /\ t.type # "web_search" /\ Refused(st.out, t)
  <2>1. declareTool(st, t) = [st EXCEPT !.ok = FALSE]
    BY <1>2 DEF declareTool
  <2> QED  BY <1>2, <2>1 DEF Parsed
<1>3. CASE st.ok /\ t.type # "web_search" /\ ~Refused(st.out, t)
  <2>1. declareTool(st, t) = [st EXCEPT !.out = st.out \cup {t}]
    BY <1>3 DEF declareTool
  <2>2. upstreamToolName(t.name, t.nameSpace) \notin UpstreamNames(st.out)
    BY <1>3 DEF Refused
  <2> QED  BY <1>3, <2>1, <2>2 DEF Parsed
<1> QED
  BY <1>1, <1>2, <1>3

LEMMA ParseRuns ==
  ASSUME NEW N \in Nat, NEW tools \in [1 .. N -> Tools]
  PROVE  \E f : /\ \A n \in 0 .. N : f[n] \in Parsed
                /\ f[0] = [ok |-> TRUE, out |-> {}]
                /\ \A n \in 1 .. N : f[n] = declareTool(f[n - 1], tools[n])
                /\ parseResponseTools(tools) = f[N]
<1> DEFINE x == [ok |-> TRUE, out |-> {}]
<1> DEFINE g == [p \in (1 .. N) \X Parsed |-> declareTool(p[2], tools[p[1]])]
<1> DEFINE Is(f) == f = [n \in 0 .. N |-> IF n = 0 THEN x ELSE declareTool(f[n - 1], tools[n])]
<1>1. x \in Parsed
  BY DEF Parsed
<1>2. g \in [(1 .. N) \X Parsed -> Parsed]
  BY DeclareIs
<1>3. \E f : Is(f)
  <2> HIDE DEF x
  <2>1. \A d \in 1 .. N, st \in Parsed : g[<<d, st>>] = declareTool(st, tools[d])
    OBVIOUS
  <2> HIDE DEF g
  <2>2. PICK f \in [0 .. N -> Parsed] : Runs(f, x, g, N)
    BY <1>1, <1>2, RecursionExists
  <2>3. ASSUME NEW n \in 0 .. N
        PROVE  f[n] = IF n = 0 THEN x ELSE declareTool(f[n - 1], tools[n])
    <3>1. CASE n = 0
      BY <2>2, <3>1 DEF Runs
    <3>2. CASE n # 0
      <4>1. n \in 1 .. N /\ n - 1 \in 0 .. N
        BY <3>2
      <4> QED  BY <2>1, <2>2, <3>2, <4>1 DEF Runs
    <3> QED  BY <3>1, <3>2
  <2> QED  BY <2>3
<1> DEFINE f == CHOOSE h : Is(h)
<1>4. Is(f)
  BY <1>3
<1>5. Len(tools) = N
  OBVIOUS
<1>6. parseResponseTools(tools) = f[N]
  BY <1>5 DEF parseResponseTools
<1> HIDE DEF f
<1>7. f[0] = x /\ \A n \in 1 .. N : f[n] = declareTool(f[n - 1], tools[n])
  <2> HIDE DEF x, g
  <2>1. \A n \in 0 .. N : f[n] = IF n = 0 THEN x ELSE declareTool(f[n - 1], tools[n])
    BY <1>4
  <2>2. 0 \in 0 .. N /\ \A n \in 1 .. N : n \in 0 .. N /\ n # 0
    OBVIOUS
  <2> HIDE DEF Is
  <2> QED  BY <2>1, <2>2
<1>8. \A n \in 0 .. N : f[n] \in Parsed
  <2>1. \A d \in 1 .. N : f[d - 1] \in Parsed => f[d] \in Parsed
    BY <1>7, DeclareIs
  <2> HIDE DEF Is, x, g
  <2> QED  BY <1>1, <1>7, <2>1, RecursionStays
<1> QED
  BY <1>6, <1>7, <1>8

(* Tools that are declared have names of their own upstream.                *)
LEMMA ToolsApart ==
  ASSUME NEW N \in Nat, NEW tools \in [1 .. N -> Tools], parseResponseTools(tools).ok
  PROVE  LET known == {t \in ToSet(tools) : t.type # "web_search"} IN
         /\ parseResponseTools(tools).out = known
         /\ \A t, u \in known :
              upstreamToolName(t.name, t.nameSpace) = upstreamToolName(u.name, u.nameSpace)
                => t = u
<1>1. PICK f : /\ \A n \in 0 .. N : f[n] \in Parsed
               /\ f[0] = [ok |-> TRUE, out |-> {}]
               /\ \A n \in 1 .. N : f[n] = declareTool(f[n - 1], tools[n])
               /\ parseResponseTools(tools) = f[N]
  BY ParseRuns
<1> DEFINE Name(t) == upstreamToolName(t.name, t.nameSpace)
<1> DEFINE Known(n) == {t \in {tools[k] : k \in 1 .. n} : t.type # "web_search"}
<1> DEFINE Good(n) == f[n].ok => /\ f[n].out = Known(n)
                                 /\ \A t, u \in Known(n) : Name(t) = Name(u) => t = u
<1> DEFINE T == {n \in 0 .. N : Good(n)}
<1>2. 0 \in T
  <2>1. Known(0) = {}
    OBVIOUS
  <2>2. f[0].out = {} /\ 0 \in 0 .. N
    BY <1>1
  <2> HIDE DEF Known, Name
  <2>3. Good(0)
    BY <2>1, <2>2
  <2> HIDE DEF Good
  <2> QED  BY <2>2, <2>3
<1>3. ASSUME NEW m \in Nat, m < N, m \in T PROVE m + 1 \in T
  <2> DEFINE n == m + 1
  <2>1. n \in 1 .. N /\ n \in 0 .. N /\ n - 1 = m /\ m \in 0 .. N
    BY <1>3
  <2> DEFINE t == tools[n]
  <2>2. t \in Tools /\ f[m] \in Parsed /\ f[n] = declareTool(f[m], t)
    BY <1>1, <2>1
  <2>3. Known(n) = IF t.type = "web_search" THEN Known(m) ELSE Known(m) \cup {t}
    <3>1. {tools[k] : k \in 1 .. n} = {tools[k] : k \in 1 .. m} \cup {t}
      <4>1. \A k : k \in 1 .. n <=> k \in 1 .. m \/ k = n
        BY <1>3
      <4> QED  BY <4>1
    <3> QED  BY <3>1
  <2>4. Good(m)
    BY <1>3
  <2> HIDE DEF n, t, Known, Name
  <2>5. ASSUME f[n].ok
        PROVE  f[n].out = Known(n) /\ \A u, v \in Known(n) : Name(u) = Name(v) => u = v
    <3>1. f[m].ok
      BY <2>2, <2>5, DeclareIs
    <3>2. f[m].out = Known(m) /\ \A u, v \in Known(m) : Name(u) = Name(v) => u = v
      BY <2>4, <3>1
    <3>3. \/ t.type = "web_search" /\ f[n].out = f[m].out
          \/ /\ t.type # "web_search" /\ f[n].out = f[m].out \cup {t}
             /\ Name(t) \notin UpstreamNames(f[m].out)
      BY <2>2, <2>5, DeclareIs DEF Name
    <3>4. CASE t.type = "web_search"
      BY <2>3, <3>2, <3>3, <3>4
    <3>5. CASE t.type # "web_search"
      <4>1. f[n].out = Known(n) /\ Known(n) = Known(m) \cup {t}
        BY <2>3, <3>2, <3>3, <3>5
      <4>2. \A u \in Known(m) : Name(u) # Name(t)
        BY <3>2, <3>3, <3>5 DEF UpstreamNames, Name
      <4> QED  BY <3>2, <4>1, <4>2
    <3> QED  BY <3>4, <3>5
  <2> HIDE DEF Good
  <2>6. Good(n)
    BY <2>5 DEF Good
  <2> QED  BY <2>1, <2>6 DEF n
<1> HIDE DEF T
<1>4. 0 .. N \subseteq T
  BY <1>2, <1>3, ReachesBound
<1>5. Good(N)
  <2>1. N \in T
    BY <1>4
  <2> QED  BY <2>1 DEF T
<1>6. Known(N) = {t \in ToSet(tools) : t.type # "web_search"}
  <2>1. DOMAIN tools = 1 .. N
    OBVIOUS
  <2> QED  BY <2>1 DEF ToSet
<1> HIDE DEF Known
<1> QED
  BY <1>1, <1>5, <1>6

-----------------------------------------------------------------------------
(* What Positions is, item by item.                                         *)
LEMMA PositionsIs ==
  ASSUME NEW S
  PROVE  /\ Positions(0, S) = <<>>
         /\ \A n \in 1 .. MaxItems :
              Positions(n, S) = IF n \in S THEN Append(Positions(n - 1, S), n)
                                ELSE Positions(n - 1, S)
         /\ \A n \in 0 .. MaxItems : Positions(n, S) \in Seq(Nat)
<1> DEFINE V == Seq(Nat)
<1> DEFINE x == <<>>
<1> DEFINE g == [p \in (1 .. MaxItems) \X V |-> IF p[1] \in S THEN Append(p[2], p[1]) ELSE p[2]]
<1> DEFINE Is(f) == f = [m \in 0 .. MaxItems |->
                          IF m = 0 THEN <<>> ELSE IF m \in S THEN Append(f[m - 1], m) ELSE f[m - 1]]
<1>0. MaxItems \in Nat
  BY InputAssumption
<1>1. x \in V
  OBVIOUS
<1>2. g \in [(1 .. MaxItems) \X V -> V]
  <2>1. \A d \in 1 .. MaxItems, q \in V : Append(q, d) \in V
    BY <1>0
  <2> HIDE DEF V
  <2> QED  BY <2>1
<1>3. \E f : Is(f)
  <2>1. \A d \in 1 .. MaxItems, q \in V : g[<<d, q>>] = IF d \in S THEN Append(q, d) ELSE q
    OBVIOUS
  <2> HIDE DEF g, V
  <2>2. PICK f \in [0 .. MaxItems -> V] : Runs(f, x, g, MaxItems)
    <3> HIDE DEF x, Is
    <3> QED  BY <1>0, <1>1, <1>2, RecursionExists
  <2>3. ASSUME NEW n \in 0 .. MaxItems
        PROVE  f[n] = IF n = 0 THEN <<>> ELSE IF n \in S THEN Append(f[n - 1], n) ELSE f[n - 1]
    <3>1. CASE n = 0
      BY <2>2, <3>1 DEF Runs
    <3>2. CASE n # 0
      <4>1. n \in 1 .. MaxItems /\ n - 1 \in 0 .. MaxItems
        BY <1>0, <3>2
      <4>2. f[n - 1] \in V /\ f[n] = g[<<n, f[n - 1]>>]
        BY <2>2, <4>1 DEF Runs
      <4> QED  BY <2>1, <3>2, <4>1, <4>2
    <3> QED  BY <3>1, <3>2
  <2> QED  BY <2>3
<1> DEFINE f == CHOOSE h : Is(h)
<1>4. Is(f)
  BY <1>3
<1>5. \A n : Positions(n, S) = f[n]
  BY DEF Positions
<1> HIDE DEF f
<1>6. /\ f[0] = <<>>
      /\ \A n \in 1 .. MaxItems : f[n] = IF n \in S THEN Append(f[n - 1], n) ELSE f[n - 1]
  <2>1. \A n \in 0 .. MaxItems :
          f[n] = IF n = 0 THEN <<>> ELSE IF n \in S THEN Append(f[n - 1], n) ELSE f[n - 1]
    BY <1>4
  <2>2. 0 \in 0 .. MaxItems /\ \A n \in 1 .. MaxItems : n \in 0 .. MaxItems /\ n # 0
    BY <1>0
  <2> HIDE DEF Is
  <2> QED  BY <2>1, <2>2
<1>7. \A n \in 0 .. MaxItems : f[n] \in V
  <2>1. \A d \in 1 .. MaxItems, q \in V : Append(q, d) \in V
    BY <1>0
  <2> HIDE DEF V, Is
  <2>2. \A d \in 1 .. MaxItems : f[d - 1] \in V => f[d] \in V
    BY <1>6, <2>1
  <2> QED  BY <1>0, <1>1, <1>6, <2>2, RecursionStays
<1> HIDE DEF Is
<1> QED
  BY <1>5, <1>6, <1>7

LEMMA PositionsSame ==
  ASSUME NEW n \in 0 .. MaxItems, NEW S, NEW U, \A i \in 1 .. n : i \in S <=> i \in U
  PROVE  Positions(n, S) = Positions(n, U)
<1> DEFINE T == {m \in 0 .. n : Positions(m, S) = Positions(m, U)}
<1>0. MaxItems \in Nat /\ n \in Nat
  BY InputAssumption
<1>1. 0 \in T
  BY <1>0, PositionsIs
<1>2. ASSUME NEW m \in Nat, m < n, m \in T PROVE m + 1 \in T
  <2> DEFINE d == m + 1
  <2>1. d \in 1 .. n /\ d \in 0 .. n /\ d \in 1 .. MaxItems /\ d - 1 = m
    BY <1>0, <1>2
  <2>2. Positions(m, S) = Positions(m, U)
    BY <1>2
  <2> HIDE DEF T, d
  <2>3. Positions(d, S) = IF d \in S THEN Append(Positions(m, S), d) ELSE Positions(m, S)
    BY <2>1, PositionsIs
  <2>4. Positions(d, U) = IF d \in U THEN Append(Positions(m, U), d) ELSE Positions(m, U)
    BY <2>1, PositionsIs
  <2>5. Positions(d, S) = Positions(d, U)
    BY <2>1, <2>2, <2>3, <2>4
  <2> QED  BY <2>1, <2>5 DEF T, d
<1> HIDE DEF T
<1>3. 0 .. n \subseteq T
  BY <1>0, <1>1, <1>2, ReachesBound
<1>4. n \in T
  BY <1>0, <1>3
<1> QED
  BY <1>4 DEF T

LEMMA PositionsNone ==
  ASSUME NEW n \in 0 .. MaxItems, NEW S, \A i \in 1 .. n : i \notin S
  PROVE  Positions(n, S) = <<>>
<1> DEFINE T == {m \in 0 .. n : Positions(m, S) = <<>>}
<1>0. MaxItems \in Nat /\ n \in Nat
  BY InputAssumption
<1>1. 0 \in T
  BY <1>0, PositionsIs
<1>2. ASSUME NEW m \in Nat, m < n, m \in T PROVE m + 1 \in T
  <2>1. m + 1 \in 1 .. n /\ m + 1 \in 0 .. n /\ m + 1 \in 1 .. MaxItems /\ (m + 1) - 1 = m
    BY <1>0, <1>2
  <2>2. Positions(m, S) = <<>>
    BY <1>2
  <2> DEFINE d == m + 1
  <2> HIDE DEF d
  <2>3. d \in 1 .. MaxItems /\ d - 1 = m /\ d \notin S
    BY <2>1 DEF d
  <2>4. Positions(d, S) = Positions(d - 1, S)
    BY ONLY <2>3, PositionsIs
  <2>5. Positions(m + 1, S) = <<>>
    BY <2>2, <2>3, <2>4 DEF d
  <2> QED  BY <2>1, <2>5
<1> HIDE DEF T
<1>3. 0 .. n \subseteq T
  BY <1>0, <1>1, <1>2, ReachesBound
<1>4. n \in T
  BY <1>0, <1>3
<1> QED
  BY <1>4 DEF T

(* They are members of S up to n, and each is there once.                   *)
Ascending(n, S, list) ==
  /\ \A k \in 1 .. Len(list) : list[k] \in S /\ list[k] \in 1 .. n
  /\ \A k, l \in 1 .. Len(list) : k < l => list[k] < list[l]

LEMMA PositionsAscend ==
  ASSUME NEW n \in 0 .. MaxItems, NEW S
  PROVE  Ascending(n, S, Positions(n, S))
<1> DEFINE T == {m \in 0 .. n : Ascending(m, S, Positions(m, S))}
<1>0. MaxItems \in Nat /\ n \in Nat
  BY InputAssumption
<1>1. 0 \in T
  <2>1. Positions(0, S) = <<>>
    BY PositionsIs
  <2> QED  BY <1>0, <2>1 DEF Ascending
<1>2. ASSUME NEW m \in Nat, m < n, m \in T PROVE m + 1 \in T
  <2>1. /\ m + 1 \in 1 .. n /\ m + 1 \in 0 .. n /\ m + 1 \in 1 .. MaxItems /\ (m + 1) - 1 = m
        /\ m \in 0 .. MaxItems
    BY <1>0, <1>2
  <2> DEFINE p == Positions(m, S)
  <2>2. p \in Seq(Nat) /\ Ascending(m, S, p)
    BY <1>2, <2>1, PositionsIs
  <2>3. Positions(m + 1, S) = IF m + 1 \in S THEN Append(p, m + 1) ELSE p
    <3> DEFINE d == m + 1
    <3> HIDE DEF d
    <3>1. d \in 1 .. MaxItems /\ d - 1 = m
      BY <2>1 DEF d
    <3>2. Positions(d, S) = IF d \in S THEN Append(Positions(d - 1, S), d) ELSE Positions(d - 1, S)
      BY ONLY <3>1, PositionsIs
    <3> QED  BY <3>1, <3>2 DEF d
  <2> HIDE DEF p
  <2>4. Ascending(m + 1, S, p)
    BY <1>2, <2>2 DEF Ascending
  <2>5. ASSUME m + 1 \in S PROVE Ascending(m + 1, S, Append(p, m + 1))
    <3> DEFINE q == Append(p, m + 1)
    <3>1. /\ Len(p) \in Nat /\ Len(q) = Len(p) + 1 /\ q[Len(p) + 1] = m + 1
          /\ \A k \in 1 .. Len(p) : q[k] = p[k]
      BY <2>2
    <3> HIDE DEF q
    <3>2. \A k \in 1 .. Len(q) : k \in 1 .. Len(p) \/ k = Len(p) + 1
      BY <3>1
    <3>3. \A k \in 1 .. Len(q) : q[k] \in S /\ q[k] \in 1 .. m + 1
      BY <2>4, <2>5, <3>1, <3>2 DEF Ascending
    <3>4. ASSUME NEW k \in 1 .. Len(q), NEW l \in 1 .. Len(q), k < l PROVE q[k] < q[l]
      <4>1. k \in 1 .. Len(p) /\ q[k] = p[k] /\ p[k] \in 1 .. m
        BY <2>2, <3>1, <3>4 DEF Ascending
      <4>2. CASE l \in 1 .. Len(p)
        BY <2>2, <3>1, <3>4, <4>1, <4>2 DEF Ascending
      <4>3. CASE l = Len(p) + 1
        BY <1>2, <3>1, <4>1, <4>3
      <4> QED  BY <3>2, <4>2, <4>3
    <3> QED  BY <3>3, <3>4 DEF Ascending, q
  <2>6. Ascending(m + 1, S, Positions(m + 1, S))
    BY <2>3, <2>4, <2>5
  <2> QED  BY <2>1, <2>6
<1> HIDE DEF T
<1>3. 0 .. n \subseteq T
  BY <1>0, <1>1, <1>2, ReachesBound
<1>4. n \in T
  BY <1>0, <1>3
<1> QED
  BY <1>4 DEF T

-----------------------------------------------------------------------------
TellItem == UserItem \cup {"output", "other"}

LEMMA Kinds ==
  ASSUME NEW kind \in ItemKind
  PROVE  /\ kind \in AssistantItem \/ kind \in CallItem \/ kind \in ReasoningItem
              \/ kind \in TellItem \/ kind = "emptyUser"
         /\ kind \in AssistantItem =>
              kind \notin CallItem \cup ReasoningItem \cup TellItem /\ kind # "call"
         /\ kind \in CallItem =>
              kind \notin AssistantItem \cup ReasoningItem \cup TellItem /\ kind # "imageAssistant"
         /\ kind \in ReasoningItem =>
              kind \notin AssistantItem \cup CallItem \cup TellItem /\ kind # "call"
         /\ kind \in TellItem =>
              /\ kind \notin AssistantItem \cup CallItem \cup ReasoningItem
              /\ kind # "call" /\ kind # "emptyUser"
         /\ kind = "emptyUser" =>
              kind \notin AssistantItem \cup CallItem \cup ReasoningItem \cup TellItem /\ kind # "call"
         /\ kind = "call" => kind \in CallItem
         /\ kind = "reasoning" => kind \in ReasoningItem
BY DEF ItemKind, UserItem, NoText, AssistantItem, CallItem, ReasoningItem, TellItem

TurnIs(items, j, i) ==
  j \in 1 .. i /\ Opens(items, j) /\ \A k \in j + 1 .. i : ~Opens(items, k)

LEMMA TurnIsThis ==
  ASSUME NEW items, NEW i \in Nat, NEW j, TurnIs(items, j, i)
  PROVE  Turn(items, i) = j
<1>1. j \in 1 .. i /\ Opens(items, j) /\ \A k \in j + 1 .. i : ~Opens(items, k)
  BY DEF TurnIs
<1>2. ASSUME NEW l \in 1 .. i, Opens(items, l), \A k \in l + 1 .. i : ~Opens(items, k)
      PROVE  l = j
  <2>1. ~(l < j)
    BY <1>1, <1>2
  <2>2. ~(j < l)
    BY <1>1, <1>2
  <2> QED  BY <1>1, <2>1, <2>2
<1> HIDE DEF Opens
<1> QED
  BY <1>1, <1>2 DEF Turn

(* Every call has a turn.                                                   *)
LEMMA TurnExists ==
  ASSUME NEW N \in 0 .. MaxItems, NEW items \in [1 .. N -> ItemKind],
         NEW i \in 1 .. N, Assistants(items[i])
  PROVE  TurnIs(items, Turn(items, i), i)
<1>0. N \in Nat
  BY InputAssumption
<1> DEFINE HasTurn(m) == m > 0 /\ Assistants(items[m]) => \E j : TurnIs(items, j, m)
<1> DEFINE T == {m \in 0 .. N : HasTurn(m)}
<1>1. 0 \in T
  BY <1>0
<1>2. ASSUME NEW m \in Nat, m < N, m \in T PROVE m + 1 \in T
  <2>1. m + 1 \in 1 .. N /\ m + 1 \in 0 .. N /\ (m + 1) - 1 = m
    BY <1>0, <1>2
  <2>2. ASSUME Assistants(items[m + 1]) PROVE \E j : TurnIs(items, j, m + 1)
    <3>1. CASE Opens(items, m + 1)
      <4>1. TurnIs(items, m + 1, m + 1)
        BY <1>2, <3>1 DEF TurnIs
      <4> QED  BY <4>1
    <3>2. CASE ~Opens(items, m + 1)
      <4>1. m + 1 # 1 /\ Assistants(items[m])
        BY <2>1, <2>2, <3>2 DEF Opens, Assistants
      <4>2. PICK j : TurnIs(items, j, m)
        BY <1>2, <4>1
      <4>3. TurnIs(items, j, m + 1)
        <5>1. j \in 1 .. m + 1
          BY <1>2, <4>2 DEF TurnIs
        <5>2. \A k \in j + 1 .. m + 1 : k \in j + 1 .. m \/ k = m + 1
          BY <1>2, <4>2 DEF TurnIs
        <5> QED  BY <3>2, <4>2, <5>1, <5>2 DEF TurnIs
      <4> QED  BY <4>3
    <3> QED  BY <3>1, <3>2
  <2> QED  BY <2>1, <2>2
<1> HIDE DEF T
<1>3. 0 .. N \subseteq T
  BY <1>0, <1>1, <1>2, ReachesBound
<1>4. i \in T /\ i > 0
  BY <1>0, <1>3
<1>5. PICK j : TurnIs(items, j, i)
  BY <1>4 DEF T
<1>6. i \in Nat
  BY <1>0
<1> QED
  BY <1>5, <1>6, TurnIsThis

LEMMA ReasoningIs ==
  ASSUME NEW N \in 0 .. MaxItems, NEW items \in [1 .. N -> ItemKind],
         NEW n \in Nat, n < N
  PROVE  /\ Reasoning(items, 0) = <<>>
         /\ items[n + 1] \notin ReasoningItem => Reasoning(items, n + 1) = <<>>
         /\ items[n + 1] = "reasoning" =>
              Reasoning(items, n + 1) = Append(Reasoning(items, n), n + 1)
         /\ items[n + 1] \in ReasoningItem /\ items[n + 1] # "reasoning" =>
              Reasoning(items, n + 1) = Reasoning(items, n)
<1> DEFINE S(m) == {i \in 1 .. m : items[i] = "reasoning" /\ \A k \in i .. m : items[k] \in ReasoningItem}
<1> DEFINE m == n + 1
<1>0. /\ MaxItems \in Nat /\ m \in 1 .. MaxItems /\ n \in 0 .. MaxItems /\ m \in 0 .. MaxItems
      /\ m - 1 = n
  BY InputAssumption
<1>1. \A l : Reasoning(items, l) = Positions(l, S(l))
  BY DEF Reasoning
<1>2. Reasoning(items, 0) = <<>>
  BY <1>1, PositionsIs
<1>3. ASSUME items[m] \notin ReasoningItem PROVE Reasoning(items, m) = <<>>
  <2>1. \A i \in 1 .. m : i \notin S(m)
    BY <1>3
  <2> HIDE DEF m, S
  <2> QED  BY <1>0, <1>1, <2>1, PositionsNone
<1>4. ASSUME items[m] \in ReasoningItem
      PROVE  Reasoning(items, m) = IF items[m] = "reasoning" THEN Append(Reasoning(items, n), m)
                                   ELSE Reasoning(items, n)
  <2>1. m \in S(m) <=> items[m] = "reasoning"
    BY <1>4
  <2>2. ASSUME NEW i \in 1 .. n PROVE i \in S(m) <=> i \in S(n)
    <3>1. \A k : k \in i .. m <=> k \in i .. n \/ k = m
      OBVIOUS
    <3>2. i \in 1 .. m
      OBVIOUS
    <3> QED  BY <1>4, <3>1, <3>2
  <2> HIDE DEF m, S
  <2>3. Positions(n, S(m)) = Positions(n, S(n))
    BY <1>0, <2>2, PositionsSame
  <2>4. Positions(m, S(m)) = IF m \in S(m) THEN Append(Positions(n, S(m)), m) ELSE Positions(n, S(m))
    BY <1>0, PositionsIs
  <2> QED  BY <1>1, <2>1, <2>3, <2>4
<1>5. items[m] = "reasoning" => items[m] \in ReasoningItem
  BY DEF ReasoningItem
<1> HIDE DEF S
<1> QED
  BY <1>2, <1>3, <1>4, <1>5

-----------------------------------------------------------------------------
Role == {"user", "tool", "assistant"}
Msg == [role : Role, of : Nat, think : Seq(Nat), calls : Seq(Nat)]
Conversion == [out : Seq(Msg), pending : Seq(Nat), adjacent : BOOLEAN]

LEMMA MessageIs ==
  ASSUME NEW role \in Role, NEW i \in Nat, NEW think \in Seq(Nat), NEW calls \in Seq(Nat)
  PROVE  /\ Message(role, i, think, calls) \in Msg
         /\ Message(role, i, think, calls).role = role
         /\ Message(role, i, think, calls).calls = calls
BY DEF Message, Msg

LEMMA StateIs ==
  ASSUME NEW out \in Seq(Msg), NEW pending \in Seq(Nat), NEW adjacent \in BOOLEAN
  PROVE  /\ InputState(out, pending, adjacent) \in Conversion
         /\ InputState(out, pending, adjacent).out = out
         /\ InputState(out, pending, adjacent).pending = pending
         /\ InputState(out, pending, adjacent).adjacent = adjacent
BY DEF InputState, Conversion

(* What an item does, by its kind.                                          *)
Told(st, i, kind, new) ==
  /\ new \in Conversion /\ new.pending = <<>> /\ new.adjacent = FALSE
  /\ new.out = IF kind = "emptyUser" THEN st.out
               ELSE Append(st.out, Message(IF kind = "output" THEN "tool" ELSE "user", i, <<>>, <<>>))

LEMMA PushTold ==
  ASSUME NEW st \in Conversion, NEW i \in Nat, NEW replay \in BOOLEAN,
         NEW kind \in TellItem \cup {"emptyUser"}
  PROVE  Told(st, i, kind, pushItem(st, i, kind, replay))
<1> DEFINE role == IF kind = "output" THEN "tool" ELSE "user"
<1> DEFINE out == IF kind = "emptyUser" THEN st.out ELSE Append(st.out, Message(role, i, <<>>, <<>>))
<1>1. kind \in ItemKind
  BY DEF ItemKind, TellItem, NoText
<1>2. pushItem(st, i, kind, replay) = PushUser(st, i, kind)
  BY <1>1, Kinds DEF pushItem
<1>3. role \in Role /\ <<>> \in Seq(Nat) /\ st.out \in Seq(Msg)
  BY DEF Role, Conversion
<1>4. out \in Seq(Msg)
  <2> HIDE DEF role
  <2>1. Message(role, i, <<>>, <<>>) \in Msg
    BY <1>3, MessageIs
  <2> QED  BY <1>3, <2>1
<1>5. PushUser(st, i, kind) = InputState(out, <<>>, FALSE)
  <2>1. PushMessage(st, i, role).out = Append(st.out, Message(role, i, <<>>, <<>>))
    BY DEF PushMessage, Conversion
  <2> QED  BY <2>1 DEF PushUser
<1> HIDE DEF out
<1>6. /\ InputState(out, <<>>, FALSE) \in Conversion
      /\ InputState(out, <<>>, FALSE).out = out
      /\ InputState(out, <<>>, FALSE).pending = <<>>
      /\ InputState(out, <<>>, FALSE).adjacent = FALSE
  BY <1>3, <1>4, StateIs
<1> QED
  BY <1>2, <1>5, <1>6 DEF Told, out

Said(st, i, kind, new) ==
  /\ new \in Conversion /\ new.pending = <<>> /\ new.adjacent = TRUE
  /\ new.out = Append(st.out, Message("assistant", i,
                 IF kind = "imageAssistant" THEN <<>> ELSE st.pending, <<>>))

LEMMA PushSaid ==
  ASSUME NEW st \in Conversion, NEW i \in Nat, NEW replay \in BOOLEAN, NEW kind \in AssistantItem
  PROVE  Said(st, i, kind, pushItem(st, i, kind, replay))
<1> DEFINE think == IF kind = "imageAssistant" THEN <<>> ELSE st.pending
<1> DEFINE out == Append(st.out, Message("assistant", i, think, <<>>))
<1>1. pushItem(st, i, kind, replay) = PushAssistant(st, i, kind)
  <2>1. kind \in ItemKind
    BY DEF ItemKind
  <2> QED  BY <2>1, Kinds DEF pushItem
<1>2. think \in Seq(Nat) /\ <<>> \in Seq(Nat) /\ st.out \in Seq(Msg) /\ "assistant" \in Role
  BY DEF Role, Conversion
<1>3. PushAssistant(st, i, kind) = InputState(out, <<>>, TRUE)
  BY DEF PushAssistant
<1> HIDE DEF think
<1>4. out \in Seq(Msg)
  <2>1. Message("assistant", i, think, <<>>) \in Msg
    BY <1>2, MessageIs
  <2> QED  BY <1>2, <2>1
<1> HIDE DEF out
<1>5. pushItem(st, i, kind, replay) = InputState(out, <<>>, TRUE)
  BY <1>1, <1>3
<1>6. /\ InputState(out, <<>>, TRUE) \in Conversion
      /\ InputState(out, <<>>, TRUE).out = out
      /\ InputState(out, <<>>, TRUE).pending = <<>>
      /\ InputState(out, <<>>, TRUE).adjacent = TRUE
  BY <1>2, <1>4, StateIs
<1> QED
  BY <1>5, <1>6 DEF Said, out, think

(* Calls(m) of the code: the message a call is added to is the last.        *)
WithCall(msg, kind, i) == IF kind = "call" THEN [msg EXCEPT !.calls = Append(@, i)] ELSE msg

LEMMA WithCallIs ==
  ASSUME NEW msg \in Msg, NEW i \in Nat, NEW kind
  PROVE  /\ WithCall(msg, kind, i) \in Msg
         /\ WithCall(msg, kind, i).role = msg.role
<1>1. Append(msg.calls, i) \in Seq(Nat)
  BY DEF Msg
<1> DEFINE calls == Append(msg.calls, i)
<1>2. WithCall(msg, kind, i) = IF kind = "call" THEN [msg EXCEPT !.calls = calls] ELSE msg
  BY DEF WithCall
<1> HIDE DEF calls
<1>3. calls \in Seq(Nat)
  BY <1>1 DEF calls
<1> QED
  BY <1>2, <1>3 DEF Msg

Joined(out, kind, i, new) ==
  /\ Len(out) \in Nat \ {0} /\ new \in Seq(Msg) /\ Len(new) = Len(out)
  /\ \A k \in 1 .. Len(out) :
       new[k] = IF k = Len(out) THEN WithCall(out[k], kind, i) ELSE out[k]

CallBase(st, i) ==
  IF OpensTurn(st) THEN Append(st.out, Message("assistant", i, st.pending, <<>>)) ELSE st.out

Called(st, i, kind, new) ==
  /\ new \in Conversion /\ new.pending = <<>> /\ new.adjacent = TRUE
  /\ Joined(CallBase(st, i), kind, i, new.out)

LEMMA PushCallIs ==
  ASSUME NEW st \in Conversion, NEW i \in Nat, NEW replay \in BOOLEAN, NEW kind \in CallItem
  PROVE  Called(st, i, kind, pushItem(st, i, kind, replay))
<1> DEFINE fresh == Append(st.out, Message("assistant", i, st.pending, <<>>))
<1> DEFINE base == IF OpensTurn(st) THEN fresh ELSE st.out
<1> DEFINE n == Len(base)
<1> DEFINE out == IF kind = "call" THEN [base EXCEPT ![n].calls = Append(@, i)] ELSE base
<1>1. pushItem(st, i, kind, replay) = PushCall(st, i, kind)
  <2>1. kind \in ItemKind
    BY DEF ItemKind
  <2> QED  BY <2>1, Kinds DEF pushItem
<1>2. st.out \in Seq(Msg) /\ st.pending \in Seq(Nat) /\ <<>> \in Seq(Nat) /\ "assistant" \in Role
  BY DEF Role, Conversion
<1>3. PushCall(st, i, kind) = InputState(out, <<>>, TRUE)
  BY DEF PushCall
<1>4. base \in Seq(Msg) /\ n \in Nat \ {0}
  <2>1. Message("assistant", i, st.pending, <<>>) \in Msg
    BY <1>2, MessageIs
  <2>2. fresh \in Seq(Msg) /\ Len(fresh) = Len(st.out) + 1 /\ Len(st.out) \in Nat
    <3> DEFINE x == Message("assistant", i, st.pending, <<>>)
    <3> HIDE DEF x
    <3>1. x \in Msg
      BY <2>1 DEF x
    <3> QED  BY <1>2, <3>1 DEF x
  <2>3. ~OpensTurn(st) => Len(st.out) # 0
    BY DEF OpensTurn
  <2> HIDE DEF fresh
  <2> QED  BY <1>2, <2>2, <2>3
<1> HIDE DEF base
<1>5. /\ out \in Seq(Msg) /\ Len(out) = n
      /\ \A k \in 1 .. n : out[k] = IF k = n THEN WithCall(base[k], kind, i) ELSE base[k]
  <2>1. n \in 1 .. n /\ DOMAIN base = 1 .. n /\ base[n] \in Msg
    BY <1>4
  <2>2. CASE kind # "call"
    BY <1>4, <2>2 DEF WithCall
  <2>3. CASE kind = "call"
    <3> DEFINE y == WithCall(base[n], kind, i)
    <3>1. y \in Msg
      BY <2>1, WithCallIs
    <3>2. y = [base[n] EXCEPT !.calls = Append(base[n].calls, i)]
      BY <2>3 DEF WithCall
    <3>3. out = [base EXCEPT ![n] = y]
      BY <2>1, <2>3, <3>2
    <3> HIDE DEF y, out
    <3>4. out \in Seq(Msg) /\ Len(out) = n /\ out[n] = y /\ \A k \in 1 .. n : k # n => out[k] = base[k]
      <4>1. base \in [1 .. n -> Msg]
        BY <1>4
      <4>2. out \in [1 .. n -> Msg] /\ out[n] = y /\ \A k \in 1 .. n : k # n => out[k] = base[k]
        <5> HIDE DEF n
        <5> QED  BY <2>1, <3>1, <3>3, <4>1
      <4> HIDE DEF n
      <4>3. n \in Nat
        BY <1>4 DEF n
      <4>4. out \in Seq(Msg) /\ Len(out) = n
        BY <4>2, <4>3
      <4> QED  BY <4>2, <4>4
    <3> QED  BY <3>4 DEF y
  <2> QED  BY <2>2, <2>3
<1> HIDE DEF out
<1>6. /\ InputState(out, <<>>, TRUE) \in Conversion
      /\ InputState(out, <<>>, TRUE).out = out
      /\ InputState(out, <<>>, TRUE).pending = <<>>
      /\ InputState(out, <<>>, TRUE).adjacent = TRUE
  BY <1>2, <1>5, StateIs
<1>7. base = CallBase(st, i)
  BY DEF base, CallBase
<1>8. out \in Seq(Msg)
  BY <1>5
<1> QED
  <2> DEFINE new == pushItem(st, i, kind, replay)
  <2>1. new \in Conversion /\ new.pending = <<>> /\ new.adjacent = TRUE /\ new.out = out
    BY <1>1, <1>3, <1>6
  <2> HIDE DEF new
  <2>2. Joined(base, kind, i, out)
    BY <1>4, <1>5, <1>8 DEF Joined
  <2>3. Called(st, i, kind, new)
    BY <1>7, <2>1, <2>2 DEF Called
  <2> QED  BY <2>3 DEF new

LEMMA PushThought ==
  ASSUME NEW st \in Conversion, NEW i \in Nat, NEW replay \in BOOLEAN, NEW kind \in ReasoningItem
  PROVE  LET new == pushItem(st, i, kind, replay) IN
         /\ new \in Conversion /\ new.adjacent = FALSE /\ new.out = st.out
         /\ new.pending = IF replay /\ kind = "reasoning" THEN Append(st.pending, i) ELSE st.pending
<1> DEFINE pending == IF replay /\ kind = "reasoning" THEN Append(st.pending, i) ELSE st.pending
<1>1. pushItem(st, i, kind, replay) = PushReasoning(st, i, kind, replay)
  <2>1. kind \in ItemKind
    BY DEF ItemKind
  <2> QED  BY <2>1, Kinds DEF pushItem
<1>2. st.out \in Seq(Msg) /\ st.pending \in Seq(Nat)
  BY DEF Conversion
<1>3. pending \in Seq(Nat)
  BY <1>2
<1>4. PushReasoning(st, i, kind, replay) = InputState(st.out, pending, FALSE)
  BY DEF PushReasoning
<1> HIDE DEF pending
<1>5. /\ InputState(st.out, pending, FALSE) \in Conversion
      /\ InputState(st.out, pending, FALSE).out = st.out
      /\ InputState(st.out, pending, FALSE).pending = pending
      /\ InputState(st.out, pending, FALSE).adjacent = FALSE
  BY <1>2, <1>3, StateIs
<1> QED
  BY <1>1, <1>4, <1>5 DEF pending

LEMMA PushStays ==
  ASSUME NEW st \in Conversion, NEW i \in Nat, NEW replay \in BOOLEAN, NEW kind \in ItemKind
  PROVE  pushItem(st, i, kind, replay) \in Conversion
<1>1. CASE kind \in TellItem \cup {"emptyUser"}
  BY <1>1, PushTold DEF Told
<1>2. CASE kind \in AssistantItem
  BY <1>2, PushSaid DEF Said
<1>3. CASE kind \in CallItem
  BY <1>3, PushCallIs DEF Called
<1>4. CASE kind \in ReasoningItem
  BY <1>4, PushThought
<1> QED
  BY <1>1, <1>2, <1>3, <1>4, Kinds

-----------------------------------------------------------------------------
(* After n items the messages are the history's and those the items mean,   *)
MadeSoFar(items, n, replay, history, out) ==
  LET p == Positions(n, Making(items)) IN
  /\ out \in Seq(Msg) /\ Len(out) = Len(history) + Len(p)
  /\ \A k \in 1 .. Len(history) : out[k] = history[k]
  /\ \A k \in 1 .. Len(p) : out[Len(history) + k] = MessageOf(items, n, p[k], replay)

(* the reasoning that is pending is what ends at item n, and a message of   *)
(* the assistant is adjacent exactly if item n is one: that of its turn.    *)
Keeps(items, n, replay, history, st) ==
  LET p == Positions(n, Making(items)) IN
  /\ st \in Conversion
  /\ MadeSoFar(items, n, replay, history, st.out)
  /\ st.pending = IF replay THEN Reasoning(items, n) ELSE <<>>
  /\ st.adjacent = (n > 0 /\ Assistants(items[n]))
  /\ n > 0 /\ Assistants(items[n]) => Len(p) > 0 /\ p[Len(p)] = Turn(items, n)

LEMMA MessageStays ==
  ASSUME NEW N \in 0 .. MaxItems, NEW items \in [1 .. N -> ItemKind], NEW replay,
         NEW n \in Nat, n < N, NEW j, n + 1 \notin Calls(items, j)
  PROVE  MessageOf(items, n + 1, j, replay) = MessageOf(items, n, j, replay)
<1> DEFINE m == n + 1
<1>1. m \in 1 .. MaxItems /\ m - 1 = n
  BY InputAssumption
<1> HIDE DEF m
<1>2. m \notin Calls(items, j)
  BY DEF m
<1>3. Positions(m, Calls(items, j)) = Positions(n, Calls(items, j))
  BY <1>1, <1>2, PositionsIs
<1> QED
  BY <1>3 DEF MessageOf, m

LEMMA TurnOpens ==
  ASSUME NEW N \in 0 .. MaxItems, NEW items \in [1 .. N -> ItemKind], NEW replay \in BOOLEAN,
         NEW n \in Nat, n < N, Opens(items, n + 1)
  PROVE  /\ Turn(items, n + 1) = n + 1
         /\ MessageOf(items, n + 1, n + 1, replay)
              = Message("assistant", n + 1,
                  IF replay /\ items[n + 1] # "imageAssistant" THEN Reasoning(items, n) ELSE <<>>,
                  IF items[n + 1] = "call" THEN <<n + 1>> ELSE <<>>)
         /\ \A j \in 1 .. n : n + 1 \notin Calls(items, j)
<1> DEFINE m == n + 1
<1>0. /\ N \in Nat /\ m \in 1 .. MaxItems /\ m \in 1 .. N /\ m - 1 = n /\ m \in Nat
      /\ n \in 0 .. MaxItems
  BY InputAssumption
<1>1. TurnIs(items, m, m)
  <2>1. m \in 1 .. m /\ \A k \in m + 1 .. m : FALSE
    OBVIOUS
  <2> QED  BY <2>1 DEF TurnIs
<1> HIDE DEF m
<1>2. Turn(items, m) = m
  BY <1>0, <1>1, TurnIsThis
<1>3. m \in Calls(items, m) <=> items[m] = "call"
  BY <1>0, <1>2 DEF Calls
<1>4. ASSUME NEW i \in 1 .. n PROVE i \notin Calls(items, m)
  <2> SUFFICES ASSUME i \in Calls(items, m) PROVE FALSE
    OBVIOUS
  <2>1. i \in 1 .. N /\ items[i] = "call" /\ Turn(items, i) = m
    BY <1>0 DEF Calls
  <2>2. Assistants(items[i])
    BY <2>1, Kinds DEF Assistants
  <2>3. TurnIs(items, m, i)
    BY <2>1, <2>2, TurnExists
  <2>4. m \in 1 .. i
    BY <2>3 DEF TurnIs
  <2> QED  BY <2>4 DEF m
<1>5. Positions(n, Calls(items, m)) = <<>>
  BY <1>0, <1>4, PositionsNone
<1>6. Positions(m, Calls(items, m)) = IF items[m] = "call" THEN <<m>> ELSE <<>>
  <2>1. Positions(m, Calls(items, m)) = IF m \in Calls(items, m) THEN Append(Positions(n, Calls(items, m)), m)
                                        ELSE Positions(n, Calls(items, m))
    BY <1>0, PositionsIs
  <2>2. Append(<<>>, m) = <<m>>
    OBVIOUS
  <2> QED  BY <1>3, <1>5, <2>1, <2>2
<1>7. Opens(items, m)
  BY DEF m
<1>8. \A j \in 1 .. n : m \notin Calls(items, j)
  <2>1. \A j \in 1 .. n : j # m
    BY DEF m
  <2> QED  BY <1>2, <2>1 DEF Calls
<1>9. MessageOf(items, m, m, replay)
        = Message("assistant", m, IF replay /\ items[m] # "imageAssistant" THEN Reasoning(items, n) ELSE <<>>,
                  IF items[m] = "call" THEN <<m>> ELSE <<>>)
  BY <1>0, <1>6, <1>7 DEF MessageOf
<1> QED
  BY <1>2, <1>8, <1>9 DEF m

LEMMA AddMessage ==
  ASSUME NEW N \in 0 .. MaxItems, NEW items \in [1 .. N -> ItemKind], NEW replay \in BOOLEAN,
         NEW history \in Seq(Msg), NEW n \in Nat, n < N,
         NEW out, MadeSoFar(items, n, replay, history, out),
         NEW new \in Seq(Msg), Len(new) = Len(out) + 1, \A k \in 1 .. Len(out) : new[k] = out[k],
         new[Len(out) + 1] = MessageOf(items, n + 1, n + 1, replay),
         n + 1 \in Making(items), \A j \in 1 .. n : n + 1 \notin Calls(items, j)
  PROVE  MadeSoFar(items, n + 1, replay, history, new)
<1> DEFINE m == n + 1
<1> DEFINE p == Positions(n, Making(items))
<1> DEFINE q == Positions(m, Making(items))
<1> DEFINE h == Len(history)
<1>0. m \in 1 .. MaxItems /\ m - 1 = n /\ n \in 0 .. MaxItems /\ h \in Nat
  BY InputAssumption
<1> HIDE DEF m
<1>1. p \in Seq(Nat) /\ \A k \in 1 .. Len(p) : p[k] \in 1 .. n
  BY <1>0, PositionsIs, PositionsAscend DEF Ascending
<1>2. q = Append(p, m)
  <2>1. m \in Making(items)
    BY DEF m
  <2> QED  BY <1>0, <2>1, PositionsIs
<1>3. /\ out \in Seq(Msg) /\ Len(out) = h + Len(p)
      /\ \A k \in 1 .. h : out[k] = history[k]
      /\ \A k \in 1 .. Len(p) : out[h + k] = MessageOf(items, n, p[k], replay)
  BY DEF MadeSoFar
<1>4. \A k \in 1 .. Len(p) : MessageOf(items, m, p[k], replay) = MessageOf(items, n, p[k], replay)
  <2>1. \A k \in 1 .. Len(p) : n + 1 \notin Calls(items, p[k])
    BY <1>1
  <2> HIDE DEF p
  <2> QED  BY <2>1, MessageStays DEF m
<1> HIDE DEF p, q, h
<1>5. /\ Len(p) \in Nat /\ Len(q) = Len(p) + 1 /\ q[Len(p) + 1] = m
      /\ \A k \in 1 .. Len(p) : q[k] = p[k]
  BY <1>0, <1>1, <1>2
<1>6. Len(new) = h + Len(q) /\ Len(out) + 1 = h + (Len(p) + 1)
  BY <1>0, <1>3, <1>5
<1>7. \A k \in 1 .. h : new[k] = history[k]
  <2>1. \A k \in 1 .. h : k \in 1 .. Len(out)
    BY <1>0, <1>3, <1>5
  <2> QED  BY <1>3, <2>1
<1>8. ASSUME NEW k \in 1 .. Len(q) PROVE new[h + k] = MessageOf(items, m, q[k], replay)
  <2>1. CASE k \in 1 .. Len(p)
    <3>1. h + k \in 1 .. Len(out)
      BY <1>0, <1>3, <1>5, <2>1
    <3> QED  BY <1>3, <1>4, <1>5, <2>1, <3>1
  <2>2. CASE k = Len(p) + 1
    <3>1. h + k = Len(out) + 1
      BY <1>6, <2>2
    <3> QED  BY <1>5, <2>2, <3>1 DEF m
  <2>3. k \in 1 .. Len(p) \/ k = Len(p) + 1
    BY <1>5
  <2> QED  BY ONLY <2>1, <2>2, <2>3
<1> QED
  BY <1>6, <1>7, <1>8 DEF MadeSoFar, q, h, m

LEMMA SameMessages ==
  ASSUME NEW N \in 0 .. MaxItems, NEW items \in [1 .. N -> ItemKind], NEW replay \in BOOLEAN,
         NEW history \in Seq(Msg), NEW n \in Nat, n < N,
         NEW out, MadeSoFar(items, n, replay, history, out),
         n + 1 \notin Making(items), \A j \in 1 .. n : n + 1 \notin Calls(items, j)
  PROVE  MadeSoFar(items, n + 1, replay, history, out)
<1> DEFINE m == n + 1
<1> DEFINE p == Positions(n, Making(items))
<1>0. m \in 1 .. MaxItems /\ m - 1 = n /\ n \in 0 .. MaxItems
  BY InputAssumption
<1> HIDE DEF m
<1>1. \A k \in 1 .. Len(p) : p[k] \in 1 .. n
  BY <1>0, PositionsAscend DEF Ascending
<1>2. Positions(m, Making(items)) = p
  <2>1. m \notin Making(items)
    BY DEF m
  <2> QED  BY <1>0, <2>1, PositionsIs
<1>3. \A k \in 1 .. Len(p) : MessageOf(items, m, p[k], replay) = MessageOf(items, n, p[k], replay)
  <2>1. \A k \in 1 .. Len(p) : n + 1 \notin Calls(items, p[k])
    BY <1>1
  <2> HIDE DEF p
  <2> QED  BY <2>1, MessageStays DEF m
<1>4. /\ out \in Seq(Msg) /\ Len(out) = Len(history) + Len(p)
      /\ \A k \in 1 .. Len(history) : out[k] = history[k]
      /\ \A k \in 1 .. Len(p) : out[Len(history) + k] = MessageOf(items, n, p[k], replay)
  BY DEF MadeSoFar
<1> HIDE DEF p
<1> QED
  BY <1>2, <1>3, <1>4 DEF MadeSoFar, m

CallsWith(calls, kind, m) == IF kind = "call" THEN Append(calls, m) ELSE calls

LEMMA WithCallMessage ==
  ASSUME NEW role, NEW i, NEW think, NEW calls, NEW kind, NEW m
  PROVE  WithCall(Message(role, i, think, calls), kind, m)
           = Message(role, i, think, CallsWith(calls, kind, m))
BY DEF WithCall, Message, CallsWith

LastIs(p, j) == Len(p) > 0 /\ p[Len(p)] = j

LEMMA LastMessage ==
  ASSUME NEW items, NEW replay, NEW history \in Seq(Msg), NEW n \in 0 .. MaxItems, NEW out,
         MadeSoFar(items, n, replay, history, out),
         Len(Positions(n, Making(items))) > 0
  PROVE  LET p == Positions(n, Making(items)) IN
         out[Len(out)] = MessageOf(items, n, p[Len(p)], replay)
<1> DEFINE p == Positions(n, Making(items))
<1>1. p \in Seq(Nat)
  BY PositionsIs
<1>2. Len(p) \in 1 .. Len(p)
  BY <1>1
<1> HIDE DEF p
<1>3. /\ Len(out) = Len(history) + Len(p)
      /\ \A k \in 1 .. Len(p) : out[Len(history) + k] = MessageOf(items, n, p[k], replay)
  BY DEF MadeSoFar, p
<1> QED
  BY <1>2, <1>3 DEF p

(* A call that opens no turn joins the last message, that of its turn.      *)
LEMMA JoinMessage ==
  ASSUME NEW N \in 0 .. MaxItems, NEW items \in [1 .. N -> ItemKind], NEW replay \in BOOLEAN,
         NEW history \in Seq(Msg), NEW n \in Nat, n < N,
         NEW out, MadeSoFar(items, n, replay, history, out),
         n > 0, Assistants(items[n]), items[n + 1] \in CallItem, ~Opens(items, n + 1),
         LastIs(Positions(n, Making(items)), Turn(items, n)),
         NEW new, Joined(out, items[n + 1], n + 1, new)
  PROVE  /\ MadeSoFar(items, n + 1, replay, history, new)
         /\ Turn(items, n + 1) = Turn(items, n)
         /\ Positions(n + 1, Making(items)) = Positions(n, Making(items))
<1> DEFINE m == n + 1
<1> DEFINE p == Positions(n, Making(items))
<1> DEFINE h == Len(history)
<1> DEFINE j == Turn(items, n)
<1> DEFINE kind == items[m]
<1>0. /\ m \in 1 .. MaxItems /\ m - 1 = n /\ n \in 0 .. MaxItems /\ h \in Nat /\ m \in 1 .. N
      /\ n \in 1 .. N /\ m \in Nat
  BY InputAssumption
<1>1. TurnIs(items, j, n)
  BY <1>0, TurnExists
<1>2. TurnIs(items, j, m)
  <2>1. j \in 1 .. m /\ \A k \in j + 1 .. m : k \in j + 1 .. n \/ k = m
    BY <1>1 DEF TurnIs
  <2> QED  BY <1>1, <2>1 DEF TurnIs
<1> HIDE DEF m
<1>3. Turn(items, m) = j
  BY <1>0, <1>2, TurnIsThis
<1> HIDE DEF j
<1>4. kind \in ItemKind /\ kind \in CallItem /\ ~Opens(items, m)
  BY <1>0 DEF m
<1>5. Positions(m, Making(items)) = p
  <2>1. m \notin Making(items)
    BY <1>4, Kinds DEF Making, TellItem
  <2> QED  BY <1>0, <2>1, PositionsIs
<1>6. /\ p \in Seq(Nat) /\ Len(p) \in Nat /\ Len(p) > 0 /\ p[Len(p)] = j
      /\ \A k \in 1 .. Len(p) : p[k] \in 1 .. n
      /\ \A k \in 1 .. Len(p) : k < Len(p) => p[k] < p[Len(p)]
  <2>1. p \in Seq(Nat) /\ Ascending(n, Making(items), p)
    BY <1>0, PositionsIs, PositionsAscend
  <2>2. Len(p) \in Nat /\ Len(p) > 0 /\ p[Len(p)] = j
    BY <2>1 DEF j, LastIs
  <2> HIDE DEF p
  <2>3. Len(p) \in 1 .. Len(p)
    BY <2>2
  <2> QED  BY <2>1, <2>2, <2>3 DEF Ascending
<1>7. /\ out \in Seq(Msg) /\ Len(out) = h + Len(p)
      /\ \A k \in 1 .. h : out[k] = history[k]
      /\ \A k \in 1 .. Len(p) : out[h + k] = MessageOf(items, n, p[k], replay)
  BY DEF MadeSoFar
<1> HIDE DEF p, h
<1>13. /\ new \in Seq(Msg) /\ Len(new) = Len(out)
       /\ \A k \in 1 .. Len(out) :
            new[k] = IF k = Len(out) THEN WithCall(out[k], kind, m) ELSE out[k]
  BY DEF Joined, m
<1>8. ASSUME NEW k \in 1 .. Len(p), k # Len(p)
      PROVE  MessageOf(items, m, p[k], replay) = MessageOf(items, n, p[k], replay)
  <2>1. p[k] < j /\ p[k] \in Nat /\ j \in Nat
    BY <1>1, <1>6, <1>8 DEF TurnIs
  <2>2. m \notin Calls(items, p[k])
    BY <1>3, <2>1 DEF Calls
  <2> QED  BY <2>2, MessageStays DEF m
<1>9. MessageOf(items, m, j, replay) = WithCall(MessageOf(items, n, j, replay), kind, m)
  <2>1. Positions(m, Calls(items, j)) = IF kind = "call" THEN Append(Positions(n, Calls(items, j)), m)
                                        ELSE Positions(n, Calls(items, j))
    <3>1. m \in Calls(items, j) <=> kind = "call"
      BY <1>0, <1>3 DEF Calls
    <3>2. Positions(m, Calls(items, j)) = IF m \in Calls(items, j) THEN Append(Positions(n, Calls(items, j)), m)
                                          ELSE Positions(n, Calls(items, j))
      BY <1>0, PositionsIs
    <3> QED  BY <3>1, <3>2
  <2>2. Opens(items, j)
    BY <1>1 DEF TurnIs
  <2> DEFINE think == IF replay /\ items[j] # "imageAssistant" THEN Reasoning(items, j - 1) ELSE <<>>
  <2>3. /\ MessageOf(items, m, j, replay) = Message("assistant", j, think, Positions(m, Calls(items, j)))
        /\ MessageOf(items, n, j, replay) = Message("assistant", j, think, Positions(n, Calls(items, j)))
    BY <2>2 DEF MessageOf
  <2>4. Positions(m, Calls(items, j)) = CallsWith(Positions(n, Calls(items, j)), kind, m)
    BY <2>1 DEF CallsWith
  <2> HIDE DEF think, kind
  <2> QED  BY <2>3, <2>4, WithCallMessage
<1>10. \A k \in 1 .. h : new[k] = history[k]
  <2>1. \A k \in 1 .. h : k \in 1 .. Len(out) /\ k # Len(out)
    BY <1>0, <1>6, <1>7
  <2> QED  BY <1>7, <1>13, <2>1
<1>11. ASSUME NEW k \in 1 .. Len(p) PROVE new[h + k] = MessageOf(items, m, p[k], replay)
  <2>1. h + k \in 1 .. Len(out) /\ (h + k = Len(out) <=> k = Len(p))
    <3>1. k \in Nat /\ k >= 1 /\ k <= Len(p)
      BY <1>6
    <3>2. h \in Nat /\ Len(p) \in Nat /\ Len(out) = h + Len(p)
      BY <1>0, <1>6, <1>7
    <3> QED  BY ONLY <3>1, <3>2
  <2>2. CASE k # Len(p)
    BY <1>7, <1>8, <1>13, <2>1, <2>2
  <2>3. CASE k = Len(p)
    <3>1. new[h + k] = WithCall(out[h + k], kind, m)
      BY <1>13, <2>1, <2>3
    <3>2. out[h + k] = MessageOf(items, n, j, replay)
      BY <1>6, <1>7, <2>3
    <3> QED  BY <1>6, <1>9, <2>3, <3>1, <3>2
  <2> QED  BY <2>2, <2>3
<1>12. MadeSoFar(items, m, replay, history, new)
  BY <1>5, <1>7, <1>10, <1>11, <1>13 DEF MadeSoFar, h
<1> QED
  BY <1>3, <1>5, <1>12 DEF m, p, j

LEMMA ItemStep ==
  ASSUME NEW N \in 0 .. MaxItems, NEW items \in [1 .. N -> ItemKind], NEW replay \in BOOLEAN,
         NEW history \in Seq(Msg), NEW n \in Nat, n < N,
         NEW st, Keeps(items, n, replay, history, st)
  PROVE  Keeps(items, n + 1, replay, history, pushItem(st, n + 1, items[n + 1], replay))
<1> DEFINE m == n + 1
<1> DEFINE p == Positions(n, Making(items))
<1> DEFINE q == Positions(m, Making(items))
<1> DEFINE kind == items[m]
<1> DEFINE new == pushItem(st, m, kind, replay)
<1>0. /\ m \in 1 .. MaxItems /\ m - 1 = n /\ n \in 0 .. MaxItems /\ m \in 1 .. N /\ m \in Nat
      /\ m > 0 /\ (n > 0 => n \in 1 .. N) /\ (n = 0 <=> m = 1)
  BY InputAssumption
<1> HIDE DEF m
<1>1. kind \in ItemKind /\ replay \in BOOLEAN
  BY <1>0
<1>2. /\ st \in Conversion /\ MadeSoFar(items, n, replay, history, st.out)
      /\ st.pending = IF replay THEN Reasoning(items, n) ELSE <<>>
      /\ st.adjacent = (n > 0 /\ Assistants(items[n]))
      /\ n > 0 /\ Assistants(items[n]) => Len(p) > 0 /\ p[Len(p)] = Turn(items, n)
  BY DEF Keeps
<1>3. st.out \in Seq(Msg) /\ st.pending \in Seq(Nat) /\ Len(st.out) \in Nat
  BY <1>2 DEF Conversion
<1>4. /\ kind \notin ReasoningItem => Reasoning(items, m) = <<>>
      /\ kind = "reasoning" => Reasoning(items, m) = Append(Reasoning(items, n), m)
      /\ kind \in ReasoningItem /\ kind # "reasoning" => Reasoning(items, m) = Reasoning(items, n)
  BY ReasoningIs DEF m
<1>5. q = IF m \in Making(items) THEN Append(p, m) ELSE p
  BY <1>0, PositionsIs
<1>6. p \in Seq(Nat)
  BY <1>0, PositionsIs
<1>7. m \in Making(items) <=> Opens(items, m) \/ kind \in TellItem
  BY <1>0 DEF Making, TellItem
<1>8. kind # "call" => \A j \in 1 .. n : m \notin Calls(items, j)
  BY DEF Calls
<1> HIDE DEF p, q, new, kind
<1>9. ASSUME m \in Making(items), Turn(items, m) = m PROVE Len(q) > 0 /\ q[Len(q)] = Turn(items, m)
  <2>1. q = Append(p, m)
    BY <1>5, <1>9
  <2>2. Len(q) = Len(p) + 1 /\ q[Len(p) + 1] = m /\ Len(p) \in Nat
    BY <1>0, <1>6, <2>1
  <2> QED  BY <1>9, <2>2
<1>10. ASSUME NEW x \in Msg, NEW out, out = Append(st.out, x)
       PROVE  /\ out \in Seq(Msg) /\ Len(out) = Len(st.out) + 1
              /\ \A k \in 1 .. Len(st.out) : out[k] = st.out[k]
              /\ out[Len(st.out) + 1] = x
  BY <1>3, <1>10
<1>11. CASE kind \in AssistantItem
  <2>1. Opens(items, m) /\ Assistants(kind) /\ kind # "call" /\ kind \notin ReasoningItem
    BY <1>1, <1>11, Kinds DEF Opens, Assistants, kind
  <2> DEFINE x == Message("assistant", m, IF kind = "imageAssistant" THEN <<>> ELSE st.pending, <<>>)
  <2>2. new \in Conversion /\ new.pending = <<>> /\ new.adjacent = TRUE /\ new.out = Append(st.out, x)
    <3> DEFINE to == pushItem(st, m, kind, replay)
    <3>1. m \in Nat /\ st \in Conversion
      BY <1>0, <1>2
    <3>2. Said(st, m, kind, to)
      BY ONLY <1>1, <1>11, <3>1, PushSaid
    <3> QED  BY <3>2 DEF Said, new
  <2>3. /\ Turn(items, m) = m
        /\ MessageOf(items, m, m, replay)
             = Message("assistant", m,
                 IF replay /\ kind # "imageAssistant" THEN Reasoning(items, n) ELSE <<>>, <<>>)
        /\ \A j \in 1 .. n : m \notin Calls(items, j)
    BY <2>1, TurnOpens DEF m, kind
  <2>4. x = MessageOf(items, m, m, replay)
    BY <1>2, <2>3
  <2>5. x \in Msg
    <3> DEFINE think == IF kind = "imageAssistant" THEN <<>> ELSE st.pending
    <3>1. think \in Seq(Nat) /\ <<>> \in Seq(Nat) /\ "assistant" \in Role /\ m \in Nat
      BY <1>0, <1>3 DEF Role
    <3> HIDE DEF think
    <3>2. Message("assistant", m, think, <<>>) \in Msg
      BY ONLY <3>1, MessageIs
    <3> QED  BY <3>2 DEF think
  <2> HIDE DEF x
  <2>6. /\ new.out \in Seq(Msg) /\ Len(new.out) = Len(st.out) + 1
        /\ \A k \in 1 .. Len(st.out) : new.out[k] = st.out[k]
        /\ new.out[Len(st.out) + 1] = x
    BY <1>10, <2>2, <2>5
  <2>7. m \in Making(items)
    BY <1>7, <2>1
  <2>8. MadeSoFar(items, m, replay, history, new.out)
    BY <1>2, <2>3, <2>4, <2>6, <2>7, AddMessage DEF m
  <2>9. Len(q) > 0 /\ q[Len(q)] = Turn(items, m)
    BY <1>9, <2>3, <2>7
  <2>10. Keeps(items, m, replay, history, new)
    BY <1>0, <1>4, <2>1, <2>2, <2>8, <2>9 DEF Keeps, q, kind
  <2> QED  BY <2>10 DEF m, new, kind
<1>12. CASE kind \in CallItem /\ Opens(items, m)
  <2>1. ~st.adjacent /\ Assistants(kind) /\ kind \notin ReasoningItem /\ kind # "imageAssistant"
    <3>1. m = 1 \/ ~Assistants(items[m - 1])
      BY <1>1, <1>12, Kinds DEF Opens, kind
    <3>2. n = 0 \/ ~Assistants(items[n])
      BY <1>0, <3>1
    <3>3. ~st.adjacent
      <4>1. ~(n > 0 /\ Assistants(items[n]))
        BY <1>0, <3>2
      <4>2. st.adjacent = (n > 0 /\ Assistants(items[n]))
        BY <1>2
      <4> QED  BY ONLY <4>1, <4>2
    <3>4. kind \in CallItem => kind \notin ReasoningItem /\ kind # "imageAssistant"
      BY <1>1, Kinds
    <3> QED  BY <1>12, <3>3, <3>4 DEF Assistants
  <2> DEFINE y == Message("assistant", m, st.pending, <<>>)
  <2> DEFINE fresh == Append(st.out, y)
  <2>2. OpensTurn(st)
    BY <2>1 DEF OpensTurn
  <2>3. /\ new \in Conversion /\ new.pending = <<>> /\ new.adjacent = TRUE
        /\ Joined(fresh, kind, m, new.out)
    <3> DEFINE to == pushItem(st, m, kind, replay)
    <3>1. m \in Nat /\ st \in Conversion /\ kind \in CallItem
      BY <1>0, <1>2, <1>12
    <3>2. Called(st, m, kind, to)
      BY ONLY <1>1, <3>1, PushCallIs
    <3>3. CallBase(st, m) = fresh
      BY <2>2 DEF CallBase
    <3> HIDE DEF to, fresh
    <3>4. to \in Conversion /\ to.pending = <<>> /\ to.adjacent = TRUE /\ Joined(fresh, kind, m, to.out)
      BY <3>2, <3>3 DEF Called
    <3>5. new = to
      BY DEF new, to
    <3> QED  BY ONLY <3>4, <3>5
  <2>4. /\ Turn(items, m) = m
        /\ MessageOf(items, m, m, replay)
             = Message("assistant", m,
                 IF replay /\ kind # "imageAssistant" THEN Reasoning(items, n) ELSE <<>>,
                 IF kind = "call" THEN <<m>> ELSE <<>>)
        /\ \A j \in 1 .. n : m \notin Calls(items, j)
    BY <1>12, TurnOpens DEF m, kind
  <2>5. WithCall(y, kind, m) = MessageOf(items, m, m, replay)
    <3>1. WithCall(y, kind, m) = Message("assistant", m, st.pending, CallsWith(<<>>, kind, m))
      BY ONLY WithCallMessage
    <3>2. CallsWith(<<>>, kind, m) = IF kind = "call" THEN <<m>> ELSE <<>>
      BY DEF CallsWith
    <3>3. st.pending = IF replay /\ kind # "imageAssistant" THEN Reasoning(items, n) ELSE <<>>
      BY <1>2, <2>1
    <3> QED  BY <2>4, <3>1, <3>2, <3>3
  <2>6. y \in Msg
    <3>1. st.pending \in Seq(Nat) /\ <<>> \in Seq(Nat) /\ "assistant" \in Role /\ m \in Nat
      BY <1>0, <1>3 DEF Role
    <3> QED  BY ONLY <3>1, MessageIs
  <2> HIDE DEF y
  <2>7. /\ fresh \in Seq(Msg) /\ Len(fresh) = Len(st.out) + 1
        /\ \A k \in 1 .. Len(st.out) : fresh[k] = st.out[k]
        /\ fresh[Len(st.out) + 1] = y
    BY <1>10, <2>6
  <2> HIDE DEF fresh
  <2>8. /\ new.out \in Seq(Msg) /\ Len(new.out) = Len(st.out) + 1
        /\ \A k \in 1 .. Len(st.out) : new.out[k] = st.out[k]
        /\ new.out[Len(st.out) + 1] = MessageOf(items, m, m, replay)
    <3>1. /\ new.out \in Seq(Msg) /\ Len(new.out) = Len(fresh)
          /\ \A k \in 1 .. Len(fresh) :
               new.out[k] = IF k = Len(fresh) THEN WithCall(fresh[k], kind, m) ELSE fresh[k]
      BY <2>3 DEF Joined
    <3>2. \A k \in 1 .. Len(st.out) : k \in 1 .. Len(fresh) /\ k # Len(fresh)
      BY <1>3, <2>7
    <3>3. Len(st.out) + 1 \in 1 .. Len(fresh)
      BY <1>3, <2>7
    <3> QED  BY <2>3, <2>5, <2>7, <3>1, <3>2, <3>3
  <2>9. m \in Making(items)
    BY <1>7, <1>12
  <2>10. MadeSoFar(items, m, replay, history, new.out)
    BY <1>2, <2>4, <2>8, <2>9, AddMessage DEF m
  <2>11. Len(q) > 0 /\ q[Len(q)] = Turn(items, m)
    BY <1>9, <2>4, <2>9
  <2>12. Keeps(items, m, replay, history, new)
    BY <1>0, <1>4, <2>1, <2>3, <2>10, <2>11 DEF Keeps, q, kind
  <2> QED  BY <2>12 DEF m, new, kind
<1>13. CASE kind \in CallItem /\ ~Opens(items, m)
  <2>1. n > 0 /\ Assistants(items[n])
    <3>1. m # 1 /\ Assistants(items[m - 1])
      BY <1>13 DEF Opens, kind
    <3> QED  BY <1>0, <3>1
  <2>2. Len(p) > 0 /\ p[Len(p)] = Turn(items, n)
    BY <1>2, <2>1
  <2>3. Assistants(kind) /\ kind \notin ReasoningItem
    BY <1>1, <1>13, Kinds DEF Assistants
  <2>4. ~OpensTurn(st)
    <3>1. st.out[Len(st.out)] = MessageOf(items, n, Turn(items, n), replay)
      BY <1>0, <1>2, <2>2, LastMessage DEF p
    <3>2. Opens(items, Turn(items, n))
      BY <1>0, <2>1, TurnExists DEF TurnIs
    <3>3. st.out[Len(st.out)].role = "assistant"
      BY <3>1, <3>2 DEF MessageOf, Message
    <3>4. Len(st.out) # 0
      <4>1. Len(st.out) = Len(history) + Len(p)
        BY <1>2 DEF MadeSoFar, p
      <4> QED  BY <1>6, <2>2, <4>1
    <3> QED  BY <1>2, <2>1, <3>3, <3>4 DEF OpensTurn
  <2>5. /\ new \in Conversion /\ new.pending = <<>> /\ new.adjacent = TRUE
        /\ Joined(st.out, kind, m, new.out)
    <3> DEFINE to == pushItem(st, m, kind, replay)
    <3>1. m \in Nat /\ st \in Conversion /\ kind \in CallItem
      BY <1>0, <1>2, <1>13
    <3>2. Called(st, m, kind, to)
      BY ONLY <1>1, <3>1, PushCallIs
    <3>3. CallBase(st, m) = st.out
      BY <2>4 DEF CallBase
    <3> HIDE DEF to
    <3>4. to \in Conversion /\ to.pending = <<>> /\ to.adjacent = TRUE /\ Joined(st.out, kind, m, to.out)
      BY <3>2, <3>3 DEF Called
    <3>5. new = to
      BY DEF new, to
    <3> QED  BY ONLY <3>4, <3>5
  <2>7. /\ MadeSoFar(items, m, replay, history, new.out)
        /\ Turn(items, m) = Turn(items, n) /\ q = p
    <3> DEFINE out == new.out
    <3>1. /\ MadeSoFar(items, n, replay, history, st.out)
          /\ n > 0 /\ Assistants(items[n]) /\ items[n + 1] \in CallItem /\ ~Opens(items, n + 1)
          /\ LastIs(Positions(n, Making(items)), Turn(items, n))
      BY <1>2, <1>13, <2>1, <2>2 DEF m, kind, p, LastIs
    <3>2. Joined(st.out, items[n + 1], n + 1, out)
      BY <2>5 DEF m, kind
    <3> HIDE DEF out
    <3>3. /\ MadeSoFar(items, n + 1, replay, history, out)
          /\ Turn(items, n + 1) = Turn(items, n)
          /\ Positions(n + 1, Making(items)) = Positions(n, Making(items))
      BY <3>1, <3>2, JoinMessage
    <3> QED  BY <3>3 DEF m, p, q, out
  <2>8. Keeps(items, m, replay, history, new)
    BY <1>0, <1>4, <2>2, <2>3, <2>5, <2>7 DEF Keeps, q, kind
  <2> QED  BY <2>8 DEF m, new, kind
<1>14. CASE kind \in ReasoningItem
  <2>1. ~Opens(items, m) /\ ~Assistants(kind) /\ kind \notin TellItem /\ kind # "call"
    BY <1>1, <1>14, Kinds DEF Opens, Assistants, kind
  <2>2. /\ new \in Conversion /\ new.adjacent = FALSE /\ new.out = st.out
        /\ new.pending = IF replay /\ kind = "reasoning" THEN Append(st.pending, m) ELSE st.pending
    <3> DEFINE to == pushItem(st, m, kind, replay)
    <3>1. m \in Nat /\ st \in Conversion
      BY <1>0, <1>2
    <3>2. /\ to \in Conversion /\ to.adjacent = FALSE /\ to.out = st.out
          /\ to.pending = IF replay /\ kind = "reasoning" THEN Append(st.pending, m) ELSE st.pending
      BY ONLY <1>1, <1>14, <3>1, PushThought
    <3> QED  BY <3>2 DEF new
  <2>3. new.pending = IF replay THEN Reasoning(items, m) ELSE <<>>
    BY <1>2, <1>4, <1>14, <2>2
  <2>4. MadeSoFar(items, m, replay, history, new.out)
    BY <1>2, <1>7, <1>8, <2>1, <2>2, SameMessages DEF m
  <2>5. Keeps(items, m, replay, history, new)
    BY <1>0, <2>1, <2>2, <2>3, <2>4 DEF Keeps, kind
  <2> QED  BY <2>5 DEF m, new, kind
<1>15. CASE kind \in TellItem \cup {"emptyUser"}
  <2>1. ~Opens(items, m) /\ ~Assistants(kind) /\ kind # "call" /\ kind \notin ReasoningItem
    BY <1>1, <1>15, Kinds DEF Opens, Assistants, kind
  <2> DEFINE x == Message(IF kind = "output" THEN "tool" ELSE "user", m, <<>>, <<>>)
  <2>2. /\ new \in Conversion /\ new.pending = <<>> /\ new.adjacent = FALSE
        /\ new.out = IF kind = "emptyUser" THEN st.out ELSE Append(st.out, x)
    <3> DEFINE to == pushItem(st, m, kind, replay)
    <3>1. m \in Nat /\ st \in Conversion
      BY <1>0, <1>2
    <3>2. Told(st, m, kind, to)
      BY ONLY <1>1, <1>15, <3>1, PushTold
    <3> QED  BY <3>2 DEF Told, new
  <2>3. MessageOf(items, m, m, replay) = x
    BY <2>1 DEF MessageOf, kind
  <2>4. x \in Msg
    <3> DEFINE role == IF kind = "output" THEN "tool" ELSE "user"
    <3>1. role \in Role /\ <<>> \in Seq(Nat) /\ m \in Nat
      BY <1>0 DEF Role
    <3> HIDE DEF role
    <3>2. Message(role, m, <<>>, <<>>) \in Msg
      BY ONLY <3>1, MessageIs
    <3> QED  BY <3>2 DEF role
  <2> HIDE DEF x
  <2>5. MadeSoFar(items, m, replay, history, new.out)
    <3>1. CASE kind = "emptyUser"
      <4>1. m \notin Making(items) /\ new.out = st.out
        BY <1>1, <1>7, <2>1, <2>2, <3>1, Kinds
      <4> QED  BY <1>2, <1>8, <2>1, <4>1, SameMessages DEF m
    <3>2. CASE kind # "emptyUser"
      <4>1. m \in Making(items) /\ new.out = Append(st.out, x)
        BY <1>7, <1>15, <2>2, <3>2
      <4>2. /\ new.out \in Seq(Msg) /\ Len(new.out) = Len(st.out) + 1
            /\ \A k \in 1 .. Len(st.out) : new.out[k] = st.out[k]
            /\ new.out[Len(st.out) + 1] = x
        BY <1>10, <2>4, <4>1
      <4> QED  BY <1>2, <1>8, <2>1, <2>3, <4>1, <4>2, AddMessage DEF m
    <3> QED  BY <3>1, <3>2
  <2>6. Keeps(items, m, replay, history, new)
    BY <1>0, <1>4, <2>1, <2>2, <2>5 DEF Keeps, kind
  <2> QED  BY <2>6 DEF m, new, kind
<1> QED
  BY <1>1, <1>11, <1>12, <1>13, <1>14, <1>15, Kinds

-----------------------------------------------------------------------------
Steps(history, items, replay, After) ==
  \A n \in 0 .. Len(items) :
    After[n] = IF n = 0 THEN InputState(history, <<>>, FALSE)
                        ELSE pushItem(After[n - 1], n, items[n], replay)

(* The conversion of the items, as a function of how many are read.         *)
LEMMA ConversionRuns ==
  ASSUME NEW N \in 0 .. MaxItems, NEW items \in [1 .. N -> ItemKind], NEW replay \in BOOLEAN,
         NEW history \in Seq(Msg)
  PROVE  \E After : /\ Steps(history, items, replay, After)
                    /\ normalizeInput(history, items, replay) = After[N].out
<1> DEFINE first == InputState(history, <<>>, FALSE)
<1> DEFINE g == [x \in (1 .. N) \X Conversion |-> pushItem(x[2], x[1], items[x[1]], replay)]
<1> DEFINE Made(f, n) == IF n = 0 THEN first ELSE pushItem(f[n - 1], n, items[n], replay)
<1> DEFINE After == CHOOSE f : f = [n \in 0 .. N |-> Made(f, n)]
<1>0. N \in Nat /\ Len(items) = N
  BY InputAssumption
<1>1. first \in Conversion
  <2>1. <<>> \in Seq(Nat) /\ FALSE \in BOOLEAN
    OBVIOUS
  <2> QED  BY ONLY <2>1, StateIs
<1>2. g \in [(1 .. N) \X Conversion -> Conversion]
  <2>1. ASSUME NEW x \in (1 .. N) \X Conversion PROVE pushItem(x[2], x[1], items[x[1]], replay) \in Conversion
    <3>1. x[1] \in Nat /\ x[2] \in Conversion /\ items[x[1]] \in ItemKind
      BY <1>0
    <3> QED  BY <3>1, PushStays
  <2> QED  BY <2>1
<1>3. \A d \in 1 .. N, s \in Conversion : g[<<d, s>>] = pushItem(s, d, items[d], replay)
  OBVIOUS
<1> HIDE DEF first, g
<1>4. PICK f \in [0 .. N -> Conversion] : Runs(f, first, g, N)
  BY <1>0, <1>1, <1>2, RecursionExists
<1>5. \A n \in 0 .. N : f[n] = Made(f, n)
  <2> TAKE n \in 0 .. N
  <2>1. CASE n = 0
    BY <1>4, <2>1 DEF Runs
  <2>2. CASE n # 0
    <3>1. n \in 1 .. N /\ n - 1 \in 0 .. N
      BY <1>0, <2>2
    <3>2. f[n] = g[<<n, f[n - 1]>>] /\ f[n - 1] \in Conversion
      BY <1>4, <3>1 DEF Runs
    <3>3. g[<<n, f[n - 1]>>] = pushItem(f[n - 1], n, items[n], replay)
      BY <1>3, <3>1, <3>2
    <3> QED  BY <2>2, <3>2, <3>3
  <2> QED  BY <2>1, <2>2
<1>6. f = [n \in 0 .. N |-> Made(f, n)]
  <2> HIDE DEF Made
  <2> QED  BY <1>4, <1>5
<1>7. After = [n \in 0 .. N |-> Made(After, n)]
  <2> HIDE DEF Made
  <2> QED  BY <1>6
<1>8. \A n \in 0 .. N : After[n] = Made(After, n)
  <2> HIDE DEF Made, After
  <2> QED  BY <1>7
<1>9. normalizeInput(history, items, replay) = After[N].out
  BY <1>0 DEF normalizeInput, first
<1> HIDE DEF After
<1>10. Steps(history, items, replay, After)
  BY <1>0, <1>8 DEF Steps, first
<1> QED
  BY <1>9, <1>10

(* Before the first item the messages are the history's.                    *)
LEMMA NothingYet ==
  ASSUME NEW items, NEW replay \in BOOLEAN, NEW history \in Seq(Msg)
  PROVE  Keeps(items, 0, replay, history, InputState(history, <<>>, FALSE))
<1> DEFINE st == InputState(history, <<>>, FALSE)
<1>1. Positions(0, Making(items)) = <<>> /\ Reasoning(items, 0) = <<>>
  BY PositionsIs DEF Reasoning
<1>2. <<>> \in Seq(Nat) /\ FALSE \in BOOLEAN
  OBVIOUS
<1>3. st \in Conversion /\ st.out = history /\ st.pending = <<>> /\ st.adjacent = FALSE
  BY ONLY <1>2, StateIs
<1> HIDE DEF st
<1>4. MadeSoFar(items, 0, replay, history, history)
  <2>1. Len(history) \in Nat /\ Len(<<>>) = 0
    OBVIOUS
  <2> QED  BY <1>1, <2>1 DEF MadeSoFar
<1>5. st.pending = IF replay THEN Reasoning(items, 0) ELSE <<>>
  BY <1>1, <1>3
<1>6. ~(0 > 0 /\ Assistants(items[0]))
  OBVIOUS
<1>7. st.adjacent = (0 > 0 /\ Assistants(items[0]))
  BY ONLY <1>3, <1>6
<1>8. MadeSoFar(items, 0, replay, history, st.out)
  BY <1>3, <1>4
<1> HIDE DEF Assistants, MadeSoFar, Reasoning
<1> QED
  BY ONLY <1>3, <1>5, <1>6, <1>7, <1>8 DEF Keeps, st

(* The messages of a request are the session's and those its items mean.    *)
LEMMA InputMeans ==
  ASSUME NEW N \in 0 .. MaxItems, NEW items \in [1 .. N -> ItemKind], NEW replay \in BOOLEAN,
         NEW history \in Seq(Msg)
  PROVE  normalizeInput(history, items, replay) = history \o Meaning(items, N, replay)
<1>0. N \in Nat /\ Len(items) = N
  BY InputAssumption
<1>1. PICK After : /\ Steps(history, items, replay, After)
                   /\ normalizeInput(history, items, replay) = After[N].out
  BY ConversionRuns
<1> DEFINE T == {n \in 0 .. N : Keeps(items, n, replay, history, After[n])}
<1>2. 0 \in T
  <2>1. After[0] = InputState(history, <<>>, FALSE)
    <3>1. 0 \in 0 .. Len(items)
      BY <1>0
    <3> QED  BY <1>1, <3>1 DEF Steps
  <2>2. Keeps(items, 0, replay, history, After[0])
    BY <2>1, NothingYet
  <2>3. 0 \in 0 .. N
    BY <1>0
  <2> QED  BY <2>2, <2>3
<1>3. ASSUME NEW n \in Nat, n < N, n \in T PROVE n + 1 \in T
  <2>1. n + 1 \in 0 .. N /\ n + 1 # 0 /\ (n + 1) - 1 = n
    BY <1>0, <1>3
  <2>2. After[n + 1] = pushItem(After[n], n + 1, items[n + 1], replay)
    BY <1>0, <1>1, <2>1 DEF Steps
  <2>3. Keeps(items, n, replay, history, After[n])
    BY <1>3
  <2>4. Keeps(items, n + 1, replay, history, After[n + 1])
    BY <1>3, <2>2, <2>3, ItemStep
  <2> QED  BY <2>1, <2>4
<1> HIDE DEF T
<1>4. 0 .. N \subseteq T
  BY <1>0, <1>2, <1>3, ReachesBound
<1>5. Keeps(items, N, replay, history, After[N])
  <2>1. N \in T
    BY <1>0, <1>4
  <2> QED  BY <2>1 DEF T
<1> DEFINE out == After[N].out
<1> DEFINE p == Positions(N, Making(items))
<1> DEFINE mean == Meaning(items, N, replay)
<1>6. /\ out \in Seq(Msg) /\ Len(out) = Len(history) + Len(p)
      /\ \A k \in 1 .. Len(history) : out[k] = history[k]
      /\ \A k \in 1 .. Len(p) : out[Len(history) + k] = MessageOf(items, N, p[k], replay)
  BY <1>5 DEF Keeps, MadeSoFar
<1>7. p \in Seq(Nat) /\ Len(p) \in Nat
  <2> DEFINE S == Making(items)
  <2> HIDE DEF S
  <2>1. Positions(N, S) \in Seq(Nat)
    BY PositionsIs
  <2>2. p \in Seq(Nat)
    BY <2>1 DEF S
  <2> HIDE DEF p
  <2> QED  BY <2>2
<1>8. mean = [k \in 1 .. Len(p) |-> MessageOf(items, N, p[k], replay)]
  BY DEF Meaning
<1> HIDE DEF out, p, mean
<1>9. \A k \in 1 .. Len(p) : MessageOf(items, N, p[k], replay) \in Msg
  <2> TAKE k \in 1 .. Len(p)
  <2>1. Len(history) + k \in 1 .. Len(out)
    BY <1>6, <1>7
  <2> QED  BY <1>6, <2>1
<1>10. mean \in Seq(Msg) /\ Len(mean) = Len(p)
  BY <1>7, <1>8, <1>9
<1>11. \A k \in 1 .. Len(p) : mean[k] = out[Len(history) + k]
  BY <1>6, <1>8
<1> DEFINE both == history \o mean
<1>12. /\ both \in Seq(Msg) /\ Len(both) = Len(history) + Len(p)
       /\ \A k \in 1 .. Len(history) + Len(p) :
            both[k] = IF k <= Len(history) THEN history[k] ELSE mean[k - Len(history)]
  <2>1. history \in Seq(Msg) /\ mean \in Seq(Msg)
    BY <1>10
  <2>2. /\ both \in Seq(Msg) /\ Len(both) = Len(history) + Len(mean)
        /\ \A k \in 1 .. Len(history) + Len(mean) :
             both[k] = IF k <= Len(history) THEN history[k] ELSE mean[k - Len(history)]
    BY ONLY <2>1, ConcatProperties
  <2> HIDE DEF both
  <2> QED  BY <1>10, <2>2
<1> HIDE DEF both
<1>13. \A k \in 1 .. Len(out) : out[k] = both[k]
  <2> TAKE k \in 1 .. Len(out)
  <2>1. Len(history) \in Nat /\ k \in 1 .. Len(history) + Len(p)
    BY <1>6
  <2>2. CASE k <= Len(history)
    BY <1>6, <1>12, <2>1, <2>2
  <2>3. CASE k > Len(history)
    <3> DEFINE l == k - Len(history)
    <3>1. l \in 1 .. Len(p) /\ Len(history) + l = k /\ ~(k <= Len(history))
      BY <1>7, <2>1, <2>3
    <3>2. both[k] = mean[l]
      BY <1>12, <2>1, <3>1
    <3> HIDE DEF l
    <3> QED  BY <1>11, <3>1, <3>2
  <2> QED  BY <2>1, <2>2, <2>3
<1>14. out = both
  BY <1>6, <1>12, <1>13, SeqEqual
<1> QED
  BY <1>1, <1>14 DEF out, both, mean

-----------------------------------------------------------------------------
(* However many tools a request declares, in whatever order: when it is not *)
(* refused, no two of them have one name upstream, so that a call comes back *)
(* to the client under the name of the tool it has declared, and choosing a *)
(* tool offers the upstream that tool alone (parseResponseTools).           *)
THEOREM ToolsRestored == Spec => []ToolsComeBack
<1>1. ToolsComeBack
  <2> SUFFICES ASSUME NEW tools \in ToolLists, parseResponseTools(tools).ok
               PROVE  LET parsed == parseResponseTools(tools)
                          known  == {t \in ToSet(tools) : t.type # "web_search"}
                      IN /\ parsed.out = known
                         /\ \A t \in known :
                              /\ Restored(known, upstreamToolName(t.name, t.nameSpace)) = t
                              /\ Offered(parsed.out, "tool", t) = {t}
    BY DEF ToolsComeBack
  <2> DEFINE known == {t \in ToSet(tools) : t.type # "web_search"}
  <2>1. PICK N \in Nat : tools \in [1 .. N -> Tools]
    <3>1. PICK n \in 0 .. MaxTools : tools \in [1 .. n -> Tools]
      BY DEF ToolLists
    <3>2. n \in Nat
      BY InputAssumption
    <3> QED  BY <3>1, <3>2
  <2>2. /\ parseResponseTools(tools).out = known
        /\ \A t, u \in known :
             upstreamToolName(t.name, t.nameSpace) = upstreamToolName(u.name, u.nameSpace)
               => t = u
    BY <2>1, ToolsApart
  <2> HIDE DEF known
  <2>3. ASSUME NEW t \in known
        PROVE  /\ Restored(known, upstreamToolName(t.name, t.nameSpace)) = t
               /\ Offered(parseResponseTools(tools).out, "tool", t) = {t}
    <3> HIDE DEF upstreamToolName
    <3>1. Restored(known, upstreamToolName(t.name, t.nameSpace)) = t
      BY <2>2 DEF Restored
    <3>2. Offered(known, "tool", t) = {t}
      BY <2>2 DEF Offered
    <3> QED  BY <2>2, <3>1, <3>2
  <2> QED  BY <2>2, <2>3 DEF known
<1> QED
  BY <1>1, PTL

(* Whatever the items of a request are, in whatever number and order: each  *)
(* call is carried by the message of the turn it was made in, reasoning     *)
(* stands before the answer that followed it, and every item that makes a   *)
(* message has made one, in order, after those of the session               *)
(* (normalizeInput).                                                        *)
THEOREM TurnsAreKept == Spec => []InputKeepsTurns
<1>1. InputKeepsTurns
  <2>1. SUFFICES ASSUME NEW items \in Inputs, NEW replay \in BOOLEAN
                 PROVE  normalizeInput(History, items, replay)
                          = History \o Meaning(items, Len(items), replay)
    BY DEF InputKeepsTurns
  <2>2. PICK N \in 0 .. MaxItems : items \in [1 .. N -> ItemKind]
    BY DEF Inputs
  <2>3. Len(items) = N
    BY <2>2, InputAssumption
  <2>4. History \in Seq(Msg)
    <3>1. <<>> \in Seq(Nat) /\ "assistant" \in Role /\ 0 \in Nat
      BY DEF Role
    <3>2. Message("assistant", 0, <<>>, <<>>) \in Msg
      BY ONLY <3>1, MessageIs
    <3> HIDE DEF Msg, Message
    <3> QED  BY <3>2 DEF History
  <2> HIDE DEF History, Msg
  <2>5. normalizeInput(History, items, replay) = History \o Meaning(items, N, replay)
    BY <2>2, <2>4, InputMeans
  <2> QED  BY <2>3, <2>5
<1> QED
  BY <1>1, PTL

=============================================================================
