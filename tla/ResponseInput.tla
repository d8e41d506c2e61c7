---------------------------- MODULE ResponseInput ----------------------------
(***************************************************************************)
(* How /v1/responses of Trae Relay turns the items of a request into chat  *)
(* messages (normalizeInput).                                              *)
(*                                                                         *)
(* An item is its kind; what it carries is named by its position.  A        *)
(* message records the item that made it, the items of reasoning put in    *)
(* front of its text, and the items of tool calls it carries.               *)
(*                                                                         *)
(* And which tools of the request are offered to the upstream, under which *)
(* names (parseResponseTools, tool_choice).                                *)
(***************************************************************************)
EXTENDS Naturals, Sequences

CONSTANTS
  MaxItems,  \* bound: items of an input
  MaxTools   \* bound: tools of a request

ASSUME InputAssumption == MaxItems \in Nat /\ MaxTools \in Nat

UserItem      == {"string", "user"}
NoText        == {"emptyUser"}            \* a user message without content
AssistantItem == {"assistant", "emptyAssistant", "imageAssistant"}
CallItem      == {"call", "namelessCall"} \* function_call, custom_tool_call, ...
ReasoningItem == {"reasoning", "emptyReasoning"}
ItemKind == UserItem \cup NoText \cup AssistantItem \cup CallItem \cup ReasoningItem
              \cup {"output", "other"}
Inputs == UNION {[1 .. n -> ItemKind] : n \in 0 .. MaxItems}

Message(role, i, think, calls) == [role |-> role, of |-> i, think |-> think, calls |-> calls]

(* out: the messages so far; pending: reasoning not attached to a message   *)
(* yet (pendingReason); adjacent: the last item was one of the assistant's  *)
(* (adjacentAssistant).                                                     *)
InputState(out, pending, adjacent) ==
  [out |-> out, pending |-> pending, adjacent |-> adjacent]

PushMessage(st, i, role) == [st EXCEPT !.out = Append(@, Message(role, i, <<>>, <<>>))]

PushUser(st, i, kind) ==
  LET kept == IF kind = "emptyUser" THEN st
              ELSE PushMessage(st, i, IF kind = "output" THEN "tool" ELSE "user")
  IN InputState(kept.out, <<>>, FALSE)

(* A message of images alone has no text that reasoning could go in front  *)
(* of.                                                                      *)
PushAssistant(st, i, kind) ==
  LET think == IF kind = "imageAssistant" THEN <<>> ELSE st.pending
  IN InputState(Append(st.out, Message("assistant", i, think, <<>>)), <<>>, TRUE)

\* Mutant of OpensTurn: a call joins whatever assistant message is last.
OpensTurnLast(st) ==
  Len(st.out) = 0 \/ st.out[Len(st.out)].role # "assistant"

(* A call opens a turn of the assistant unless it follows one.              *)
OpensTurn(st) ==
  ~st.adjacent \/ Len(st.out) = 0 \/ st.out[Len(st.out)].role # "assistant"

PushCall(st, i, kind) ==
  LET out == IF OpensTurn(st)
               THEN Append(st.out, Message("assistant", i, st.pending, <<>>))
               ELSE st.out
      n == Len(out)
  IN InputState(IF kind = "call" THEN [out EXCEPT ![n].calls = Append(@, i)] ELSE out,
                <<>>, TRUE)

PushReasoning(st, i, kind, replay) ==
  InputState(st.out,
             IF replay /\ kind = "reasoning" THEN Append(st.pending, i) ELSE st.pending,
             FALSE)

pushItem(st, i, kind, replay) ==
  CASE kind \in AssistantItem -> PushAssistant(st, i, kind)
    [] kind \in CallItem      -> PushCall(st, i, kind)
    [] kind \in ReasoningItem -> PushReasoning(st, i, kind, replay)
    [] OTHER                  -> PushUser(st, i, kind)

(* The messages of a request: those of the session it continues, then what *)
(* its items make.                                                          *)
normalizeInput(history, items, replay) ==
  LET After[n \in 0 .. Len(items)] ==
        IF n = 0 THEN InputState(history, <<>>, FALSE)
                 ELSE pushItem(After[n - 1], n, items[n], replay)
  IN After[Len(items)].out

-----------------------------------------------------------------------------
(* What the items mean, item by item and without a state.                  *)
Assistants(kind) == kind \in AssistantItem \cup CallItem

(* The item that opened the turn a call belongs to: the nearest message of  *)
(* the assistant, or the first of the calls in a row.                       *)
Opens(items, j) ==
  \/ items[j] \in AssistantItem
  \/ items[j] \in CallItem /\ (j = 1 \/ ~Assistants(items[j - 1]))
Turn(items, i) ==
  CHOOSE j \in 1 .. i :
    Opens(items, j) /\ \A k \in j + 1 .. i : ~Opens(items, k)

(* Those of the positions 1 to n that are in S, in order.                   *)
Positions(n, S) ==
  LET To[m \in 0 .. MaxItems] ==
        IF m = 0 THEN <<>> ELSE IF m \in S THEN Append(To[m - 1], m) ELSE To[m - 1]
  IN To[n]

(* The reasoning that ends at item n, with nothing else in between.         *)
Reasoning(items, n) ==
  Positions(n, {i \in 1 .. n :
    items[i] = "reasoning" /\ \A k \in i .. n : items[k] \in ReasoningItem})

Calls(items, j) == {i \in DOMAIN items : items[i] = "call" /\ Turn(items, i) = j}

(* The message of item j, as far as the first n items make it.              *)
MessageOf(items, n, j, replay) ==
  IF Opens(items, j)
    THEN Message("assistant", j,
           IF replay /\ items[j] # "imageAssistant" THEN Reasoning(items, j - 1) ELSE <<>>,
           Positions(n, Calls(items, j)))
    ELSE Message(IF items[j] = "output" THEN "tool" ELSE "user", j, <<>>, <<>>)

Making(items) ==
  {j \in DOMAIN items : Opens(items, j) \/ items[j] \in UserItem \cup {"output", "other"}}

Meaning(items, n, replay) ==
  LET making == Positions(n, Making(items))
  IN [k \in 1 .. Len(making) |-> MessageOf(items, n, making[k], replay)]
-----------------------------------------------------------------------------
(***************************************************************************)
(* Tools.  A tool has a name, the namespace it is declared in ("" for      *)
(* none), and a type; "grammar" is a custom tool whose input has a grammar. *)
(***************************************************************************)
ToolType == {"function", "custom", "grammar", "web_search"}
Tools == [name : {"", "read.file", "read_file"}, nameSpace : {"", "fs"}, type : ToolType]
ToolLists == UNION {[1 .. n -> Tools] : n \in 0 .. MaxTools}

(* sanitizeToolName: characters the upstream does not take become "_", so   *)
(* that different names can become the same.                                *)
sanitizeToolName(name) == IF name = "read.file" THEN "read_file" ELSE name

(* The name the upstream knows a tool by; a hash keeps those in a namespace *)
(* apart.                                                                   *)
upstreamToolName(name, ns) ==
  IF ns = "" THEN <<sanitizeToolName(name)>> ELSE <<ns, name>>

UpstreamNames(out) == {upstreamToolName(t.name, t.nameSpace) : t \in out}

\* Mutant of Refused: two tools may have the same name upstream.
RefusedNameless(out, t) == t.name = "" \/ t.type = "grammar"

Refused(out, t) ==
  \/ t.name = "" \/ t.type = "grammar"
  \/ upstreamToolName(t.name, t.nameSpace) \in UpstreamNames(out)

declareTool(st, t) ==
  IF ~st.ok \/ t.type = "web_search" THEN st
  ELSE IF Refused(st.out, t) THEN [st EXCEPT !.ok = FALSE]
  ELSE [st EXCEPT !.out = @ \cup {t}]

(* The tools that are declared, or an error.                                *)
parseResponseTools(tools) ==
  LET After[n \in 0 .. Len(tools)] ==
        IF n = 0 THEN [ok |-> TRUE, out |-> {}] ELSE declareTool(After[n - 1], tools[n])
  IN After[Len(tools)]

(* tool_choice: "none", a tool by its name, or any.                         *)
Offered(out, choice, chosen) ==
  CASE choice = "none" -> {}
    [] choice = "tool" -> {t \in out : upstreamToolName(t.name, t.nameSpace)
                                        = upstreamToolName(chosen.name, chosen.nameSpace)}
    [] OTHER -> out

(* toolSpecs: what the client calls the tool the upstream calls by name.    *)
Restored(out, name) == CHOOSE t \in out : upstreamToolName(t.name, t.nameSpace) = name
=============================================================================
