---------------------------- MODULE RequestSettings ----------------------------
(***************************************************************************)
(* The settings a chat request of Trae Relay is sent upstream with (Facade, *)
(* Upstream): which model its name means, which effort level, window and    *)
(* tools the upstream is asked for, and whether the model is disabled.      *)
(*                                                                         *)
(* The user's settings are an immutable snapshot behind a shared pointer    *)
(* that the window replaces while requests run.  The handler asks for it    *)
(* three times, and once keeps no hold on what it was given: when the       *)
(* window replaces the snapshot then, the handler reads freed memory.       *)
(*                                                                         *)
(* Names are in lower case.  The model list is what ModelDetails publishes. *)
(* /v1/responses resolves in the same way and does not ask whether the      *)
(* model is disabled.                                                      *)
(***************************************************************************)
EXTENDS Integers, SequencesExt, FiniteSets

CONSTANTS
  Models,    \* the models of the account, in the catalog's order
  NamePart,  \* pairs of a name and a display name it is part of
  Settings,  \* CoreSettings the user may choose
  Wish,      \* what clients ask for
  MaxApply,  \* bound on the changes of the settings
  None

(* What the catalog publishes of a model; an effort level is never empty    *)
(* (capsFromModelJson).                                                     *)
Level == STRING \ {""}
ModelCaps ==
  [config : STRING, display : STRING, model : STRING, maxModel : STRING, max : BOOLEAN,
   window : Int, maxWindows : Seq(Int), thinking : BOOLEAN,
   options : Seq(Level), ext : Seq(Level), default : STRING]

ASSUME SettingsAssumption ==
  /\ Models \in Seq(ModelCaps) /\ None \notin ModelCaps \cup BOOLEAN
  /\ MaxApply \in Nat

VARIABLES
  settings, \* g_snap
  applied,  \* how often it was replaced
  at,       \* where the handler is
  wish,     \* the client's request
  held,     \* the snapshot resolveSettings holds
  caps,     \* the model that was found
  rs,       \* ResolvedSettings
  looked,   \* the snapshot mc points into, which is not held
  body      \* what is sent upstream, or None

settingVars == <<settings, applied, at, wish, held, caps, rs, looked, body>>

SettingsInit ==
  /\ settings \in Settings /\ applied = 0
  /\ at = "idle" /\ wish = None /\ held = None /\ caps = None /\ rs = None
  /\ looked = None /\ body = None

(* settings::set, by the pages of the window.                               *)
set ==
  /\ applied < MaxApply
  /\ \E s \in Settings \ {settings} : settings' = s
  /\ applied' = applied + 1
  /\ UNCHANGED <<at, wish, held, caps, rs, looked, body>>

-----------------------------------------------------------------------------
(* CoreSettings::modelConfig: the first override with the name or an alias. *)
modelConfig(s, name) ==
  LET n == SelectInSeq(s.models, LAMBDA m : m.name = name \/ name \in m.alias) IN
  IF n = 0 THEN None ELSE s.models[n]

(* ModelCatalog::get: the name itself, or else a part of a display name.    *)
get(name) ==
  LET n == SelectInSeq(Models, LAMBDA c : c.config = name)
      k == SelectInSeq(Models, LAMBDA c : <<name, c.display>> \in NamePart)
  IN IF n > 0 THEN Models[n] ELSE IF k > 0 THEN Models[k] ELSE None

AskFor ==
  /\ at = "idle" /\ at' = "resolve"
  /\ wish' \in Wish
  /\ UNCHANGED <<settings, applied, held, caps, rs, looked, body>>

(* resolveSettings takes a snapshot, and resolveConfigName one of its own.  *)
TakeSettings ==
  /\ at = "resolve" /\ at' = "name"
  /\ held' = settings
  /\ UNCHANGED <<settings, applied, wish, caps, rs, looked, body>>

resolveConfigName ==
  /\ at = "name"
  /\ LET mc   == modelConfig(settings, wish.model)
         want == IF mc = None THEN wish.model ELSE mc.name
     IN IF get(want) = None
          THEN at' = "refused" /\ UNCHANGED caps
          ELSE at' = "settings" /\ caps' = get(want)
  /\ UNCHANGED <<settings, applied, wish, held, rs, looked, body>>

\* Mutant of clampEffort: a level the model does not offer goes through.
clampUnknown(c, want) == IF c.thinking THEN want ELSE ""

clampEffort(c, want) ==
  CASE ~c.thinking -> ""
    [] c.thinking /\ want = "" -> c.default
    [] OTHER -> IF want \in ToSet(c.options) \cup ToSet(c.ext) THEN want ELSE ""

(* clampMaxMode: the largest window that is small enough for the limit; but *)
(* the first window of the model is the one to beat, whether or not it is.  *)
Fitting(c, limit) ==
  {v \in ToSet(c.maxWindows) : v = Head(c.maxWindows) \/ (limit > 0 => v <= limit)}
Best(c, limit) == IF c.maxWindows = <<>> THEN 0 ELSE Max(Fitting(c, limit))

clampMaxMode(c, want, limit) ==
  IF want /\ c.max
    THEN [max |-> TRUE, window |-> IF Best(c, limit) > 0 THEN Best(c, limit) ELSE 1000]
    ELSE [max |-> FALSE, window |-> IF c.window > 0 THEN c.window ELSE 200]

(* The request comes before the model's settings, and these before the      *)
(* defaults.  A model without override, or one that no settings name, also  *)
(* takes Max from the defaults.                                             *)
resolveSettings ==
  /\ at = "settings"
  /\ at' = IF wish.api = "chat" THEN "look" ELSE "send"
  /\ LET mc     == modelConfig(held, caps.config)
         effort == IF wish.effort # "" THEN wish.effort
                   ELSE IF mc # None /\ mc.effort # "" THEN mc.effort ELSE held.effort
         own    == IF mc = None THEN held.max
                   ELSE IF ~mc.max /\ ~mc.present THEN held.max ELSE mc.max
         limit  == IF mc # None /\ mc.window # 0 THEN mc.window ELSE held.window
         m      == clampMaxMode(caps, IF wish.max = None THEN own ELSE wish.max, limit)
     IN rs' = [config |-> caps.config, effort |-> clampEffort(caps, effort),
               max |-> m.max, window |-> m.window]
  /\ UNCHANGED <<settings, applied, wish, held, caps, looked, body>>

(* const ModelConfig* mc = settings::get()->modelConfig(...)                *)
LookUp ==
  /\ at = "look" /\ at' = "enabled"
  /\ held' = None /\ looked' = [settings |-> settings, at |-> applied]
  /\ UNCHANGED <<settings, applied, wish, caps, rs, body>>

(* mc->present && !mc->enabled, of memory that is freed if the snapshot has *)
(* been replaced meanwhile: any answer then.                                *)
CheckEnabled ==
  /\ at = "enabled"
  /\ LET mc == modelConfig(looked.settings, caps.config) IN
     \E disabled \in IF mc # None /\ applied > looked.at THEN BOOLEAN
                     ELSE {mc # None /\ mc.present /\ ~mc.enabled} :
       at' = IF disabled THEN "refused" ELSE "send"
  /\ UNCHANGED <<settings, applied, wish, held, caps, rs, looked, body>>

-----------------------------------------------------------------------------
(* normalizeOpenAiTools, for both ways tools and a choice are written.  A   *)
(* choice that names no function keeps all tools; one that names a function *)
(* the request does not have keeps none.                                    *)
normalizeOpenAiTools(tools, choice) ==
  LET named == {t \in tools : t.type = "function" /\ t.name # ""} IN
  CASE choice.type = "none"                         -> {}
    [] choice.type = "function" /\ choice.name # "" -> {t \in named : t.name = choice.name}
    [] OTHER                                        -> named

(* upstreamSolo's body: a Max request names the Max model, if there is one, *)
(* and its window.                                                          *)
Send ==
  /\ at = "send" /\ at' = "sent"
  /\ body' =
       [config |-> rs.config,
        model  |-> LET m == IF rs.max /\ caps.maxModel # "" THEN caps.maxModel ELSE caps.model
                   IN IF m = "" THEN rs.config ELSE m,
        window |-> IF rs.max THEN rs.window ELSE 0,
        effort |-> rs.effort,
        tools  |-> normalizeOpenAiTools(wish.tools, wish.choice)]
  /\ held' = None
  /\ UNCHANGED <<settings, applied, wish, caps, rs, looked>>

Answered ==
  /\ at \in {"sent", "refused"} /\ at' = "idle"
  /\ wish' = None /\ held' = None /\ caps' = None /\ rs' = None /\ looked' = None /\ body' = None
  /\ UNCHANGED <<settings, applied>>

SettingsNext ==
  \/ set \/ AskFor \/ TakeSettings \/ resolveConfigName \/ resolveSettings
  \/ LookUp \/ CheckEnabled \/ Send \/ Answered

SettingsSpec == SettingsInit /\ [][SettingsNext]_settingVars

-----------------------------------------------------------------------------
(* The upstream is asked for what one model of the account offers, and for  *)
(* what the client wants of it, whatever the settings are and whenever they *)
(* are replaced: never a level, a window or a Max model the model does not  *)
(* have, and never another one than the client asked for if it is offered.  *)
SentIsOffered ==
  at = "sent" =>
    \E c \in ToSet(Models) :
      LET levels == ToSet(c.options) \cup ToSet(c.ext)
          chosen == {t.name : t \in body.tools}
          plain  == IF c.model = "" THEN c.config ELSE c.model
      IN /\ body.config = c.config
         /\ body.model \in IF body.window = 0 THEN {plain} ELSE {plain, c.maxModel}
         /\ body.effort \in levels \cup {c.default, ""}
         /\ c.thinking /\ wish.effort \in levels => body.effort = wish.effort
         /\ body.window # 0 => c.max /\ body.window \in ToSet(c.maxWindows) \cup {1000}
         /\ wish.max = TRUE /\ c.max => body.window # 0 /\ (c.maxModel # "" => body.model = c.maxModel)
         /\ wish.max = FALSE => body.window = 0
         /\ wish.choice.type = "none" => chosen = {}
         /\ wish.choice.type = "function" /\ wish.choice.name # "" => chosen \subseteq {wish.choice.name}

=============================================================================
