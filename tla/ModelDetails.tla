----------------------------- MODULE ModelDetails -----------------------------
(***************************************************************************)
(* What the catalog worker of Trae Relay makes of the upstream's answers   *)
(* (ModelCatalog::refreshOnce): two lists of entries, each with the details *)
(* of one or more profiles of a model, become one list of models with their *)
(* capabilities and prices.                                                *)
(*                                                                         *)
(* An object of the upstream's JSON is a record that has the fields the     *)
(* upstream sent.  Names are compared without regard to case in the code;   *)
(* here they are in lower case.  Output limits, provider and preset flags   *)
(* are parsed and merged like the default window and are left out, as are   *)
(* display names and the percentage the price view shows.  When rounds run, *)
(* and for whom, is ModelCatalog's.  Lists whose order nothing here depends *)
(* on are sets: the models, and a model's levels and windows.               *)
(***************************************************************************)
EXTENDS Integers, SequencesExt, FiniteSets

CONSTANTS
  Lists,     \* lists the upstream may answer with: sequences of entries
  Internal,  \* names isInternalModelName knows
  MaxName,   \* names of models that end in "__max"
  DevName,   \* names of models that have "__dev" in them
  Day, Minute, \* days and minutes the prices are looked at
  Fails      \* no answer, no JSON, or no list in it

Function == {"chat_v3", "solo_agent"}

Has(m, k)      == k \in DOMAIN m
Get(m, k, def) == IF Has(m, k) THEN m[k] ELSE def
Flag(m, k)     == Get(m, k, FALSE)
Positive(m, k, def) == IF Get(m, k, 0) > 0 THEN m[k] ELSE def

(* The types of the fields that are looked into: an entry, or one of its    *)
(* details.                                                                 *)
Price == {"base", "member", "now", "before", "memberNow"}
IsContact(d) ==
  /\ \A k \in Price : Has(d, k) => d[k] \in Int
  /\ Has(d, "windows") => \A w \in d.windows : w.start \in Int /\ w.end \in Int
IsObject(m) ==
  /\ \A k \in {"hidden", "custom", "max", "dollarMax", "displayMax", "vision", "featuresVision"} :
       Has(m, k) => m[k] \in BOOLEAN
  /\ Has(m, "contact") => IsContact(m.contact)
  /\ Has(m, "effort") => m.effort.support \in BOOLEAN /\ m.effort.options \in Seq(STRING)

ASSUME DetailsAssumption ==
  /\ \A a \in Lists : /\ a \in Seq(ToSet(a))
                      /\ \A e \in ToSet(a) :
                           /\ IsObject(e) /\ e.details \in Seq(ToSet(e.details))
                           /\ \A d \in ToSet(e.details) : IsObject(d)
  /\ Minute \subseteq Int

VARIABLES
  stage,    \* what the round does next
  lists,    \* the answers of the round
  profiles, \* merged: the models so far
  visible,  \* primaryVisibleNames
  allOk,    \* allCatalogsOk
  catalog,  \* m_cache
  from      \* the answers it was made of

detailVars == <<stage, lists, profiles, visible, allOk, catalog, from>>

-----------------------------------------------------------------------------
(* capsFromModelJson: what an object says replaces what was known before.   *)
Blank ==
  [config |-> "", model |-> "", source |-> 1, max |-> FALSE,
   window |-> 200, maxWindows |-> {}, thinking |-> FALSE, options |-> {},
   ext |-> {}, default |-> "", vision |-> FALSE, function |-> "", maxModel |-> "",
   rates |-> [base |-> 0, member |-> 0, now |-> 0, before |-> 0, memberNow |-> 0,
              kind |-> "", windows |-> {}]]

ParsedModel(m, c) ==
  Get(m, "model", IF c.model = "" THEN Get(m, "config", c.config) ELSE c.model)

ParsedMax(m, c) == Get(m, "max", c.max) \/ Flag(m, "dollarMax") \/ Flag(m, "displayMax")

(* display_contact_config.  A price of zero is no price; a window that does *)
(* not end after it starts is none.                                         *)
ParsedRates(m, r) ==
  LET d == Get(m, "contact", [k \in {} |-> 0]) IN
  [base      |-> Positive(d, "base", r.base),
   member    |-> Positive(d, "member", r.member),
   now       |-> Positive(d, "now", r.now),
   before    |-> Positive(d, "before", r.before),
   memberNow |-> Positive(d, "memberNow", r.memberNow),
   kind      |-> IF Get(d, "now", 0) > 0 THEN Get(d, "kind", r.kind) ELSE r.kind,
   windows   |-> r.windows \cup {w \in Get(d, "windows", {}) : w.end > w.start}]

(* context_window_size, then context_window_tokens, then features.          *)
ParsedWindow(m, c) ==
  Get(m, "featuresDev", Positive(m, "tokensDev", Get(m, "sizeDefault", c.window)))

ParsedMaxWindows(m, c) ==
  LET sized  == Get(m, "sizeMax", c.maxWindows)
      tokens == IF sized = {} /\ Get(m, "tokensMax", 0) > 0 THEN {m.tokensMax} ELSE sized
      one    == IF tokens = {} /\ Get(m, "featuresMax", 0) # 0 THEN {m.featuresMax} ELSE tokens
      list   == Get(m, "featuresList", {})
  IN IF list # {} THEN list ELSE one

(* reasoning_effort_config counts as a whole or not at all: one level that  *)
(* is empty or is listed twice spoils it.                                   *)
Options(m) ==
  IF /\ Has(m, "effort") /\ m.effort.support /\ "" \notin ToSet(m.effort.options)
     /\ Cardinality(ToSet(m.effort.options)) = Len(m.effort.options)
    THEN m.effort.options ELSE <<>>

ParsedOptions(m, c) == IF Options(m) = <<>> THEN c.options ELSE ToSet(Options(m))
ParsedExt(m, c)     == c.ext \cup (Get(m, "ext", {}) \ {""})
Extends(m, c)       == Has(m, "ext") /\ ParsedExt(m, c) # {}

ParsedDefault(m, c) ==
  LET own == Options(m) IN
  CASE Extends(m, c) /\ Get(m, "extDefault", "") # ""   -> m.extDefault
    [] OTHER -> IF own = <<>> THEN c.default
                ELSE IF m.effort.level \in ToSet(own) THEN m.effort.level ELSE Head(own)

(* detectVision, on the object and its features: without a signal the model *)
(* is taken to see.                                                         *)
ParsedVision(m) ==
  \/ ~Has(m, "vision") /\ ~Has(m, "featuresVision")
  \/ Flag(m, "vision") \/ Flag(m, "featuresVision")

Parsed(m, c) ==
  [config     |-> Get(m, "config", c.config),
   model      |-> ParsedModel(m, c),
   source     |-> Get(m, "source", c.source),
   max        |-> ParsedMax(m, c),
   window     |-> ParsedWindow(m, c),
   maxWindows |-> ParsedMaxWindows(m, c),
   thinking   |-> c.thinking \/ Options(m) # <<>> \/ Extends(m, c),
   options    |-> ParsedOptions(m, c),
   ext        |-> ParsedExt(m, c),
   default    |-> ParsedDefault(m, c),
   vision     |-> ParsedVision(m),
   function   |-> c.function,
   maxModel   |-> c.maxModel,
   rates      |-> ParsedRates(m, c.rates)]

-----------------------------------------------------------------------------
First(x, y)  == IF x = "" THEN y ELSE x
Merge0(x, y) == IF x = 0 THEN y ELSE x
Larger(x, y) == IF y > x THEN y ELSE x

MergedRates(dst, src) ==
  [base      |-> Merge0(dst.base, src.base),
   member    |-> Merge0(dst.member, src.member),
   now       |-> Merge0(dst.now, src.now),
   before    |-> Merge0(dst.before, src.before),
   memberNow |-> Merge0(dst.memberNow, src.memberNow),
   kind      |-> First(dst.kind, src.kind),
   windows   |-> IF dst.windows = {} THEN src.windows ELSE dst.windows]

\* Mutant of MergedMax: the first profile decides.
MergedFirst(dst, src) == dst.max

MergedMax(dst, src) == dst.max \/ src.max

(* mergeCaps: two profiles of one model, "not to lose the Max mark that is  *)
(* in one of them only".                                                    *)
mergeCaps(dst, src) ==
  [config     |-> dst.config,
   model      |-> IF src.model \in DevName THEN src.model ELSE First(dst.model, src.model),
   source     |-> dst.source,
   max        |-> MergedMax(dst, src),
   window     |-> Larger(dst.window, src.window),
   maxWindows |-> dst.maxWindows \cup src.maxWindows,
   thinking   |-> dst.thinking \/ src.thinking,
   options    |-> dst.options \cup src.options,
   ext        |-> dst.ext \cup src.ext,
   default    |-> First(dst.default, src.default),
   vision     |-> dst.vision \/ src.vision,
   function   |-> First(dst.function, src.function),
   maxModel   |-> First(dst.maxModel, src.maxModel),
   rates      |-> MergedRates(dst.rates, src.rates)]

(* One profile of a model: the entry's fields, then those of the detail.    *)
(* Without a sign of its own the profile has the Max mark of its entry.     *)
OfEntry(e) == [Parsed(e, [Blank EXCEPT !.config = e.config]) EXCEPT !.config = e.config]
IsMaxDetail(d) == Has(d, "model") /\ (Flag(d, "max") \/ d.model \in MaxName)
Profile(f, e, d) ==
  [Parsed(d, OfEntry(e)) EXCEPT
    !.function = Get(d, "function", f),
    !.max      = @ \/ Flag(e, "max") \/ Flag(e, "displayMax"),
    !.maxModel = IF IsMaxDetail(d) THEN d.model ELSE @]

Shown(e)   == ~Flag(e, "hidden") /\ ~Flag(e, "custom") /\ e.config # ""
Builtin(c) == c.config \notin Internal \cup {""} /\ c.source = 1

(* The models with one more profile.                                        *)
Merged(models, c) ==
  CASE ~Builtin(c) -> models
    [] Builtin(c) /\ (\E x \in models : x.config = c.config) ->
         {IF x.config = c.config THEN mergeCaps(x, c) ELSE x : x \in models}
    [] OTHER -> models \cup {c}

(* loadDetailCatalog: one list, entry by entry and detail by detail.        *)
ReadEntry(f, e, models) ==
  LET After[n \in 0 .. Len(e.details)] ==
        IF n = 0 THEN models ELSE Merged(After[n - 1], Profile(f, e, e.details[n]))
  IN After[Len(e.details)]
Read(f, list, models) ==
  LET After[n \in 0 .. Len(list)] ==
        IF n = 0 THEN models
        ELSE IF Shown(list[n]) THEN ReadEntry(f, list[n], After[n - 1]) ELSE After[n - 1]
  IN After[Len(list)]
Visible(list) ==
  {e.config : e \in {x \in ToSet(list) : Shown(x) /\ Get(x, "source", 1) = 1}} \ Internal

NoLists == [f \in Function |-> <<>>]

DetailsInit ==
  /\ stage = "idle" /\ lists = NoLists
  /\ profiles = {} /\ visible = {} /\ allOk = TRUE
  /\ catalog = {} /\ from = NoLists

Start ==
  /\ stage = "idle" /\ stage' = "chat_v3"
  /\ profiles' = {} /\ visible' = {} /\ allOk' = TRUE
  /\ lists' = NoLists
  /\ UNCHANGED <<catalog, from>>

loadDetailCatalog(f) ==
  /\ stage = f
  /\ \E a \in Lists \cup {Fails} :
       IF a = Fails
         THEN allOk' = FALSE /\ UNCHANGED <<lists, profiles, visible>>
         ELSE /\ lists' = [lists EXCEPT ![f] = a]
              /\ profiles' = Read(f, a, profiles)
              /\ visible' = visible \cup Visible(a)
              /\ UNCHANGED allOk
  /\ stage' = IF f = "chat_v3" THEN "solo_agent" ELSE "publish"
  /\ UNCHANGED <<catalog, from>>

(* Both lists or none; no filter if no name is visible.                     *)
Published == {c \in profiles : visible = {} \/ c.config \in visible}

Publish ==
  /\ stage = "publish" /\ stage' = "idle"
  /\ IF allOk /\ Published # {} THEN catalog' = Published /\ from' = lists
                                ELSE UNCHANGED <<catalog, from>>
  /\ lists' = NoLists /\ profiles' = {} /\ visible' = {} /\ allOk' = TRUE

DetailsNext == Start \/ (\E f \in Function : loadDetailCatalog(f)) \/ Publish

DetailsSpec == DetailsInit /\ [][DetailsNext]_detailVars

-----------------------------------------------------------------------------
(* modelRateView: what the model costs an account now.  day and minute are  *)
(* those of Beijing; no day in a window means every day.                    *)

\* Mutant of InWindow: the end belongs to the window.
InWindowClosed(w, day, minute) ==
  (w.days = {} \/ day \in w.days) /\ w.start <= minute /\ minute <= w.end

InWindow(w, day, minute) ==
  (w.days = {} \/ day \in w.days) /\ w.start <= minute /\ minute < w.end

Activity(r, member, day, minute) ==
  IF r.now = 0 THEN 0
  ELSE IF r.windows # {} \/ r.kind = "off_peak"
    THEN IF member THEN IF r.memberNow > 0 THEN r.memberNow ELSE r.now
         ELSE IF \E w \in r.windows : InWindow(w, day, minute) THEN r.now ELSE 0
    ELSE IF member /\ r.memberNow > 0 /\ r.memberNow < r.now THEN r.memberNow ELSE r.now

Lower(price, other) == IF other > 0 /\ (price <= 0 \/ other < price) THEN other ELSE price

modelRateView(r, member, day, minute) ==
  LET original == IF r.before > 0 THEN r.before ELSE r.base
      activity == Lower(original, Activity(r, member, day, minute))
  IN IF member THEN Lower(activity, r.member) ELSE activity

-----------------------------------------------------------------------------
\* The entries and details a published model was made of.
PairsOf(list) ==
  UNION {{<<e, d>> : d \in ToSet(e.details)} : e \in {x \in ToSet(list) : Shown(x)}}
Pairs(ls)   == PairsOf(ls["chat_v3"]) \cup PairsOf(ls["solo_agent"])
NameOf(p)   == Get(p[2], "config", p[1].config)
SourceOf(p) == Get(p[2], "source", Get(p[1], "source", 1))
Of(P, name) == {p \in P : NameOf(p) = name /\ SourceOf(p) = 1}

(* A sign of Max in the detail, or the mark the entry gives to all of its    *)
(* details (parentMax); and any sign at all.  The two differ for an entry    *)
(* that has no sign but is_dollar_max.                                       *)
MaxSigns      == {"max", "dollarMax", "displayMax"}
SaysMax(e, d) ==
  \/ \E k \in MaxSigns : Flag(d, k)
  \/ Flag(e, "max") \/ Flag(e, "displayMax")
  \/ Flag(e, "dollarMax") /\ MaxSigns \cap DOMAIN d = {}
MayMax(e, d)  == \E k \in MaxSigns : Flag(d, k) \/ Flag(e, k)

Offers(e, d) == ToSet(IF Options(d) = <<>> THEN Options(e) ELSE Options(d))

(* What an object says of images.  Of an entry and its detail, merged as two *)
(* layers, the detail decides, then the entry; a model without any sign is   *)
(* taken to see.                                                             *)
Signs(m)   == {"vision", "featuresVision"} \cap DOMAIN m
Takes(m)   == \E k \in Signs(m) : m[k]
Refuses(m) == Signs(m) # {} /\ ~Takes(m)
Sees(e, d) == Takes(d) \/ (Signs(d) = {} /\ ~Refuses(e))

\* What a model can do is what one of the profiles in S can.
MaxIsUnion(c, S) ==
  /\ (\E p \in S : SaysMax(p[1], p[2])) => c.max
  /\ c.max => \E p \in S : MayMax(p[1], p[2])
NamesAreUnion(c, S) ==
  LET MaxModels == {p[2].model : p \in {x \in S : IsMaxDetail(x[2])}}
  IN \/ c.maxModel \in MaxModels
     \/ MaxModels = {} /\ c.maxModel = ""
LevelsAreUnion(c, S) ==
  /\ c.options = UNION {Offers(p[1], p[2]) : p \in S}
  /\ c.ext = {} => c.default \in c.options \cup {""}
SightIsUnion(c, S) ==
  /\ (\E p \in S : Sees(p[1], p[2])) => c.vision
  /\ (\A p \in S : Refuses(p[2]) /\ ~Takes(p[1])) => ~c.vision
IsUnion(c, S) ==
  MaxIsUnion(c, S) /\ NamesAreUnion(c, S) /\ LevelsAreUnion(c, S) /\ SightIsUnion(c, S)

(* A published model can do what one of its profiles can, in whichever list *)
(* and order they came: the Max mark, the Max model, the effort levels and  *)
(* images are those of the union of its profiles, and no internal, hidden   *)
(* or custom model is published, nor one twice.  It has no Max without a    *)
(* sign, and takes no images where every detail refuses them and no entry   *)
(* says otherwise; what an entry refuses is SightIsMerged.                  *)
CapabilitiesAreUnion ==
  /\ \A c, k \in catalog : c.config = k.config => c = k
  /\ \A c \in catalog : LET S == Of(Pairs(from), c.config) IN
       S # {} /\ c.config \notin Internal /\ IsUnion(c, S)

(* The prices an account may have now: a member those of members at all     *)
(* times, others an off-peak price inside its windows only.                 *)
Prices(r, member, day, minute) ==
  LET offPeak == r.windows # {} \/ r.kind = "off_peak"
      open    == \E w \in r.windows :
                   minute \in w.start .. w.end - 1 /\ (w.days = {} \/ day \in w.days)
  IN {IF r.before > 0 THEN r.before ELSE r.base}
     \cup (IF offPeak /\ ~member /\ ~open THEN {} ELSE
           IF offPeak /\ member /\ r.memberNow > 0 THEN {} ELSE {r.now})
     \cup (IF member /\ r.now > 0 THEN {r.memberNow} ELSE {})
     \cup (IF member THEN {r.member} ELSE {})

(* The price that is shown is the lowest an account may have now (comment   *)
(* of RateView), at the limits of a window too; no price at all is shown as *)
(* zero, and a price the upstream did not give never is one.                *)
PriceOfNow ==
  \A c \in catalog, member \in BOOLEAN, day \in Day, minute \in Minute :
    LET P == Prices(c.rates, member, day, minute) \ {0}
        p == modelRateView(c.rates, member, day, minute)
    IN IF P = {} THEN p = 0 ELSE p \in P /\ \A q \in P : p <= q

(* A model that is published as taking images is one of which a detail says *)
(* so, or the entry does not refuse where the detail is silent: the common   *)
(* capabilities stand in the entry, the parameters of a profile in the       *)
(* detail, and the two layers are merged (comment at ModelCatalog.cpp:462).  *)
SightIsMerged ==
  \A c \in catalog : c.vision => \E p \in Of(Pairs(from), c.config) : Sees(p[1], p[2])

(* The window is told the truth about a model: what it can do (mergeCaps)   *)
(* and what it costs this account now (modelRateView).                      *)
DetailsAreTrue == CapabilitiesAreUnion /\ PriceOfNow

=============================================================================
