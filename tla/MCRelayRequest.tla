---------------------------- MODULE MCRelayRequest ----------------------------
(* A request, in two parts that share no variable of the models and are     *)
(* checked side by side: what it asks the upstream for (RequestSettings)     *)
(* and what it passes on of the answer (RelayRequest, whose step Prepare     *)
(* stands for the whole first part).  One part moves while the other has not *)
(* begun.                                                                    *)
(*                                                                         *)
(* The answer has texts of at most two letters an event, and two stop       *)
(* sequences, one of which begins inside the other.  The settings have two   *)
(* models, one with Max and effort levels, and four snapshots.              *)
EXTENDS RelayRequest, RequestSettings

Texts    == {<<"a">>, <<"b">>, <<"a", "b">>}
Forbidden == {<<"a", "b">>, <<"b", "b", "a">>}

OfA == [config |-> "a", display |-> "Model A", model |-> "a", maxModel |-> "a__max", max |-> TRUE,
        window |-> 200, maxWindows |-> <<400, 1000>>, thinking |-> TRUE,
        options |-> <<"low", "high">>, ext |-> <<>>, default |-> "low"]
OfB == [config |-> "b", display |-> "Model B", model |-> "", maxModel |-> "", max |-> FALSE,
        window |-> 0, maxWindows |-> <<>>, thinking |-> FALSE,
        options |-> <<>>, ext |-> <<>>, default |-> ""]

Override(name, alias, enabled, effort, max, window) ==
  [name |-> name, alias |-> alias, enabled |-> enabled, present |-> TRUE,
   effort |-> effort, max |-> max, window |-> window]
Chosen(models, effort, max, window) ==
  [models |-> models, effort |-> effort, max |-> max, window |-> window]

Snapshots ==
  {Chosen(<<>>, "", FALSE, 0), Chosen(<<>>, "extra_high", TRUE, 400),
   Chosen(<<Override("a", {"gpt"}, TRUE, "high", FALSE, 500)>>, "low", TRUE, 0),
   Chosen(<<Override("b", {"gpt"}, TRUE, "", TRUE, 0),
            Override("a", {}, FALSE, "", TRUE, 0)>>, "high", FALSE, 0)}

Tools == {[type |-> "function", name |-> "f"], [type |-> "function", name |-> ""],
          [type |-> "web_search", name |-> "g"], [type |-> "function", name |-> "h"]}
Wishes ==
  [api : {"chat", "responses"}, model : {"a", "gpt", "model", "none"},
   effort : {"", "high", "medium"}, max : {None, TRUE, FALSE}, tools : {Tools},
   choice : {[type |-> "none", name |-> ""], [type |-> "function", name |-> "h"],
             [type |-> "auto", name |-> ""]}]
\* /v1/responses has no field for Max.
Asked    == {w \in Wishes : w.api = "responses" => w.max = None}
TwoModels == <<OfA, OfB>>
Parts    == {<<"model", "Model A">>, <<"model", "Model B">>}

AnswerAtRest   == Init /\ streaming
SettingsAtRest == at = "idle" /\ applied = 0 /\ settings = Chosen(<<>>, "", FALSE, 0)
RequestInit == Init /\ SettingsInit
RequestNext ==
  \/ SettingsAtRest /\ Next /\ UNCHANGED settingVars
  \/ AnswerAtRest /\ SettingsNext /\ UNCHANGED vars
RequestSpec == RequestInit /\ [][RequestNext]_<<vars, settingVars>> /\ Fairness
=============================================================================
