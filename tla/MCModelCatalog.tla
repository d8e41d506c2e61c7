---------------------------- MODULE MCModelCatalog ----------------------------
(* ModelCatalog on a small instance: two objects of one login and one of    *)
(* another account.  Beside it, what a round makes of the upstream's lists   *)
(* (ModelDetails): the list of a round is one value to ModelCatalog, so that *)
(* the rounds here run while the catalog there has not begun, and the other *)
(* way round.                                                                *)
EXTENDS ModelCatalog, ModelDetails, TLC

CONSTANTS o1, o2, o3, k1, k2, c1, c2, r1

Keys     == o1 :> k1 @@ o2 :> k1 @@ o3 :> k2
Catalogs == k1 :> c1 @@ k2 :> c2
Own      == c1 :> "models of c1" @@ c2 :> "models of c2" @@ Empty :> "none"
\* The accounts have the same models, with other capabilities.
Same     == c1 :> "models" @@ c2 :> "models" @@ Empty :> "none"

\* Details: the everyday profile, the Max profile of the same model, one with
\* levels of its own, one whose levels are spoilt, and profiles with prices.
Effort(options, level) == [support |-> TRUE, options |-> options, level |-> level]
Plain   == [model |-> "a__dev", effort |-> Effort(<<"low", "high">>, "high")]
MaxProfile == [model |-> "a__max", max |-> TRUE, sizeMax |-> {400, 1000}, vision |-> FALSE]
Levels  == [model |-> "a", effort |-> Effort(<<"high", "extra_high">>, "medium"), max |-> FALSE,
            featuresVision |-> TRUE, vision |-> FALSE]
Spoilt  == [model |-> "a", effort |-> Effort(<<"low", "low">>, "low"), tokensMax |-> 300,
            featuresVision |-> FALSE]
Renamed == [config |-> "b", model |-> "b", function |-> "builder", dollarMax |-> TRUE,
            ext |-> {"low", ""}, extDefault |-> "low"]
OffPeak == [contact |-> [base |-> 8, now |-> 4, before |-> 16, memberNow |-> 6, kind |-> "off_peak",
                         member |-> 5,
                         windows |-> {[days |-> {1}, start |-> 1, end |-> 3],
                                      [days |-> {}, start |-> 3, end |-> 3]}]]
Subsidy == [contact |-> [base |-> 4, now |-> 2, memberNow |-> 1, kind |-> "subsidy"]]
Limited == [contact |-> [now |-> 8, before |-> 8, member |-> 9, kind |-> "limited"]]

Entries ==
  {<<[config |-> "a", vision |-> TRUE, details |-> <<Plain, MaxProfile>>]>>,
   <<[config |-> "a", dollarMax |-> TRUE, details |-> <<Levels>>]>>,
   <<[config |-> "a", effort |-> Effort(<<"low">>, "low"), vision |-> FALSE,
      details |-> <<Spoilt, OffPeak>>],
     [config |-> "b", displayMax |-> TRUE, source |-> 2, details |-> <<Plain>>]>>,
   <<[config |-> "b", dollarMax |-> TRUE, details |-> <<Subsidy>>], [config |-> "a", details |-> <<Renamed>>]>>,
   <<[config |-> "a", hidden |-> TRUE, details |-> <<MaxProfile>>],
     [config |-> "b", featuresVision |-> FALSE, details |-> <<Limited>>]>>,
   <<[config |-> "auto", max |-> TRUE, details |-> <<Plain>>],
     [config |-> "a", custom |-> TRUE, details |-> <<MaxProfile>>]>>,
   <<>>}

FewMinutes == 0 .. 4

DetailsAtRest == stage = "idle" /\ catalog = {}

CatalogInit == Init /\ DetailsInit
CatalogNext ==
  \/ DetailsAtRest /\ Next /\ UNCHANGED detailVars
  \/ Init /\ pool = None /\ DetailsNext /\ UNCHANGED vars
CatalogSpec == CatalogInit /\ [][CatalogNext]_<<vars, detailVars>> /\ Fairness
=============================================================================
