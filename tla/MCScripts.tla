----------------------------- MODULE MCScripts -----------------------------
(***************************************************************************)
(* Scripts of pages, each for itself: the game, the editor, and events of  *)
(* jQuery.                                                                 *)
(*                                                                         *)
(* The editor's page comes with a text; typo differs from it by less than  *)
(* history keeps, and raw is a longer text with a link, whose HTML is      *)
(* cleaned.                                                                *)
(*                                                                         *)
(* Events are for a button or a link in an element in the document.        *)
(***************************************************************************)
EXTENDS Linkup, Editor, Events, TLC

PictureSymmetry == Permutations(Pictures)

Sizes == [t \in Texts |-> CASE t = "" -> 0 [] t = "<br />" -> 6 [] t = "first" -> 20
                            [] t = "typo" -> 21 [] t = "raw" -> 60 [] OTHER -> 50]

Cleaned == [t \in Texts |-> CASE t = "<br />" -> "" [] t = "raw" -> "clean" [] OTHER -> t]

MCMatches == [s \in {"s", "t"} |-> IF s = "s" THEN {1} ELSE {1, 2}]

Of(kind, elem, fn, ns, selector) == [kind |-> kind, elem |-> elem, fn |-> fn, ns |-> ns, selector |-> selector]

\* Pages with inline handlers that trigger while an event is under way, with live functions at
\* two elements that stop events and die, and with namespaces.
MCPages ==
    {[binds |-> 1, does |-> 2,
      bindings |-> {Of("one", 1, "f", {}, ""), Of("bind", 3, "f", {}, "")},
      acts |-> {"trigger"}, triggers |-> {"plain"}, answers |-> {"nothing", "false"},
      onclick |-> {1, 2}, methods |-> {1}, links |-> {2}],
     [binds |-> 3, does |-> 1,
      bindings |-> {Of("bind", 3, "f", {}, ""), Of("live", 3, "g", {}, "t"), Of("live", 2, "g", {}, "s")},
      acts |-> {"trigger", "die"}, triggers |-> {"handler"}, answers |-> {"nothing", "false", "immediate"},
      onclick |-> {}, methods |-> {1}, links |-> {}],
     [binds |-> 2, does |-> 2,
      bindings |-> {Of("bind", 1, "f", {"a"}, ""), Of("one", 3, "f", {}, ""), Of("live", 3, "f", {"a"}, "s")},
      acts |-> {"trigger", "unbind", "die"}, triggers |-> {"plain", "namespace", "exclusive"}, answers |-> {"nothing"},
      onclick |-> {1}, methods |-> {}, links |-> {}]}

VARIABLE script         \* which of the three

AnyDeal == CHOOSE f \in Deals : Hints(f, Cells) # {}

ScriptsInit ==
    /\ script \in {"game", "editor", "events"} /\ GameInit /\ Init /\ EventsInit
    /\ script # "game" => img = AnyDeal /\ oneResult = CHOOSE pair \in Hints(AnyDeal, Cells) : TRUE
    /\ script # "events" => web = CHOOSE p \in Pages : TRUE

ScriptsNext ==
    /\ \/ script = "game"   /\ GameNext /\ UNCHANGED <<vars, eventVariables>>
       \/ script = "editor" /\ Next /\ UNCHANGED <<gameVars, eventVariables>>
       \/ script = "events" /\ EventsNext /\ UNCHANGED <<gameVars, vars>>
    /\ UNCHANGED script

ScriptsSpec == ScriptsInit /\ [][ScriptsNext]_<<script, gameVars, vars, eventVariables>>
=============================================================================
