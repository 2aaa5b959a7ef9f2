------------------------------ MODULE MCJQuery ------------------------------
(***************************************************************************)
(* Parts of jQuery, each for itself: requests, animations, deferreds, and  *)
(* nodes with their data.  Requests are made with and without global       *)
(* events, answers that come at once, timeouts and transports.             *)
(***************************************************************************)
EXTENDS Ajax, Effects, Deferreds, Nodes

MCSettings ==
    {[global |-> TRUE, async |-> TRUE, timeout |-> TRUE, kind |-> "xhr"],
     [global |-> TRUE, async |-> FALSE, timeout |-> FALSE, kind |-> "xhr"],
     [global |-> FALSE, async |-> TRUE, timeout |-> TRUE, kind |-> "script"],
     [global |-> TRUE, async |-> TRUE, timeout |-> FALSE, kind |-> "none"]}

One == {{"p"}}
OneOrTwo == {{"p"}, {"p", "q"}}

\* Pages that stop animations, that have some run aside of the queue, that have some that
\* are over at once, that wait between them, and that clear the queue of one.
MCManners ==
    {[animations |-> 3, props |-> One, durations |-> {1},
      page |-> {"animate", "stop", "end"}, callbacks |-> {"animate"}],
     [animations |-> 2, props |-> OneOrTwo, durations |-> {1, 2},
      page |-> {"animate", "aside", "stop"}, callbacks |-> {"aside"}],
     [animations |-> 3, props |-> One, durations |-> {0, 1}, page |-> {"animate"}, callbacks |-> {}],
     [animations |-> 3, props |-> One, durations |-> {1},
      page |-> {"animate", "delay"}, callbacks |-> {"animate", "delay"}],
     [animations |-> 1, props |-> OneOrTwo, durations |-> {1},
      page |-> {"animate", "delay", "clear"}, callbacks |-> {"clear"}]}

MCTags == [two |-> <<"i", "b">>, text |-> <<"#text">>, style |-> <<"style">>]

\* The body has a paragraph with an element and a text in it, and one that is empty.
Small == [tag |-> <<"body", "p", "i", "#text", "p">>, kids |-> <<<<2, 5>>, <<3, 4>>, <<>>, <<>>, <<>>>>,
          attr |-> <<"", "", "x", "", "">>, held |-> {}]

\* It has two with an element in each, of which one takes no data; the page holds another.
Wider == [tag |-> <<"body", "p", "i", "p", "embed", "b">>, kids |-> <<<<2, 4>>, <<3>>, <<>>, <<5>>, <<>>, <<>>>>,
          attr |-> <<"", "", "x", "", "x", "x">>, held |-> {6}]

\* A call of one of these methods, with so many elements.
T(does, sizes) == [does |-> does, sizes |-> sizes, two |-> FALSE]

Puts == {"append", "prepend", "before", "after"}

\* Pages that put nodes and HTML, two of them at once too; that put nodes made or cloned to others;
\* that wrap and unwrap; that replace and remove; that keep data and functions; and
\* that use HTML again and again.
Blank == [tag |-> <<"body">>, kids |-> <<<<>>>>, attr |-> <<"">>, held |-> {}, keeps |-> <<>>, html |-> {}, turns |-> <<>>]

MCBooks ==
    {Blank,
     [keeps |-> <<3>>, html |-> {"two"}, turns |-> <<[T(Puts, {1, 2}) EXCEPT !.two = TRUE], T(Puts, {1})>>] @@ Small,
     [keeps |-> <<3>>, html |-> {"two"}, turns |->
        <<T({"jQuery", "clone"}, {1}),
          T({"appendTo", "prependTo", "insertBefore", "insertAfter", "replaceAll"}, {1, 2}), T({"remove"}, {1})>>] @@ Small,
     [keeps |-> <<3, 6>>, html |-> {"two"}, turns |->
        <<T({"wrapAll", "wrap", "wrapInner"}, {1, 2}), T({"unwrap", "wrapInner"}, {1})>>] @@ Wider,
     [keeps |-> <<3, 6>>, html |-> {"style"}, turns |->
        <<T({"replaceWith", "empty", "text", "html"}, {1, 2}), T({"replaceWith", "remove", "detach", "append"}, {1})>>] @@ Wider,
     [keeps |-> <<3>>, html |-> {}, turns |->
        <<T({"data", "read", "bind", "removeData", "unbind"}, {1}), T({"clone", "removeData", "unbind"}, {1}),
          T({"removeData", "unbind", "read", "append", "remove"}, {1})>>] @@ Wider,
     [keeps |-> <<3>>, html |-> {"two"}, turns |->
        <<T({"jQuery"}, {1}), T({"jQuery", "html"}, {1}), T({"append", "before"}, {1, 2})>>] @@ Small}

VARIABLE part           \* which of the four

jQueryInit ==
    /\ part \in {"ajax", "effects", "deferreds", "nodes"}
    /\ AjaxInit /\ EffectsInit /\ DeferredsInit /\ NodesInit
    /\ part # "effects" => manner = CHOOSE m \in Manners : TRUE
    /\ part # "nodes" => book = Blank

jQueryNext ==
    /\ \/ part = "ajax" /\ AjaxNext /\ UNCHANGED <<effectsVars, deferredVars, nodesVars>>
       \/ part = "effects" /\ EffectsNext /\ UNCHANGED <<ajaxVars, deferredVars, nodesVars>>
       \/ part = "deferreds" /\ DeferredsNext /\ UNCHANGED <<ajaxVars, effectsVars, nodesVars>>
       \/ part = "nodes" /\ NodesNext /\ UNCHANGED <<ajaxVars, effectsVars, deferredVars>>
    /\ UNCHANGED part

jQuerySpec ==
    /\ jQueryInit /\ [][jQueryNext]_<<part, ajaxVars, effectsVars, deferredVars, nodesVars>>
    /\ AjaxFairness /\ EffectsFairness
=============================================================================
