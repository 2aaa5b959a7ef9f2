----------------------------- MODULE MCIncoming -----------------------------
(***************************************************************************)
(* What comes in and what becomes of it, each for itself: the bytes of a   *)
(* WebSocket, requests for actions of the site, requests to index it.      *)
(*                                                                         *)
(* Bytes: the empty text, and texts of odd and even bytes, behind a key    *)
(* that looks like a frame; frames of an odd type.                         *)
(*                                                                         *)
(* Actions: "blog" is loaded at the start, "music" when it is asked for,   *)
(* "none" has no class.  MusicAction has no public index                   *)
(* (MusicAction.java:40), BaseAction a public edit of three parameters     *)
(* besides the one of BlogAction (BaseAction.java:168,                     *)
(* BlogAction.java:139).                                                   *)
(*                                                                         *)
(* Indexing: two tables; a request names one or both, as the buttons of    *)
(* lucene_index.jsp do.                                                    *)
(***************************************************************************)
EXTENDS WsParser, Dispatch, SearchIndex

CONSTANTS motto, blog

SomeTexts == {<<>>, <<97>>, <<98, 97>>}
ShortKey == <<255, 0>>
OddHigh == {<<129, 0>>}

BlogOnly == <<"blog">>

PublicMethods ==
    [key \in Name \X Method |->
        CASE key = <<"blog", "index">> \/ key = <<"music", "list">> -> {"context"}
          [] key = <<"blog", "read">> -> {"contextAndId"}
          [] key = <<"blog", "edit">> -> {"contextAndId", "three"}
          [] OTHER -> {}]

MCTable == {motto, blog}
MCTables == {<<motto>>, <<blog, motto>>}
MCMaxId == [t \in MCTable |-> IF t = motto THEN 2 ELSE 0]

VARIABLE comes          \* which of the three

IncomingInit ==
    /\ comes \in {"bytes", "requests", "indexing"} /\ ParserInit /\ Init /\ IndexInit
    /\ comes # "requests" => chosen = CHOOSE c \in getActionMethod : TRUE

\* A peer may stop to send; the site never stops.
IncomingNext ==
    /\ \/ comes = "bytes" /\ ParserNext /\ UNCHANGED <<vars, indexingVars>>
       \/ comes = "bytes" /\ UNCHANGED <<parserVars, vars, indexingVars>>
       \/ comes = "requests" /\ Next /\ UNCHANGED <<parserVars, indexingVars>>
       \/ comes = "indexing" /\ IndexNext /\ UNCHANGED <<parserVars, vars>>
    /\ UNCHANGED comes

IncomingSpec ==
    /\ IncomingInit /\ [][IncomingNext]_<<comes, parserVars, vars, indexingVars>>
    /\ ParserFairness /\ IndexFairness
=============================================================================
