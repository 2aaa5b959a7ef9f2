----------------------------- MODULE MCWsParser -----------------------------
(* TLC instances of WsParser. *)
EXTENDS WsParser

\* The empty text, and texts of odd and even bytes.
SomeTexts == {<<>>, <<97>>, <<98, 97>>}

\* A key that looks like frames.
ShortKey == <<255, 0>>

\* Frames without a payload, of an odd and of an even type.
OddHigh  == {<<129, 0>>}
EvenHigh == {<<128, 0>>}
=============================================================================
