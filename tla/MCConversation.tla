--------------------------- MODULE MCConversation ---------------------------
(* Instances of Conversation for TLC.                                      *)
EXTENDS Conversation, TLC

OneSession  == {1}
TwoSessions == {1, 2}
NoRequests  == {}
OnlyResign  == {"Resign"}

\* "WPe2" to "WPe4", as main says it, and as getPawnState would.
AsTyped    == <<<<87, 80, 101, 50>>, <<87, 80, 101, 52>>>>
AsReported == <<<<87, 80, 69, 50>>, <<87, 80, 69, 52>>>>
ScriptOnly == {AsTyped}
EitherCase == {AsTyped, AsReported}
=============================================================================
