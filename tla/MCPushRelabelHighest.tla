-------------------------- MODULE MCPushRelabelHighest -------------------------
EXTENDS PushRelabelHighest, NetworkCases

\* Evaluated once by TLC; MCCases refers to the result.
Networks == Diamonds(0 .. 2) \cup Detours({1, 2}) \cup Merged(0 .. 2) \cup Lakes(3 .. 5)
MCCases == Networks
===============================================================================
