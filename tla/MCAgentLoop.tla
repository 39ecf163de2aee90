------------------------------ MODULE MCAgentLoop ------------------------------
(* Instances of AgentLoop for TLC. *)
EXTENDS AgentLoop

\* The model stops, or asks for one use of each class; the read may be refused.
OneOfEach == {<<>>, <<"read", "intent", "blocked">>}

\* Three turns of one reply each, or two turns of up to two.
ChainOrLoop == {<<3, 1>>, <<2, 2>>}
================================================================================
