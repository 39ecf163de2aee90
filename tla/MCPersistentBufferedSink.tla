----------------------- MODULE MCPersistentBufferedSink -----------------------
(* Instances of PersistentBufferedSink for TLC. *)
EXTENDS PersistentBufferedSink
===============================================================================
