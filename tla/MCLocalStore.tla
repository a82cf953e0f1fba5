---------------------------- MODULE MCLocalStore ----------------------------
(* Small instances of LocalStore for TLC.                                   *)
EXTENDS LocalStore

\* The empty prefix, and one that selects a single key.
MCPrefixes == {Keys, {CHOOSE k \in Keys : TRUE}}
=============================================================================
