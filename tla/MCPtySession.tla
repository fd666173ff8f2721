---------------------------- MODULE MCPtySession ----------------------------
(* PtySession on a few connections and sessions.                           *)
EXTENDS PtySession
=============================================================================
