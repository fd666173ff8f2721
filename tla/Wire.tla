-------------------------------- MODULE Wire --------------------------------
(***************************************************************************)
(* The one connection of the page to the daemon, as Terminal, Editor and   *)
(* FileTree see it.  FIFO both ways; DaemonConnection has what is below.   *)
(***************************************************************************)
EXTENDS Naturals, Sequences, FiniteSets, SequencesExt

VARIABLES
    up,   \* requests on their way to the daemon
    down  \* answers and events on their way to the page

wire == <<up, down>>
=============================================================================
