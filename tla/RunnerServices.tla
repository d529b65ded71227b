--------------------------- MODULE RunnerServices ---------------------------
(***************************************************************************)
(* The interactive services of one runner process: terminals and files     *)
(* are served at the same time, each request by goroutines of its own.     *)
(* They share the process, so what ends the one (the end of the server's   *)
(* context) may come at any point of the other.                            *)
(***************************************************************************)
EXTENDS PTY, Files

CONSTANT MaxServed   \* requests of either kind that a behaviour serves

vars == <<session, slots, draining, dir, dirs, entries, content, fds, borrowed, op, stale>>

Served == Cardinality({t \in Terminal : ~Is(t, "handler", {"absent"})})
            + Cardinality({r \in Request : op[r].pc # "idle"})

Init == PTYInit /\ FilesInit

\* The context does not end an accepted file request: server.Shutdown waits for its handler.
Next == /\ \/ PTYNext /\ UNCHANGED filesVars
           \/ FilesNext /\ UNCHANGED ptyVars
        /\ Served' <= MaxServed

Spec == Init /\ [][Next]_vars /\ PTYFairness
=============================================================================
