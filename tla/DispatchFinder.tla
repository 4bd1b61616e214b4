--------------------------- MODULE DispatchFinder ---------------------------
(***************************************************************************)
(* The main loop is one of the clients RegionFinder allows, so what is     *)
(* proved of RegionFinder holds of the finder inside Dispatch.  RegionFinder*)
(* also remembers the region handed out last; out is that history here.    *)
(***************************************************************************)
EXTENDS Dispatch

VARIABLE out

HandsOut == mode = "loop" /\ unit' # None /\ RegionComplete(g.rf, cBB)

HistoryInit == Init /\ out = <<>>

HistoryNext == Next /\ out' = IF HandsOut THEN g.rf.hist ELSE out

HistorySpec == HistoryInit /\ [][HistoryNext]_<<vars, out>> /\ WF_vars(Loop)

(* Where RegionFinder sees the main loop: calling executeJIT on a block,   *)
(* running it up to updateRegionHeads, or stopped.                         *)
Phase ==
  CASE mode \in {"run", "cfg", "post"} -> "running"
    [] mode = "loop" /\ ~brk -> "dispatch"
    [] OTHER -> "stopped"

Current == IF unit # None THEN unit ELSE IF cBB # None THEN cBB ELSE 0

RF == INSTANCE RegionFinder WITH rf <- g.rf, cur <- Current, phase <- Phase

(* Every call the main loop makes on the finder is one RegionFinder's      *)
(* client may make: executeJIT, split, the end of executeJIT, dropAllBBs   *)
(* and the longjmp never call it in an order RegionFinder rules out.       *)
ImplementsRegionFinder == RF!Spec
=============================================================================
