----------------------------- MODULE MCLineWorker -----------------------------
(***************************************************************************)
(* Small instances for TLC of the two ends of a line and of the panel that *)
(* breaks it: the worker of the collector with its cycles, stops and       *)
(* breakers, the port of the simulator with the client asking it, and the  *)
(* screen of faults.  They share no state: a behaviour is about one of     *)
(* them, chosen at the start.                                              *)
(***************************************************************************)
EXTENDS LineWorker, Sequences

CONSTANTS Units, FaultKinds, Slots, SlowFor, MaxBacklog, MaxChaos,
  Breakable, MaxChanges, MaxAdded, MaxLosses

VARIABLES part,
  book, port, socks, queue, bus, down, link, got, chaos,
  acting, added, panel, reading, calls, outcome, changes, losses

L == INSTANCE SimLine WITH Sockets <- Slots
TwoUnits == <<"d1", "d2">>

P == INSTANCE FaultPanel
TwoFaults == {<<"line", "offline">>, <<"chamber", "door_stuck">>}

(* A line has devices, which have names; "clear all" is no fault.          *)
ASSUME EndsOfLineAssumption ==
  /\ Units \in Seq(STRING) /\ Units # <<>>
  /\ P!All \notin Breakable
  /\ {SlowFor, MaxBacklog, MaxChaos, MaxChanges, MaxAdded, MaxLosses} \subseteq Nat

worker == vars
simulated == <<book, port, socks, queue, bus, down, link, got, chaos>>
shown == <<acting, added, panel, reading, calls, outcome, changes, losses>>
ends == <<part, worker, simulated, shown>>

LineInit == Init /\ L!SimInit /\ P!PanelInit /\ part \in {"worker", "simulator", "panel"}
LineNext ==
  \/ part = "worker" /\ Next /\ UNCHANGED <<part, simulated, shown>>
  \/ part = "simulator" /\ L!SimNext /\ UNCHANGED <<part, worker, shown>>
  \/ part = "panel" /\ P!PanelNext /\ UNCHANGED <<part, worker, simulated>>

InSim(A) == part = "simulator" /\ A /\ UNCHANGED <<part, worker, shown>>
OnPanel(A) == part = "panel" /\ A /\ UNCHANGED <<part, worker, simulated>>

(* The worker's own fairness asks nothing of its initial state.  At the    *)
(* port exchanges, sleeps and timers of the client end, and the time of a  *)
(* fault runs out.  The panel polls, and calls to the simulator end.       *)
LineFairness ==
  /\ Fairness
  /\ WF_ends(InSim(L!ServeBegins))
  /\ WF_ends(InSim(L!ServeEnds))
  /\ WF_ends(InSim(L!ClientStep))
  /\ WF_ends(InSim(L!Answered))
  /\ WF_ends(InSim(L!ClientSeesClose))
  /\ WF_ends(InSim(L!Sync))
  /\ WF_ends(InSim(L!ListenEnds))
  /\ WF_ends(InSim(L!CloseEnds))
  /\ \A s \in Slots : WF_ends(InSim(L!ServerSeesClose(s)))
  /\ \A f \in L!Applicable : WF_ends(InSim(L!FaultEnds(f)))
  /\ WF_ends(OnPanel(P!ReadMoves))
  /\ \A key \in P!Keys : WF_ends(OnPanel(P!ChangeMoves(key)))

LineSpec == LineInit /\ [][LineNext]_ends /\ LineFairness

(* Whatever start, stop and the watchdog do to each other, one cycle runs  *)
(* on the line; a stopped worker runs none, and keeps no connection but    *)
(* those of passes given up by the watchdog, one per trip at most.  The    *)
(* client takes only the answer to what it has asked.  The panel shows     *)
(* what it says is done, and offers what the stand takes.                  *)
LineIsSound == OneCycleOrNone /\ L!LineIsTrue /\ P!PanelIsSound

(* Every device is polled again and again while the worker is on, one      *)
(* whose breaker is open included, and read again when its faults end; the *)
(* panel shows again and again the faults that act, its changes ended.     *)
DevicesAreRead ==
  /\ DevicePolled
  /\ \A u \in L!Asked : []<>(part = "simulator" => L!Reads(u))
  /\ []<>(part = "panel" => P!PanelIsTrue)
===============================================================================
