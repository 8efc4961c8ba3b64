------------------------------ MODULE BusReaders ------------------------------
(***************************************************************************)
(* The readers of one bus together: the broadcast and the audio service,   *)
(* which also publish, and the WebSocket hub, which shows the clients what *)
(* everyone publishes.                                                     *)
(***************************************************************************)
EXTENDS Broadcasting, WebSocketHub

vars == <<log, svars, hvars>>

TypeOK == ServicesTypeOK /\ HubTypeOK

Init == BusInit /\ ServicesInit /\ HubInit

Services_ == ServicesNext /\ UNCHANGED hvars
Hub == HubNext /\ UNCHANGED svars
Restart == ServicesRestart /\ HubRestart

Next == Services_ \/ Hub \/ Restart

Spec == Init /\ [][Next]_vars

(* The tasks of the services, the hub's poller and the connections run on  *)
(* the same scheduler; nobody has to trigger, connect, delete or die.      *)
FairSpec == Spec /\ ServicesFair /\ HubFair

(* A client that stays, keeps up and sets no filter has every event of the *)
(* bus in the end, those from before it connected left aside.              *)
AllServed == hubIndex = Len(log) /\ \A c \in Clients : Reachable(c) => pos[c] = Len(sent)
EventsReachClients == ~AllServed ~> AllServed
===============================================================================
