----------------------------- MODULE MCDevices -----------------------------
(***************************************************************************)
(* The devices share nothing, so a behaviour is one of them at a time: a   *)
(* display that only watches, a display whose cook works without a socket, *)
(* a phone that hands an order over, the gate of a phone, a printer, a     *)
(* page that takes an order over the phone, once or opened again.          *)
(***************************************************************************)
EXTENDS DeviceProperties

CONSTANT Parts  \* the parts a behaviour may be of

VARIABLE part

allVars == <<kdsVars, mobileVars, gateVars, printVars, boxVars, part>>

\* One line is enough to watch.
Quiet == CHOOSE l \in KdsLines : TRUE

Watches ==
  /\ part = "watch"
  /\ KdsNext /\ display'.work = NoWork
  /\ kitchen'.status[Quiet] = kitchen.status[Quiet]
  /\ UNCHANGED <<mobileVars, gateVars, printVars, boxVars>>

Cooks ==
  /\ part = "cook"
  /\ KdsNext /\ display'.link = "off" /\ publishing \subseteq publishing'
  /\ UNCHANGED <<mobileVars, gateVars, printVars, boxVars>>

HandsOver ==
  /\ part = "order"
  /\ MobileNext
  /\ UNCHANGED <<kdsVars, gateVars, printVars, boxVars>>

SignsIn ==
  /\ part = "gate"
  /\ GateNext
  /\ UNCHANGED <<kdsVars, mobileVars, printVars, boxVars>>

PrintsJobs ==
  /\ part = "print"
  /\ PrintNext
  /\ UNCHANGED <<kdsVars, mobileVars, gateVars, boxVars>>

\* The page is opened once; or again, with two requests less.
TakesOrders ==
  /\ part \in {"box", "reopened"}
  /\ BoxNext
  /\ part = "box" => used'.visits = 1
  /\ part = "reopened" => used'.keys + 1 < BoxRequests
  /\ UNCHANGED <<kdsVars, mobileVars, gateVars, printVars>>

MCInit ==
  /\ KdsInit /\ MobileInit /\ GateInit /\ PrintInit /\ BoxInit
  /\ part \in Parts

MCNext ==
  /\ Watches \/ Cooks \/ HandsOver \/ SignsIn \/ PrintsJobs
     \/ TakesOrders
  /\ UNCHANGED part

\* The requests of a refresh are answered or fail, and the chain goes on.
Refreshes ==
  Refresh /\ UNCHANGED <<mobileVars, gateVars, printVars, boxVars, part>>

MCSpec == MCInit /\ [][MCNext]_allVars /\ WF_allVars(Refreshes)
=============================================================================
