------------------------ MODULE MCSupervisionMonitor ------------------------
(* Instances of SupervisionMonitor for TLC: all supervision orders belong  *)
(* to one repair order.                                                    *)
EXTENDS SupervisionMonitor, TLC

MCRmaOf == [s \in Source |-> CHOOSE r \in Rma : TRUE]
=============================================================================
