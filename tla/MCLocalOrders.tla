---------------------------- MODULE MCLocalOrders ----------------------------
EXTENDS LocalOrders

\* One demonstration order is enough to have an order that is not received.
DemoOrdersMC == <<"REPAIR-001">>
=============================================================================
