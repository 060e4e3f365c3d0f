----------------------------- MODULE MCSampling -----------------------------
(* Sampling on one device, one interface and one address. *)
EXTENDS Sampling

Watched(devices, addrs, monitor, all, list) ==
    [devices |-> devices, addrs |-> addrs, monitor |-> monitor, all |-> all,
     ifaces |-> list]

\* The default (all interfaces), a device given twice with an address, and an
\* interface given twice.
MCInitialWatch ==
    {Watched(<<>>, <<>>, TRUE, TRUE, <<>>),
     Watched(<<"sda", "sda">>, <<"10.0.0.1">>, FALSE, FALSE, <<>>),
     Watched(<<"sda">>, <<>>, TRUE, FALSE, <<"eth0", "eth0">>)}

\* None, or those of the interface and of the address.
MCFaultyLogs == {{}, {"eth0", "10.0.0.1"}}

=============================================================================
