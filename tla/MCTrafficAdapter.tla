-------------------------- MODULE MCTrafficAdapter --------------------------
(* Instances of TrafficAdapter for TLC.                                    *)
EXTENDS TrafficAdapter

FQDN == <<"app", "prod", "svc", "cluster", "local">>
Foreign == <<"app", "test", "svc">>

Dest(h, p, s) == [host |-> h, port |-> p, subset |-> s]

MCVSRefs == <<"a", "empty">>
MCDRRefs == <<"d">>

\* A managed destination next to one of another namespace and one of the same
\* Service without a port.
MCVSSpecs ==
  {<<Dest(FQDN, 1, TRUE), Dest(Foreign, 1, TRUE), Dest(<<"app">>, None, TRUE)>>}

MCDRSpecs == {<<Dest(FQDN, None, TRUE)>>}
=============================================================================
