------------------------------- MODULE MCGnss -------------------------------
(* Two framework processes, one after the other.  The device could not be    *)
(* opened, offers the two extensions a death has to close (long histories),  *)
(* or offers all of them (short histories).                                  *)
EXTENDS Gnss

MCImplementations == {[iface |-> TRUE, implements |-> {"measurement", "batching"}],
                      [iface |-> TRUE, implements |-> Extensions],
                      [iface |-> FALSE, implements |-> {}]}
MCMaxCalls(d) == IF d.implements = Extensions THEN 3 ELSE 4
MCMaxCallbacks(d) == IF d.implements = Extensions THEN 1 ELSE 3
=============================================================================
