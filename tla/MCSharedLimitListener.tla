------------------------ MODULE MCSharedLimitListener ------------------------
(* Two listeners (say HTTP and HTTPS) sharing a pool of two slots.        *)
EXTENDS SharedLimitListener

CONSTANTS l1, l2, k1, k2, k3

MCListeners == {l1, l2}
MCConnIds == {k1, k2, k3}
=============================================================================
