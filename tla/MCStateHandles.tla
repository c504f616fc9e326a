---------------------------- MODULE MCStateHandles ----------------------------
(* The instance of StateHandles for TLC. *)
EXTENDS StateHandles, TLC

CONSTANTS h1, h2, h3, t1, t2

MCHandle == {h1, h2, h3}
MCThread == {t1, t2}
=============================================================================
