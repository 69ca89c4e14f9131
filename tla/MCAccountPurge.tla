--------------------------- MODULE MCAccountPurge ---------------------------
(***************************************************************************)
(* Constant values for the runs of AccountPurge.                           *)
(***************************************************************************)
EXTENDS AccountPurge

TwoDomains == <<"d1:documents", "d1:tasks">>

OneDomain == <<"d1:tasks">>
=============================================================================
