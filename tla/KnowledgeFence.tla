--------------------------- MODULE KnowledgeFence ---------------------------
(***************************************************************************)
(* What the lease of a knowledge source promises to the code that writes   *)
(* under it: grants are numbered, and a write belongs to the latest grant, *)
(* which has not been handed back.                                         *)
(***************************************************************************)
EXTENDS Naturals

VARIABLES
  granted,   \* the number of the latest grant, 0 before the first
  open,      \* the latest grant has not been handed back
  written    \* the grant under which the latest write was committed

fenceVars == <<granted, open, written>>

FenceInit ==
  /\ granted = 0
  /\ open = FALSE
  /\ written = 0

\* A new grant supersedes the previous one, handed back or not.
Grant ==
  /\ granted' = granted + 1
  /\ open' = TRUE
  /\ UNCHANGED written

Write ==
  /\ open
  /\ written' = granted
  /\ UNCHANGED <<granted, open>>

HandBack ==
  /\ open
  /\ open' = FALSE
  /\ UNCHANGED <<granted, written>>

FenceNext == Grant \/ Write \/ HandBack

FenceSpec == FenceInit /\ [][FenceNext]_fenceVars
=============================================================================
