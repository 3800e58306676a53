--------------------------- MODULE ChatTurnClaims ---------------------------
(* What a decision record says of Stop that the code does not do.  Checked,  *)
(* and violated, by a run of its own; the README says what the run shows.    *)
EXTENDS ChatTurn

\* Stop reaches a scheduled run; its worker no longer writes over the
\* cancellation (ADR 0x039).
StopIsNotOverwritten ==
  [][\A j \in Jobs : IsTicket(j) /\ row[j] = "cancelled" => row'[j] = "cancelled"]_vars
=============================================================================
