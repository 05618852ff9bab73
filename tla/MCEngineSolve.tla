--------------------------- MODULE MCEngineSolve ---------------------------
(* Small instances of EngineSolve for TLC. *)
EXTENDS EngineSolve

\* The instances are ones the engines were made for.
ASSUME InstanceAssumption ==
  CooldownCoversVerifying /\ ConfirmOutlastsGap /\ SettleOutlastsGuard /\ PressesAreAlike

Asks(engine, share, cookies, presses, only) ==
  [engine |-> engine, share |-> share, cookies |-> cookies, presses |-> presses,
   only |-> only]

\* A share as short as one launch, one with room for both solvers, and Chrome's three
\* ways with a widget.
McRequests ==
  {Asks("stealth", 3, TRUE, FALSE, FALSE), Asks("stealth", 17, FALSE, FALSE, FALSE),
   Asks("chrome", 3, FALSE, FALSE, FALSE), Asks("chrome", 12, TRUE, FALSE, FALSE),
   Asks("chrome", 14, FALSE, TRUE, TRUE)}
=============================================================================
