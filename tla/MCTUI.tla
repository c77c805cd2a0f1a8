-------------------------------- MODULE MCTUI --------------------------------
(***************************************************************************)
(* One managed file, one specialist and two offered models; every flow may *)
(* be opened, two from the menu, with three slow commands or requests and  *)
(* two messages on their way, which any keys may overtake. The bounds are  *)
(* in the guards; the scenes leave out the edits made after a second flow  *)
(* was opened, and a second message on its way beside the last command.    *)
(***************************************************************************)
EXTENDS TUI

Scenes ==
    /\ edits = 0 \/ screens <= 1
    /\ commands < MaxCommands \/ Cardinality(prompt) <= 1
=============================================================================
