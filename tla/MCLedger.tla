---------------------------- MODULE MCLedger ------------------------------
(* One member's two routines on the day before a payday, and a tarea on that *)
(* day, the payday, the day after it and the next payday.                    *)
EXTENDS Ledger, TLC

CONSTANTS beds, desk, shed

MCDef(kind, difficulty, paga) == [kind |-> kind, difficulty |-> difficulty, paga |-> paga]
MCRoutineDefs == {MCDef("Mandatory", "Intermedia", TRUE), MCDef("Mandatory", "Facil", TRUE),
                  MCDef("Opcional", "Compleja", TRUE), MCDef("Mandatory", Unset, TRUE)}
MCTareaDefs == {MCDef("To-Do", "Compleja", TRUE), MCDef("To-Do", "Facil", FALSE)}
MCAtFirst == beds :> MCDef("Mandatory", "Intermedia", TRUE)
             @@ desk :> MCDef("Mandatory", "Facil", TRUE)
             @@ shed :> MCDef("To-Do", "Compleja", TRUE)
MCAnchor == DateOf(2026, 7, 17)
MCFriday == DateOf(2026, 12, 18) \* the next payday is in another year
MCDays == {MCFriday - 1, MCFriday, MCFriday + 1, MCFriday + 14}
MCOccurrences == {<<beds, MCFriday - 1, 1>>, <<desk, MCFriday - 1, 1>>}
MCAppeals == {-30, 5}
=============================================================================
