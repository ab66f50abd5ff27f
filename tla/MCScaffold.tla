----------------------------- MODULE MCScaffold -----------------------------
(* Two documents, the second with a pent more, and one no printer accepts. *)
EXTENDS Scaffold

CONSTANTS small, large, broken

MCDocuments == {small, large, broken}
MCPrintable == {small, large}
MCPentsOf == [d \in MCDocuments |-> IF d = small THEN {"User"} ELSE {"User", "TodoList"}]
=============================================================================
