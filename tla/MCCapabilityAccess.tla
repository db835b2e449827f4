--------------------------- MODULE MCCapabilityAccess ---------------------------
(***************************************************************************)
(* Two nodes in one base and a third in another, which an import may make; *)
(* a task that fills a node, one that has made its node, and two to come.  *)
(***************************************************************************)
EXTENDS CapabilityAccess

CONSTANTS w1, g1, g2, g3, f1, f2, j1, j2, j3, j4

InBase == [n \in Docs |-> IF n = g3 THEN f2 ELSE f1]
Aims == [t \in Imported |-> CASE t = j2 -> g2 [] t = j4 -> g3 [] OTHER -> g1]
Lists == {[n \in Docs |-> CASE n = g1 -> {w1} [] n = g2 -> {"tenant_admin"} [] OTHER -> Absent],
          [n \in Docs |-> CASE n = g1 -> {"tenant_viewer"} [] n = g2 -> Absent [] OTHER -> {w1}]}
States == {[t \in Imported |-> CASE t = j1 -> "pending" [] t = j2 -> "failed" [] OTHER -> "none"],
           [t \in Imported |-> CASE t = j1 -> "done" [] t = j2 -> "pending" [] OTHER -> "none"]}
=============================================================================
