----------------------------- MODULE MC_RuleSet -----------------------------
(* Two rule files and one seed rule. *)
EXTENDS RuleSet

CONSTANTS f1, f2, s1

MCFiles == {f1, f2}
MCFileOrder == <<f1, f2>>
MCSeed == <<s1>>
====
