------------------------- MODULE MC_CronServiceLegacy -------------------------
(* Two objects, two overlapping rules. *)
EXTENDS CronServiceLegacy

CONSTANTS n1, n2

MCNames == {n1, n2}
MCMatch == <<{n1, n2}, {n2}>>
====
