--------------------------- MODULE MC_CronService ---------------------------
(* Small instance of CronService: two names, two rules whose sources      *)
(* overlap on n2, the second rule moving its objects, two workers.        *)
EXTENDS CronService

CONSTANTS n1, n2

MCNames == {n1, n2}
MCMatch == <<{n1, n2}, {n2}>>
MCMove == {2}
=============================================================================
