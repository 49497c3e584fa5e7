------------------------------ MODULE MC_FnEntry ------------------------------
(* Two destinations, so that a delivery can write one and fail the other, *)
(* and three deliveries, so that partial writes can add up over retries. *)
EXTENDS FnEntry

CONSTANTS d1, d2

MC_Dests == {d1, d2}
====
