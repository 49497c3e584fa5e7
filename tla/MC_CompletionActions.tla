------------------------- MODULE MC_CompletionActions -------------------------
(* Every rule configuration with at most two actions on either path, over *)
(* two actions: empty lists, repeated actions, and failures at each call. *)
EXTENDS CompletionActions

CONSTANTS a1, a2

MC_Actions == {a1, a2}
MC_Lists == {<<>>, <<a1>>, <<a2>>, <<a1, a2>>, <<a2, a1>>, <<a1, a1>>}
MC_Completions == [OnSuccess : MC_Lists, OnFailure : MC_Lists]
====
