---------------------------- MODULE MCSpellServer ----------------------------
(* Values for the constants of SpellServer.                                *)
EXTENDS SpellServerProperties, TLC

MCWords == {"cat", "quit", ""}
MCDictionary == {"cat"}

(* "cat" is sent as five bytes and leaves its line end, which trim turns   *)
(* into the empty word; the two bytes of an empty line are swallowed whole. *)
MCAfterPing == [v \in Words |-> IF v # "" /\ "" \in Words THEN "" ELSE NoWord]

(* A heap that only hands out zeroed memory.                               *)
MCReadsAs == [v \in Words |-> {v}]

Symmetry == Permutations(Workers) \cup Permutations(Fds)
=============================================================================
