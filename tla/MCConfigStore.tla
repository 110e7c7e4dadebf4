--------------------------- MODULE MCConfigStore ---------------------------
(* Small instances of ConfigStore for TLC. *)
EXTENDS ConfigStore, TLC

CONSTANTS c1, c2, c3, r1, r2, admin, user, a1, s1, s2, v1

\* Bound of the run on documentation: commands about rooms only.
RoomCommands == \A c \in Commands : cmd[c] = None \/ ScopeOf(cmd[c].do) = "room"

Symmetry == Permutations(Commands) \cup Permutations(Rooms)
=============================================================================
