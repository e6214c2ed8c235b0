--------------------------- MODULE MCModifierSets ---------------------------
(***************************************************************************)
(* Bytes of two bits and three modifiers, so sets are none, one or two     *)
(* bytes long.  One node for each operation.                               *)
(***************************************************************************)
EXTENDS ModifierSets, TLC

CONSTANTS setter, unsetter, toggler, idler

MCNode == {setter, unsetter, toggler, idler}
MCOp == setter :> "set" @@ unsetter :> "unset" @@ toggler :> "toggle"
        @@ idler :> "unknown"
MCListed == setter :> {1} @@ unsetter :> {1, 2} @@ toggler :> {0, 2}
            @@ idler :> {}
MCModifier == 0..2
Symmetry == Permutations(Event) \union Permutations(Buffer)
=============================================================================
