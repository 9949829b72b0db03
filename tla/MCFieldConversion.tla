-------------------------- MODULE MCFieldConversion --------------------------
(* One field at a time, of all fields; narrow integers are -4..3, and there *)
(* are two texts and two lists besides the empty ones.                      *)
EXTENDS FieldConversion, FieldTables

CONSTANTS a, b

MCHalf == 4
MCNumbers == {-5, -4, 0, 1, 3, 4}
MCTexts == {"", a, b}
MCLists == {<<>>, <<a>>, <<b>>}
MCSymmetry == Permutations({a, b})
===============================================================================
