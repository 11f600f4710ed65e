----------------------------- MODULE MCStateKey -----------------------------
(* An instance of StateKey: passwords with and without whitespace, one age  *)
(* identity, two setups.                                                    *)
EXTENDS StateKey

MCTexts == {<<>>, <<8, 1>>, <<1, 9>>, <<3>>}
MCIdentities == {<<3>>}
MCGenerated == <<<<1, 2>>, <<2, 1, 1>>>>
=============================================================================
