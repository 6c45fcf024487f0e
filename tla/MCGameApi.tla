------------------------------ MODULE MCGameApi ------------------------------
(* Instances of GameApi for model checking: games that tick by themselves  *)
(* and games that the clients tick; three tokens, of which the last player *)
(* may be left one that is new.                                            *)
EXTENDS GameApi, TLC

CONSTANTS m1, m2, t1, t2, t3

TwoMaps == {m1, m2}
ThreeTokens == {t1, t2, t3}
TwoMoves == {"U", "L"}

MapsAndTokensAreAlike == Permutations(ThreeTokens) \cup Permutations(TwoMaps)
=============================================================================
