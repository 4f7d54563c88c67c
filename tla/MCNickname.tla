----------------------------- MODULE MCNickname -----------------------------
(* An instance of Nickname for TLC: the nick "a" of at most two characters, *)
(* for which "a_" and "_a" are tried next.                                  *)
EXTENDS Nickname

A == {<<"a">>}
Tried == {<<"a">>, <<"a", "_">>, <<"_", "a">>}
=============================================================================
