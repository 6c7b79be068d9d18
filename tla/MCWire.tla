------------------------------- MODULE MCWire -------------------------------
(***************************************************************************)
(* Wire for TLC: bytes of base 3, so that a length of 4 takes two digits,  *)
(* and payloads that look like headers.                                    *)
(***************************************************************************)
EXTENDS Wire

MCPrefix == <<1>>
MCAppName == <<2>>
MCPayloads == {<<>>, <<2, 0, 0>>, <<0, 0, 0, 2>>, <<2, 0, 0, 0, 1>>}
=============================================================================
