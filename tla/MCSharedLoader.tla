--------------------------- MODULE MCSharedLoader ----------------------------
(***************************************************************************)
(* Two modules that import nothing, themselves or each other, one of them  *)
(* under two names, with and without its extension.                        *)
(***************************************************************************)
EXTENDS SharedLoader

MCFound == [n \in Names |-> IF n = "a" THEN {"a.pc"} ELSE {"b.pc"}]

MCTexts == {<<>>, <<"a">>, <<"b">>, <<"b.pc", "a">>, <<"a", "b">>}
=============================================================================
