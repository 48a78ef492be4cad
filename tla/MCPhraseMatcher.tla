-------------------------- MODULE MCPhraseMatcher --------------------------
(* The instance of PhraseMatcher in engine.test.ts: the phrases 'djt' and  *)
(* 'maga', and the candidate 'DJT Patriot' with the symbol 'DJT'.          *)
EXTENDS PhraseMatcher

MCLetter == {"d", "j", "t", "m", "a", "g", "p", "r", "i", "o"}
MCPhraseSets == {{<<"d", "j", "t">>, <<"m", "a", "g", "a">>}}
MCTexts == {<<"d", "j", "t", " ", "p", "a", "t", "r", "i", "o", "t", " ",
              "d", "j", "t">>}
=============================================================================
