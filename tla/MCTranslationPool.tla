------------------------- MODULE MCTranslationPool -------------------------
(* The instance of TranslationPool for TLC: see the cfg for the bounds.    *)
EXTENDS TranslationPool

=============================================================================
