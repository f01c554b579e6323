----------------------------- MODULE MCTokStream -----------------------------
(* Texts of up to MaxText tokens over one good and one bad token type.       *)
EXTENDS TokStream

CONSTANT MaxText

MCTexts == UNION {[1 .. n -> Types] : n \in 0 .. MaxText}
=============================================================================
