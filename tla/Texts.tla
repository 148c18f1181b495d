------------------------------- MODULE Texts -------------------------------
(* Searching a text, a sequence of characters and words: find and substr.  *)
EXTENDS Sequences, SequencesExt

\* What is before the first c, everything when there is none, and after it.
Upto(s, c) == LET i == SelectInSeq(s, LAMBDA e : e = c)
              IN IF i = 0 THEN s ELSE SubSeq(s, 1, i - 1)
After(s, c) == SubSeq(s, Len(Upto(s, c)) + 2, Len(s))
=============================================================================
