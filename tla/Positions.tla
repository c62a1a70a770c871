----------------------------- MODULE Positions -----------------------------
(***************************************************************************)
(* Where an iterator over a set of integers may stand: at <<x>>, or, when  *)
(* it is not Valid(), at << >>.                                            *)
(***************************************************************************)
EXTENDS Integers

Least(S) == IF S = {} THEN << >> ELSE <<CHOOSE x \in S : \A y \in S : x <= y>>
Greatest(S) == IF S = {} THEN << >> ELSE <<CHOOSE x \in S : \A y \in S : x >= y>>

AtOrAfter(S, t) == Least({x \in S : x >= t})
After(S, t) == Least({x \in S : x > t})
Before(S, t) == Greatest({x \in S : x < t})
=============================================================================
