----------------------------- MODULE MCCryptoHandle -----------------------------
(* Two objects of any kind, with one context more than they need. *)
EXTENDS CryptoHandle, TLC

CONSTANTS c1, c2, c3, h1, h2

CtxSymmetry == Permutations(Ctx)

\* A size no key has, two that keys have.
RsaSize == {-1, 2, 3}
================================================================================
