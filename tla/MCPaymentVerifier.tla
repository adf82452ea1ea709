--------------------------- MODULE MCPaymentVerifier ---------------------------
(***************************************************************************)
(* Four hashes, pages of at most two records, indices up to four.          *)
(***************************************************************************)
EXTENDS PaymentVerifier, TLC

CONSTANTS admin, other, h1, h2, h3, h4

MCAddress == {admin, other}
MCHash == {h1, h2, h3, h4}
MCAmount == {-1, 0, 1, 2}
MCLimit == {0, 1, 3, 4}

Symmetry == Permutations(MCHash)

================================================================================
