------------------------------ MODULE MCMultisig ------------------------------
(***************************************************************************)
(* Three addresses that may sign, in a 2-of-2 wallet that may become any   *)
(* of the listed ones (the list with a duplicate is refused), and a payee. *)
(***************************************************************************)
EXTENDS Multisig

CONSTANTS ann, ben, cay, payee, wallet

MCAccount == {ann, ben, cay, payee, wallet}
MCSignerList == {<<ann, ben>>, <<ben, cay>>, <<cay>>, <<ann, ann>>, <<ann, ben, cay>>}
MCInitialSigners == <<ann, ben>>
MCAmount == {-1, 0, 1, 2}

===============================================================================
