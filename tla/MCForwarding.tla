----------------------------- MODULE MCForwarding -----------------------------
(* Two providers of unequal weight behind one host.                        *)
EXTENDS Forwarding

MCProvider == 1 .. 2
MCWeight == <<2, 1>>
MCHostOf == [p \in Provider |-> CHOOSE h \in Host : TRUE]

===============================================================================
