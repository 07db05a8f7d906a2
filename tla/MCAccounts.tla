----------------------------- MODULE MCAccounts -----------------------------
(* Instances of Accounts: an administrator and two users of the directory,    *)
(* which lists their groups in opposite orders, until one of the two is       *)
(* created locally; and two administrators who demote each other.             *)
EXTENDS Accounts

CONSTANTS alice, bob, g1, g2, g3

BothOrders == {<<g1, g2>>, <<g2, g1>>, <<g3>>}

Asks(op, u) == [op |-> op, user |-> u]
Everything == {Asks("createAdmin", bob), Asks("setPassword", bob), Asks("disable", alice)}
              \cup {[op |-> op] : op \in {"createAdminToken", "revokeToken", "logout", "updateLDAP"}}
EachOther == {Asks("demote", alice), Asks("demote", bob), Asks("disable", alice), Asks("promote", bob)}
=============================================================================
