------------------------------ MODULE MCAccess ------------------------------
(* Instances of Access: one request against an administrator who edits       *)
(* everything; rules on targets and on addresses; names that resolve to a    *)
(* public, a private, a metadata or several addresses.                       *)
EXTENDS Access

CONSTANTS t1, t2, public, private, metadata

Names == {<<public>>, <<public, private>>, <<private, public>>, <<metadata>>}
PublicOnly == {<<public>>}

OnTarget(t) == [targets |-> {t}, addrs |-> {}]
OnPrivate == [targets |-> {}, addrs |-> {private}]

Save(mode, rules) == [mode |-> mode, rules |-> rules, enabled |-> TRUE]

TwoModes == {Save("whitelist", {OnTarget(t1), OnPrivate}), Save("deny_intranet", {OnTarget(t2)})}
DenyT1 == {Save("blacklist", {OnTarget(t1)})}
\* Two edits that both deny t1.
DenyEither == {Save("blacklist", {OnTarget(t1)}), Save("whitelist", {OnTarget(t2)})}
=============================================================================
