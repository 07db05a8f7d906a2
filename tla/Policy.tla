------------------------------- MODULE Policy -------------------------------
(***************************************************************************)
(* What an access policy decides (internal/policy/policy.go, Evaluate) and *)
(* which resolved addresses no policy can open (internal/proxy/security.go,*)
(* Guard.Resolve).  A rule is kept as what it denotes: an exact host, a    *)
(* domain suffix or a URL prefix is the set of targets it matches, a CIDR  *)
(* block the set of addresses it contains.                                 *)
(***************************************************************************)
EXTENDS Naturals, Sequences, FiniteSets

CONSTANTS Target,     \* the URLs requests ask for
          Address,    \* the IP addresses names resolve to
          NonPublic,  \* addresses of nonPublicPrefixes
          HardDenied  \* cloud metadata addresses

ASSUME PolicyAssumption == NonPublic \subseteq Address /\ HardDenied \subseteq Address

Mode == {"deny_intranet", "whitelist", "blacklist", "deny_all"}
Rule == [targets : SUBSET Target, addrs : SUBSET Address]

\* match: a CIDR rule matches when any of the resolved addresses is inside.
Matches(rule, t, A) == t \in rule.targets \/ A \cap rule.addrs # {}
MatchesAny(rules, t, A) == \E rule \in rules : Matches(rule, t, A)

\* One policy's verdict in the loop of Evaluate.
DeniesFirstAddressOnly(p, t, A) ==
    \/ p.mode = "deny_all"
    \/ p.mode = "whitelist" /\ ~MatchesAny(p.rules, t, A)
    \/ p.mode = "blacklist" /\ MatchesAny(p.rules, t, A)
    \/ p.mode = "deny_intranet" /\ (A \subseteq NonPublic \/ MatchesAny(p.rules, t, A))
Denies(p, t, A) ==
    \/ p.mode = "deny_all"
    \/ p.mode = "whitelist" /\ ~MatchesAny(p.rules, t, A)
    \/ p.mode = "blacklist" /\ MatchesAny(p.rules, t, A)
    \/ p.mode = "deny_intranet" /\ (A \cap NonPublic # {} \/ MatchesAny(p.rules, t, A))

\* No policy at all denies; otherwise every policy must let the target pass.
Evaluate(policies, t, A) == policies # {} /\ \A p \in policies : ~Denies(p, t, A)

AddressSet(s) == {s[i] : i \in DOMAIN s}

\* Guard.Resolve refuses an answer that contains a hard-denied address.
Resolvable(s) == s # <<>> /\ AddressSet(s) \cap HardDenied = {}

=============================================================================
