--------------------------- MODULE MCPluginService ---------------------------
EXTENDS PluginService

CONSTANTS p1, p2, a1, a2, b1, n1, ext, t1, t2, u1, u2, as1

MCNetAddrs == [n \in Nets |-> {a1}]
MCASNNets  == [n \in ASNs |-> {n1}]

\* No two of the lists below are written alike.
MCJoined(list) == list

NoPayload == [sharedLists |-> Absent, ingressFilter |-> Absent, egressFilter |-> Absent,
              connectionDrop |-> Absent, torrentBlocker |-> Absent]
Torrent(tags, ignored) ==
  [enabled |-> TRUE, blockDuration |-> 300, ignoreLists |-> [ip |-> ignored], includeRuleTags |-> tags]

\* Blocker on tag t1.
Tagged == [NoPayload EXCEPT !.torrentBlocker = Torrent(<<t1>>, Absent)]
\* Blocker on all rules, a2 ignored and whitelisted.
Sparing == [NoPayload EXCEPT
  !.connectionDrop = [enabled |-> TRUE, whitelistIps |-> <<a2>>],
  !.torrentBlocker = Torrent(<<t1, t2>>, <<a2>>)]
\* No blocker; an ingress filter through a shared list of the ASN database, and
\* an egress filter of ports.
Filtering == [NoPayload EXCEPT
  !.sharedLists = <<[name |-> ext, type |-> "asList", items |-> <<as1>>]>>,
  !.ingressFilter = [enabled |-> TRUE, blockedIps |-> <<ext, a2>>],
  !.egressFilter = [enabled |-> TRUE, blockedIps |-> Absent, blockedPorts |-> <<1, 2>>]]

MCPlugins == {Tagged, Sparing, Filtering, Malformed}
MCHooks == {[ip |-> a2, user |-> u1], [ip |-> a1, user |-> u2], [ip |-> b1, user |-> u1]}
MCIgnoredUsers == [c \in MCPlugins |-> IF c = Sparing THEN {u2} ELSE {}]
MCIPLists == {<<a2, Junk>>}
MCSymmetry == Permutations(Clients)
=============================================================================
