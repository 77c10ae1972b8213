---------------------------- MODULE PluginPayload ----------------------------
(***************************************************************************)
(* What a plugin payload means: internal/plugin/validate.go,               *)
(* schema_validate.go, objecthash.go, asn.go, cidr.go, and the readers of  *)
(* state.go, torrent.go and prestart.go.                                   *)
(*                                                                         *)
(* A payload is a record with one field per section.  A section is Absent, *)
(* Malformed (another JSON type than the code expects) or a record; so is  *)
(* a field of a section.  A string of a list is an address, a prefix, the  *)
(* name of a shared list, or Junk.                                         *)
(***************************************************************************)
EXTENDS Integers, FiniteSets, Sequences, SequencesExt

CONSTANTS
  Absent, Malformed,
  Addrs,          \* plain addresses, of both families
  Nets,           \* prefixes of more than one address
  Names,          \* "ext:" references to shared lists
  Junk,           \* a string that is none of these
  ASNs,
  NetAddrs,       \* [Nets -> SUBSET Addrs]: the addresses of a prefix
  ASNNets,        \* [ASNs -> SUBSET Nets]: the ASN database
  ASNLoaded,      \* was the ASN database opened at startup?
  V6,             \* the addresses and prefixes of the second family
  AlwaysIgnored,  \* defaultIgnoredIPs
  Joined(_)       \* the text of a list: its items, joined with commas

ASSUME PayloadAssumption ==
  /\ NetAddrs \in [Nets -> SUBSET Addrs]
  /\ ASNNets \in [ASNs -> SUBSET Nets]
  /\ ASNLoaded \in BOOLEAN
  /\ V6 \subseteq Addrs \cup Nets
  /\ AlwaysIgnored \subseteq Addrs
  /\ Addrs \cap Nets = {} /\ Names \cap (Addrs \cup Nets) = {}

-----------------------------------------------------------------------------
(* Validation. *)

Present(x) == x \notin {Absent, Malformed}
IsList(x, items) == Present(x) /\ Range(x) \subseteq items

\* isIPOrExt and isIPCidrOrExt: a shared list's name need not exist.
AddrItems == Addrs \cup Names
NetItems  == AddrItems \cup Nets

ValidSharedLists(lists) ==
  lists # Malformed /\
  (lists # Absent =>
     \A i \in DOMAIN lists :
       LET entry == lists[i] IN
       /\ entry.name \in Names
       /\ \/ entry.type = "ipList" /\ IsList(entry.items, Addrs \cup Nets)
          \/ entry.type = "asList" /\ IsList(entry.items, ASNs))

\* The validators of the sections take nil for a section that is not there.
ValidIngress(s) ==
  s = Absent \/ (s # Malformed /\ s.enabled \in BOOLEAN /\ IsList(s.blockedIps, NetItems))

Ports == 1..65535

ValidEgress(s) ==
  s = Absent \/
  (/\ s # Malformed /\ s.enabled \in BOOLEAN
   /\ s.blockedIps = Absent \/ IsList(s.blockedIps, NetItems)
   /\ s.blockedPorts = Absent \/ IsList(s.blockedPorts, Ports))

ValidConnectionDrop(s) ==
  s = Absent \/ (s # Malformed /\ s.enabled \in BOOLEAN /\ IsList(s.whitelistIps, AddrItems))

ValidTorrentBlocker(s) ==
  s = Absent \/
  (/\ s # Malformed /\ s.enabled \in BOOLEAN /\ s.blockDuration \in Int
   /\ Present(s.ignoreLists)
   /\ s.ignoreLists.ip = Absent \/ IsList(s.ignoreLists.ip, AddrItems)
   /\ s.includeRuleTags # Malformed
   /\ s.includeRuleTags # <<>>)

\* A payload whose configuration is null or no object has nothing to validate.
ValidatePluginConfig(c) ==
  c # Malformed /\
  (/\ ValidSharedLists(c.sharedLists)
   /\ ValidIngress(c.ingressFilter)
   /\ ValidEgress(c.egressFilter)
   /\ ValidConnectionDrop(c.connectionDrop)
   /\ ValidTorrentBlocker(c.torrentBlocker))

-----------------------------------------------------------------------------
(* Shared lists and prefixes. *)

Items(list) == IF Present(list) THEN Range(list) ELSE {}

Entries(entry) ==
  IF entry.type = "ipList" THEN Range(entry.items)
  ELSE IF ASNLoaded THEN UNION {ASNNets[n] : n \in Range(entry.items)} ELSE {}

\* The entries are read in order into a map: the last of a name stands.
SharedList(c, name) ==
  LET lists == c.sharedLists
      Named == IF Present(lists) THEN {i \in DOMAIN lists : lists[i].name = name} ELSE {}
  IN UNION {Entries(lists[i]) : i \in {j \in Named : \A k \in Named : k <= j}}

ResolveIPList(c, list) ==
  UNION {IF i \in Names THEN SharedList(c, i) ELSE {i} : i \in Items(list)}

\* The elements of an interval set, as the addresses they cover: prefixes are
\* merged, so no two of them overlap and nft takes them in one batch.
NormalizeFilterPrefixes(items) ==
  UNION {IF i \in Nets THEN NetAddrs[i] ELSE {i} : i \in items}

-----------------------------------------------------------------------------
(* What UpdateFromSync keeps of a payload, and what syncFilters feeds to nft. *)

On(section) == Present(section) /\ section.enabled = TRUE

\* The ignored addresses are looked up by exact string: a prefix among them,
\* which only a shared list can bring, matches no address.
NoTorrent == [enabled |-> FALSE, tags |-> <<>>, ignored |-> {}]

TorrentSettings(c) ==
  IF ~On(c.torrentBlocker) THEN NoTorrent
  ELSE [enabled |-> TRUE,
        tags    |-> IF Present(c.torrentBlocker.includeRuleTags)
                      THEN c.torrentBlocker.includeRuleTags ELSE <<>>,
        ignored |-> ResolveIPList(c, c.torrentBlocker.ignoreLists.ip)]

\* hashIncludeRuleTags: the tags, sorted and joined.
HashTags(tags) == [t \in Range(tags) |-> Cardinality({i \in DOMAIN tags : tags[i] = t})]

\* hashPluginConfig: the payload with the text of every list.
HashPluginConfig(c) ==
  [shared  |-> IF Present(c.sharedLists)
                 THEN [i \in DOMAIN c.sharedLists |->
                         [c.sharedLists[i] EXCEPT !.items = Joined(@)]]
                 ELSE c.sharedLists,
   ingress |-> IF Present(c.ingressFilter)
                 THEN [c.ingressFilter EXCEPT !.blockedIps = Joined(@)] ELSE c.ingressFilter,
   egress  |-> IF Present(c.egressFilter)
                 THEN [c.egressFilter EXCEPT !.blockedIps = Joined(@), !.blockedPorts = Joined(@)]
                 ELSE c.egressFilter,
   drop    |-> IF Present(c.connectionDrop)
                 THEN [c.connectionDrop EXCEPT !.whitelistIps = Joined(@)] ELSE c.connectionDrop,
   torrent |-> IF Present(c.torrentBlocker)
                 THEN [c.torrentBlocker EXCEPT !.includeRuleTags = Joined(@),
                                               !.ignoreLists = [@ EXCEPT !.ip = Joined(@)]]
                 ELSE c.torrentBlocker]

\* The nft scripts of syncIngressFilter and syncEgressFilter, in order; those
\* of a filter that have nothing to add are not run.
Script(filter, set, elements) ==
  IF elements = {} THEN <<>> ELSE <<[filter |-> filter, set |-> set, elements |-> elements]>>

IPScripts(filter, items) ==
  Script(filter, filter, NormalizeFilterPrefixes(items \ V6) \ V6)
  \o Script(filter, filter, NormalizeFilterPrefixes(items) \cap V6)

FilterScripts(c) ==
  (IF On(c.ingressFilter)
     THEN IPScripts("ingress", ResolveIPList(c, c.ingressFilter.blockedIps)) ELSE <<>>)
  \o (IF On(c.egressFilter)
        THEN IPScripts("egress", ResolveIPList(c, c.egressFilter.blockedIps))
             \o Script("egress", "ports", Items(c.egressFilter.blockedPorts))
             \o Script("egress", "ports6", Items(c.egressFilter.blockedPorts))
        ELSE <<>>)
=============================================================================
