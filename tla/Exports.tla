------------------------------- MODULE Exports -------------------------------
(***************************************************************************)
(* Export names during the handshake of one connection: the lists, default *)
(* names and .open calls of the server (server/exports.c, backend.c), of   *)
(* the filters that have a say in them (exportname, ext2, ip, tls-fallback)*)
(* and of the plugins.  A chain is a sequence of layers, the plugin last.  *)
(***************************************************************************)
EXTENDS Integers, Sequences, SequencesExt, Bitwise

CONSTANTS
    Setups,         \* command lines, with what is known of the client
    Requested,      \* names that the client asks for
    MAX_EXPORTS,
    NULL            \* no string

VARIABLES
    chain, peer,
    undefined,      \* what 0xffffffff << 32 gives in this build
    rules,          \* allow_rules and deny_rules of each ip filter
    phase,          \* "config", "connecting", "options", "open" or "closed"
    using_tls,
    default_exportname,
    listed,         \* the last reply to NBD_OPT_LIST
    names           \* the export name each layer was opened with

vars == <<chain, peer, undefined, rules, phase, using_tls, default_exportname,
          listed, names>>
client == <<chain, peer, undefined, rules>>

Width == 4          \* bits of an address, 32 or 128 in the code
Byte == 2           \* bits of a byte of an IPv6 address, 8 in the code
Long == "long"      \* longer than NBD_MAX_STRING
Plugin == Len(chain)

-----------------------------------------------------------------------------
(* The rules of the ip filter.  A parameter is the sequence of its items.  *)

AnyRules == {"ANY", "ANYV4", "ANYV6", "ANYUNIX", "ANYVSOCK"}
DNRules == {"DN", "ISSUER_DN"}
UnixRules == {"PID", "UID", "GID"}
VsockRules == {"VSOCKCID", "VSOCKPORT"}
IpRules == {"IPV4", "IPV6"}

\* A number and a wildcard go on to the end of the parameter, and so does the
\* search for the slash of a prefix length; NULL is a rule that is refused.
parse_rule(items, k) ==
    LET r == items[k]
        last == k = Len(items)
        slashes == {j \in k .. Len(items) :
                       items[j].type \in IpRules /\ items[j].prefixlen # NULL}
    IN  CASE r.type \in AnyRules \cup {"SECURITY"} -> r
          [] r.type \in DNRules -> IF last THEN r ELSE [r EXCEPT !.glob = Long]
          [] r.type \in UnixRules \cup VsockRules ->
                IF last /\ r.id >= (IF r.type = "PID" THEN 1 ELSE 0) THEN r
                ELSE [r EXCEPT !.type = "BAD"]
          [] r.type \in IpRules ->
                IF slashes = {} THEN [r EXCEPT !.prefixlen = Width]
                ELSE IF k \in slashes /\ r.prefixlen <= Width THEN r
                ELSE [r EXCEPT !.type = "BAD"]
          [] OTHER -> r
parse_rules(items) == [k \in 1 .. Len(items) |-> parse_rule(items, k)]
Parsed(params) == FlattenSeq([j \in 1 .. Len(params) |-> parse_rules(params[j])])
late_filtering(i) ==
    \E side \in {"allow", "deny"} : \E k \in 1 .. Len(rules[i][side]) :
        rules[i][side][k].type \in DNRules

\* Byte by byte, and the bits that are left.
ipv6_equal(a, b, prefixlen) ==
    LET byte(x, n) == (x \div 2 ^ (Width - Byte * (n + 1))) % 2 ^ Byte
        whole == prefixlen \div Byte
        mask == ((2 ^ Byte - 1) * 2 ^ (Byte - (prefixlen % Byte))) % 2 ^ Byte
    IN  /\ \A n \in 0 .. whole - 1 : byte(a, n) = byte(b, n)
        /\ prefixlen % Byte # 0 =>
              (byte(a, whole) & mask) = (byte(b, whole) & mask)
ipv4_mask(prefixlen) ==
    IF prefixlen = 0 THEN undefined
    ELSE ((2 ^ Width - 1) * 2 ^ (Width - prefixlen)) % 2 ^ Width

dn_matches(dn, glob) == using_tls /\ dn # NULL /\ dn = glob
matches_rule(r) ==
    LET f == peer.family
    IN  \/ r.type = "ANY"
        \/ r.type = "ANYV4" /\ f = "inet"
        \/ r.type = "ANYV6" /\ f = "inet6"
        \/ r.type = "ANYUNIX" /\ f = "unix"
        \/ r.type = "ANYVSOCK" /\ f = "vsock"
        \/ /\ r.type = "IPV4" /\ f = "inet"
           /\ (peer.addr & ipv4_mask(r.prefixlen)) = (r.addr & ipv4_mask(r.prefixlen))
        \/ r.type = "IPV6" /\ f = "inet6" /\ ipv6_equal(peer.addr, r.addr, r.prefixlen)
        \/ r.type \in DNRules /\ dn_matches(peer.dn, r.glob)
        \/ r.type \in UnixRules /\ f = "unix" /\ peer.addr = r.id
        \/ r.type \in VsockRules /\ f = "vsock" /\ peer.addr = r.id
        \/ r.type = "SECURITY" /\ f \in {"unix", "inet", "inet6"} /\ peer.label = r.label
matches_rules_list(rs) == \E k \in 1 .. Len(rs) : matches_rule(rs[k])
\* Mutant: the deny list is tried first.
check_deny_first(i) ==
    /\ peer.family # "failed"
    /\ ~matches_rules_list(rules[i].deny)
check_if_allowed(i) ==
    /\ peer.family # "failed"
    /\ matches_rules_list(rules[i].allow) \/ ~matches_rules_list(rules[i].deny)

-----------------------------------------------------------------------------
(* Default names.  The answer of a layer and what it leaves in the cache.  *)

RECURSIVE backend_default_export(_, _, _)

exportname_default_export(l, below) ==
    IF l.strict THEN IF Contains(l.names, "")
                     THEN [below EXCEPT !.s = IF l.default = NULL THEN "" ELSE l.default]
                     ELSE [below EXCEPT !.s = NULL]
    ELSE IF l.default # NULL THEN [below EXCEPT !.s = l.default]
    ELSE below
\* .default_export of layer i, which asks the layer below or not
default_export(i, tls, cache) ==
    LET l == chain[i]
        below == backend_default_export(i + 1, tls, cache)
        own(s) == [s |-> s, cache |-> cache]
    IN  CASE l.f = "exportname" ->
                IF l.strict \/ l.default # NULL
                THEN exportname_default_export(l, own(NULL))
                ELSE exportname_default_export(l, below)
          [] l.f = "tls-fallback" /\ ~tls -> own("")
          [] l.f = "ext2" -> own(IF l.file THEN "" ELSE NULL)
          [] l.f = "ondemand" -> own("default")
          [] l.f = "sh" -> own(l.default[tls])
          [] l.f \in {"file", "plain"} -> own("")
          [] OTHER -> below
backend_default_export(i, tls, cache) ==
    IF cache[i] # NULL THEN [s |-> cache[i], cache |-> cache]
    ELSE LET r == default_export(i, tls, cache)
             s == IF r.s = Long THEN NULL ELSE r.s
         IN  [s |-> s, cache |-> [r.cache EXCEPT ![i] = s]]

-----------------------------------------------------------------------------
(* Lists.  An export is a name with a description, which may be NULL.      *)

\* exps is NULL once an export could not be added.
nbdkit_add_export(exps, e) ==
    IF exps = NULL THEN NULL
    ELSE IF Len(exps[1]) = MAX_EXPORTS \/ Long \in {e[1], e[2]} THEN NULL
    ELSE <<Append(exps[1], e)>>
add_exports(es) == FoldLeft(nbdkit_add_export, <<<<>>>>, es)
Plain(ns) == [k \in 1 .. Len(ns) |-> <<ns[k], NULL>>]

\* DESC_KEEP, DESC_NONE, DESC_FIXED or DESC_SCRIPT, which never is too long
get_desc(l, name, def) ==
    CASE l.desc = "keep" -> def
      [] l.desc = "none" -> NULL
      [] l.desc = "fixed" -> "fixed"
      [] l.desc = "script" -> name

RECURSIVE backend_list_exports(_, _, _)

\* What a layer does with the list: it has its own, or uses the default
\* export, or asks the next layer.
Own(exps) == [use |-> "own", exps |-> exps]
UseDefault == [use |-> "default"]
AskNext == [use |-> "next"]

exportname_list_exports(l) ==
    CASE l.list = "keep" -> AskNext
      [] l.list = "error" -> Own(NULL)
      [] l.list = "empty" -> Own(<<<<>>>>)
      [] l.list = "defaultonly" -> UseDefault
      [] l.list = "explicit" ->
            Own(add_exports([k \in 1 .. Len(l.names) |->
                                <<l.names[k], get_desc(l, l.names[k], NULL)>>]))
ondemand_list_exports(l, default_only) ==
    add_exports(Plain(<<"">> \o IF default_only THEN <<>>
                      ELSE SelectSeq(l.files, LAMBDA n : n \notin {"default", ".hidden"})))
file_list_exports(l) ==
    add_exports(Plain(IF l.mode \in {"filename", "fd"} THEN <<"">>
                      ELSE SelectSeq(l.files, LAMBDA n : n # ".")))
list_exports(i, tls) ==
    LET l == chain[i]
    IN  CASE l.f = "exportname" -> exportname_list_exports(l)
          [] l.f = "tls-fallback" /\ ~tls -> Own(add_exports(Plain(<<"">>)))
          [] l.f = "ext2" /\ ~l.file -> Own(<<<<>>>>)
          [] l.f = "ip" /\ late_filtering(i) /\ ~check_if_allowed(i) -> Own(NULL)
          [] l.f = "ondemand" -> Own(ondemand_list_exports(l, tls))
          [] l.f = "file" -> Own(file_list_exports(l))
          [] l.f = "sh" -> Own(add_exports(l.exports))
          [] l.f = "plain" -> UseDefault
          [] OTHER -> AskNext
\* With a description of its own for every export of the list
described(i, exps) ==
    LET l == chain[i]
    IN  IF l.f # "exportname" \/ exps = NULL THEN exps
        ELSE add_exports([k \in 1 .. Len(exps[1]) |->
                 <<exps[1][k][1], get_desc(l, exps[1][k][1], exps[1][k][2])>>])
exports_resolve_default(i, tls, cache) ==
    LET d == backend_default_export(i, tls, cache)
    IN  [exps |-> IF d.s = NULL THEN <<<<>>>> ELSE add_exports(Plain(<<d.s>>)),
         cache |-> d.cache]
backend_list_exports(i, tls, cache) ==
    LET r == list_exports(i, tls)
        below == backend_list_exports(i + 1, tls, cache)
    IN  CASE r.use = "default" -> exports_resolve_default(i, tls, cache)
          [] r.use = "next" -> [below EXCEPT !.exps = described(i, @)]
          [] r.use = "own" -> [exps |-> r.exps, cache |-> cache]

-----------------------------------------------------------------------------
(* .open, from the top: the names that the layers are opened with, and     *)
(* whether the last one of them was refused.                               *)

RECURSIVE backend_open(_, _, _, _)

\* Names that a layer refuses itself
refuses(i, name) ==
    LET l == chain[i]
    IN  \/ l.f = "exportname" /\ l.strict /\ ~Contains(l.names, name)
        \/ l.f = "ip" /\ late_filtering(i) /\ ~check_if_allowed(i)
        \/ l.f = "ondemand" /\ name = ".hidden"
        \/ l.f = "file" /\ l.mode \in {"directory", "dirfd"} /\ ~Contains(l.files, name)
\* The name that is passed on to the next layer
passes_on(i, name) == IF chain[i].f = "ext2" /\ ~chain[i].file THEN "" ELSE name
last_opened(i, tls) == i = Plugin \/ (chain[i].f = "tls-fallback" /\ ~tls)

backend_open(i, tls, cache, name) ==
    LET d == IF name = "" THEN backend_default_export(i, tls, cache)
             ELSE [s |-> name, cache |-> cache]
        n == d.s
        rest == backend_open(i + 1, tls, d.cache, passes_on(i, n))
    IN  IF n = NULL \/ refuses(i, n) THEN [ok |-> FALSE, names |-> <<>>, cache |-> d.cache]
        ELSE IF last_opened(i, tls) THEN [ok |-> TRUE, names |-> <<n>>, cache |-> d.cache]
        ELSE [rest EXCEPT !.names = <<n>> \o @]

-----------------------------------------------------------------------------
(* The connection *)

NoCache == [i \in 1 .. Plugin |-> NULL]
IpLayers == {i \in 1 .. Plugin : chain[i].f = "ip"}

Init ==
    /\ \E s \in Setups : chain = s.chain /\ peer = s.peer
    /\ undefined \in {0, 2 ^ Width - 1}
    /\ rules = [i \in IpLayers |-> [allow |-> <<>>, deny |-> <<>>]]
    /\ phase = "config" /\ using_tls = FALSE
    /\ default_exportname = NoCache /\ listed = <<>> /\ names = <<>>

\* nbdkit does not start when a rule is refused.
ip_config ==
    LET parsed == [i \in IpLayers |-> [allow |-> Parsed(chain[i].allow),
                                       deny |-> Parsed(chain[i].deny)]]
        bad == \E i \in IpLayers, side \in {"allow", "deny"} :
                  \E k \in 1 .. Len(parsed[i][side]) : parsed[i][side][k].type = "BAD"
    IN  /\ phase = "config"
        /\ rules' = parsed
        /\ phase' = IF bad THEN "closed" ELSE "connecting"
        /\ UNCHANGED <<chain, peer, undefined, using_tls, default_exportname,
                       listed, names>>
ip_preconnect ==
    /\ phase = "connecting"
    /\ phase' = IF \A i \in IpLayers : late_filtering(i) \/ check_if_allowed(i)
                THEN "options" ELSE "closed"
    /\ UNCHANGED <<client, using_tls, default_exportname, listed, names>>

NBD_OPT_LIST ==
    LET r == backend_list_exports(1, using_tls, default_exportname)
    IN  /\ phase = "options"
        /\ default_exportname' = r.cache
        /\ listed' = IF r.exps = NULL THEN <<>> ELSE r.exps[1]
        /\ UNCHANGED <<client, phase, using_tls, names>>
\* Mutant: what was cached in the clear is kept.
NBD_OPT_STARTTLS_cached ==
    /\ phase = "options" /\ ~using_tls
    /\ using_tls' = TRUE /\ listed' = <<>>
    /\ UNCHANGED <<client, phase, names, default_exportname>>
NBD_OPT_STARTTLS ==
    /\ phase = "options" /\ ~using_tls
    /\ using_tls' = TRUE /\ default_exportname' = NoCache
    /\ listed' = <<>>
    /\ UNCHANGED <<client, phase, names>>
NBD_OPT_GO(name) ==
    LET r == backend_open(1, using_tls, default_exportname, name)
    IN  /\ phase = "options"
        /\ default_exportname' = r.cache
        /\ IF r.ok THEN phase' = "open" /\ names' = r.names
           ELSE UNCHANGED <<phase, names>>
        /\ UNCHANGED <<client, using_tls, listed>>
\* The context of NBD_OPT_INFO is closed again.
NBD_OPT_INFO_closes ==
    /\ phase = "open"
    /\ phase' = "options" /\ names' = <<>>
    /\ UNCHANGED <<client, using_tls, default_exportname, listed>>

Next ==
    \/ ip_config \/ ip_preconnect \/ NBD_OPT_LIST \/ NBD_OPT_STARTTLS
    \/ \E n \in Requested : NBD_OPT_GO(n)
    \/ NBD_OPT_INFO_closes
Spec == Init /\ [][Next]_vars

-----------------------------------------------------------------------------
(* Whether item r of a parameter is about the client, as the manual page   *)
(* says: an address range is the addresses with the same leading bits.     *)
About(r) ==
    CASE r.type \in IpRules ->
            LET p == IF r.prefixlen = NULL THEN Width ELSE r.prefixlen
            IN  /\ peer.family = (IF r.type = "IPV4" THEN "inet" ELSE "inet6")
                /\ peer.addr \div 2 ^ (Width - p) = r.addr \div 2 ^ (Width - p)
      [] OTHER -> matches_rule(r)
AboutAny(params) ==
    \E j \in 1 .. Len(params) : \E k \in 1 .. Len(params[j]) : About(params[j][k])
UsesUndefined(params) ==
    \E j \in 1 .. Len(params) : \E k \in 1 .. Len(params[j]) :
        params[j][k].type = "IPV4" /\ params[j][k].prefixlen = 0
Permitted(l) ==
    /\ peer.family # "failed"
    /\ AboutAny(l.allow) \/ ~AboutAny(l.deny)
Refused == \E i \in IpLayers, side \in {"allow", "deny"} :
              \E k \in 1 .. Len(rules[i][side]) : rules[i][side][k].type = "BAD"
\* An export is listed or opened only for a client that the allow list of each
\* ip filter names, or that its deny list does not, whether this is known before
\* the handshake or, with a rule about a certificate, only after TLS; and no
\* other client is turned away.
RulesDecide ==
    LET decided == {i \in IpLayers : ~(UsesUndefined(chain[i].allow)
                                      \/ UsesUndefined(chain[i].deny))}
    IN  /\ listed # <<>> => \A i \in decided : Permitted(chain[i])
        /\ \A i \in decided : i <= Len(names) => Permitted(chain[i])
        /\ phase = "closed" /\ decided = IpLayers /\ ~Refused =>
              \E i \in IpLayers : ~Permitted(chain[i])
\* A default name that is remembered is the one that the layer would give now,
\* under TLS when it was negotiated; a list shows no names of the layers below
\* one that hides them; and a strict exportname filter is opened with one of
\* its names only.
NamesAreCurrent ==
    /\ \A i \in 1 .. Plugin :
          default_exportname[i] # NULL =>
             default_exportname[i] = backend_default_export(i, using_tls, NoCache).s
    /\ \A i \in 1 .. Plugin :
          \A k \in 1 .. Len(listed) :
             /\ chain[i].f = "exportname" /\ chain[i].list = "explicit"
                   /\ (\A j \in 1 .. i - 1 : list_exports(j, using_tls).use = "next")
                   => Contains(chain[i].names, listed[k][1])
             /\ chain[i].f = "exportname" /\ chain[i].desc = "none"
                   /\ (\A j \in 1 .. i - 1 : chain[j].f # "exportname")
                   => listed[k][2] = NULL
             /\ chain[i].f = "tls-fallback" /\ ~using_tls
                   /\ (\A j \in 1 .. i - 1 : list_exports(j, using_tls).use = "next")
                   => listed[k][1] = ""
    /\ \A i \in 1 .. Len(names) :
          chain[i].f = "exportname" /\ chain[i].strict => Contains(chain[i].names, names[i])
    /\ Len(listed) <= MAX_EXPORTS
=============================================================================
