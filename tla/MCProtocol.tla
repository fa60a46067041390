----------------------------- MODULE MCProtocol -----------------------------
(***************************************************************************)
(* Instances of parts of the server that work for one connection: export   *)
(* names, block status and the queries of extents.                         *)
(* They share no state that these models have, so each behaviour is one of *)
(* a single part, chosen at first; the others stay as they are.            *)
(***************************************************************************)
EXTENDS BlockStatus, FiniteSets

CONSTANTS Parts, NULL

VARIABLES
    part,
    disk, fn, first, last, qpc, qexts, offset,
    chain, peer, undefined, rules, ephase, etls, default_exportname, elisted, names

MixedTypes == {{"hole"}, {"zero"}}      \* their intersection differs from both

Q == INSTANCE ExtentQueries WITH pc <- qpc, exts <- qexts, Half <- 16,
        MAX_EXTENTS <- 8, DiskSize <- 8, DiskTypes <- MixedTypes, Align <- 4,
        Calls <- {"full", "aligned"}
D == INSTANCE Exports WITH phase <- ephase, using_tls <- etls, listed <- elisted,
        MAX_EXPORTS <- 3, Setups <- {}, Requested <- {}     \* for its definitions

\* Export names: chains of a filter or two over each kind of plugin.
ExportName(list, strict, ns, default, desc) ==
    [f |-> "exportname", list |-> list, strict |-> strict, names |-> ns,
     default |-> default, desc |-> desc]
ExportNames ==
    {ExportName(li, st, ns, d, "keep") :
        li \in {"keep", "error", "empty", "defaultonly", "explicit"},
        st \in BOOLEAN, ns \in {<<>>, <<"a">>, <<"", "a">>}, d \in {NULL, "a"}}
    \cup {ExportName(li, FALSE, <<"a", "b", "a">>, NULL, de) :
             li \in {"keep", "explicit"}, de \in {"none", "fixed", "script"}}
Ip(allow, deny) == [f |-> "ip", allow |-> allow, deny |-> deny]
Rule(t) == [type |-> t]
Addr(t, a, p) == [type |-> t, addr |-> a, prefixlen |-> p]
Id(t, n) == [type |-> t, id |-> n]
DN(t, g) == [type |-> t, glob |-> g]
Label(x) == [type |-> "SECURITY", label |-> x]
Ips ==
    {Ip(<<<<r>>>>, <<<<Rule("ANY")>>>>) :
        r \in {Rule(t) : t \in D!AnyRules} \cup {DN(t, "dn") : t \in D!DNRules}
              \cup {Id(t, n) : t \in D!UnixRules \cup D!VsockRules, n \in {-1, 5}}
              \cup {Label("label"), Rule("BAD")}}
    \cup {Ip(<<>>, <<<<Addr(t, a, p)>>>>) :
             t \in D!IpRules, a \in {0, 5, 12}, p \in {NULL} \cup 0 .. D!Width + 1}
    \cup {Ip(<<<<r, q>>>>, <<<<Rule("ANYV4")>>, <<Rule("ANYV6")>>>>) :
             r, q \in {Addr("IPV4", 5, NULL), Addr("IPV6", 4, 2), Id("PID", 5), Label("label")}}
    \cup {Ip(<<>>, <<>>)}
Fallback == [f |-> "tls-fallback"]
Filters == {Fallback, [f |-> "log"]} \cup {[f |-> "ext2", file |-> b] : b \in BOOLEAN}

Directory == <<".", "a", ".hidden", "default">>
Sh == [f |-> "sh", default |-> [t \in BOOLEAN |-> IF t THEN "b" ELSE "a"],
       exports |-> <<<<"a", "about">>, <<"b", NULL>>>>]
PluginKinds ==
    {Sh, [Sh EXCEPT !.default = [t \in BOOLEAN |-> D!Long]],
     [Sh EXCEPT !.exports = <<<<"a", NULL>>, <<"a", D!Long>>>>],
     [Sh EXCEPT !.exports = <<<<"a", NULL>>, <<"b", NULL>>, <<"a", NULL>>, <<"b", NULL>>>>],
     [f |-> "plain"], [f |-> "ondemand", files |-> Directory]}
    \cup {[f |-> "file", mode |-> m, files |-> Directory] : m \in {"filename", "directory"}}
Peer(f, a, label, dn) == [family |-> f, addr |-> a, label |-> label, dn |-> dn]
Clients ==
    {Peer(f, a, "none", NULL) : f \in {"inet", "inet6"}, a \in {0, 4, 5, 13}}
    \cup {Peer(f, 5, l, d) : f \in {"unix", "vsock", "failed"}, l \in {"none", "label"},
             d \in {NULL, "dn"}}
MCSetups ==
    {[chain |-> <<x, Sh>>, peer |-> c] : x \in Ips, c \in Clients}
    \cup {[chain |-> <<Ip(<<>>, <<<<DN("DN", "dn")>>>>), Fallback, Sh>>, peer |-> c] : c \in Clients}
    \cup {[chain |-> ch, peer |-> Peer("inet", 4, "none", NULL)] : ch \in
             {<<e, p>> : e \in ExportNames, p \in PluginKinds}
             \cup {<<e, x, Sh>> : e \in ExportNames, x \in Filters}
             \cup {<<x, e, Sh>> : e \in ExportNames, x \in Filters}
             \cup {<<x, p>> : x \in Filters, p \in PluginKinds}}
E == INSTANCE Exports WITH phase <- ephase, using_tls <- etls, listed <- elisted,
        MAX_EXPORTS <- 3, Setups <- MCSetups, Requested <- {"", "a", "b", ".hidden"}

queries == <<disk, fn, first, last, qpc, qexts, offset>>
exports == <<chain, peer, undefined, rules, ephase, etls, default_exportname,
             elisted, names>>
everything == <<part, vars, queries, exports>>

-----------------------------------------------------------------------------
(* A part that is not chosen is in one of its initial states. *)

BlockStatusInit ==
    /\ part # "block status" => req = [offset |-> 0, count |-> 1, req_one |-> FALSE]
    /\ Init
QueriesInit ==
    IF part = "queries" THEN Q!Init
    ELSE /\ disk = [b \in 0 .. 7 |-> {"hole"}] /\ fn = "full" /\ first = 0 /\ last = 8
         /\ qpc = "query" /\ qexts = Q!nbdkit_extents_new(0, 8) /\ offset = 0
ExportsInit ==
    /\ part # "exports" => /\ undefined = 0
                           /\ chain = <<[f |-> "plain"]>> /\ peer = [family |-> "unix"]
    /\ part = "exports" => E!Init
    /\ part # "exports" => /\ rules = <<>> /\ ephase = "config" /\ etls = FALSE
                           /\ default_exportname = <<NULL>>
                           /\ elisted = <<>> /\ names = <<>>
PartInit ==
    /\ part \in Parts
    /\ BlockStatusInit /\ QueriesInit /\ ExportsInit

BlockStatusNext ==
    /\ part = "block status" /\ Next
    /\ UNCHANGED <<part, queries, exports>>
QueriesNext ==
    /\ part = "queries" /\ Q!Next
    /\ UNCHANGED <<part, vars, exports>>
ExportsNext ==
    /\ part = "exports" /\ E!Next
    /\ UNCHANGED <<part, vars, queries>>
PartNext == BlockStatusNext \/ QueriesNext \/ ExportsNext

PartSpec == PartInit /\ [][PartNext]_everything

-----------------------------------------------------------------------------
\* nbdkit_extents_full covers its range, nbdkit_extents_aligned returns aligned
\* extents, and neither claims a hole or zeroes where there is data.
QueriesAreSound ==
    Q!ListWellFormed /\ Q!ResultAligned /\ Q!TypesAreSafe /\ Q!FullCovers
\* Default names are never remembered across STARTTLS, and no list shows the
\* names that a filter hides.
NamesAreCurrent == E!NamesAreCurrent
\* The allow and deny lists of the ip filter decide, and nothing else does.
RulesDecide == E!RulesDecide
=============================================================================
