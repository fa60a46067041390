------------------------------ MODULE MCLayers ------------------------------
(***************************************************************************)
(* Chains of filters to check: each filter alone in its modes, and a few   *)
(* chains in which one filter relies on another.  The disk has four or     *)
(* five units, so that windows, words and blocks start and end inside it.  *)
(***************************************************************************)
EXTENDS LayerStack

CONSTANT Parts      \* which groups of configurations

Full == [get_size |-> 4, can_write |-> 1, can_flush |-> 1, can_trim |-> 1,
         can_zero |-> NATIVE, can_fast_zero |-> 1, can_fua |-> NATIVE,
         can_cache |-> NATIVE, can_extents |-> 1, is_rotational |-> 0,
         can_multi_conn |-> 1, block_size |-> NoBlockSize]
Plain == [Full EXCEPT !.can_trim = 0, !.can_zero = EMULATE,
                      !.can_fast_zero = 0, !.can_fua = EMULATE,
                      !.can_cache = EMULATE, !.can_extents = 0]
Slow == [Full EXCEPT !.can_fast_zero = 0]
Bare == [Plain EXCEPT !.can_flush = 0, !.can_fua = NONE, !.can_cache = NONE]

R(op, off, n, flags, data) ==
    [op |-> op, off |-> off, n |-> n, flags |-> flags, data |-> data]
Read(off, n) == R("pread", off, n, {}, <<>>)
Write(off, data, flags) == R("pwrite", off, Len(data), flags, data)
Zero(off, n, flags) == R("zero", off, n, flags, <<>>)
Trim(off, n, flags) == R("trim", off, n, flags, <<>>)
Ext(off, n) == R("extents", off, n, {}, <<>>)
Flush == R("flush", 0, 0, {}, <<>>)

Fun(s) == [i \in 0 .. (Len(s) - 1) |-> s[i + 1]]
Two == 1 .. 2

\* Disk and view as sequences, the rest by name.
Conf(layers, plugin, data, seen, window, requests) ==
    [layers |-> layers, plugin |-> [plugin EXCEPT !.get_size = Len(data)],
     disk |-> Fun(data), view |-> Fun(seen), window |-> window,
     requests |-> requests, threads |-> {1}, fails |-> {}, nomem |-> FALSE,
     quits |-> FALSE, sparse |-> TRUE, readonly |-> FALSE, lies |-> FALSE,
     blurs |-> FALSE, volatile |-> FALSE, steps |-> MaxOps]

Data == <<5, 0, 6, 7>>
Mixed == {Read(0, 2), Read(1, 2), Write(0, <<8>>, {}), Write(1, <<8, 0>>, {}),
          Zero(0, 2, {"FAST_ZERO"}), Zero(1, 1, {}), Trim(0, 1, {}),
          Ext(0, 2), R("cache", 0, 2, {}, <<>>), Flush}
All == 0 .. 3

offset(o, n) == [filter |-> "offset", offset |-> o, range |-> n]
truncate(n, up, down) ==
    [filter |-> "truncate", size |-> n, up |-> up, down |-> down]
swab(bits) == [filter |-> "swab", bits |-> bits]
partition(p, table) ==
    [filter |-> "partition", partnum |-> p, sector |-> 1, table |-> table]

Gpt(es) == [kind |-> "gpt", lba |-> 2, per |-> 2, entry_size_ok |-> TRUE,
            room |-> 1, entries |-> es]
G(first, last) == [used |-> TRUE, first |-> first, last |-> last]
P(type, start, n) == [type |-> type, start |-> start, n |-> n]
NoP == P("empty", 0, 0)
Mbr(ps, ebr) == [kind |-> "mbr", primary |-> ps, ebr |-> ebr]
Logical == Mbr(<<P("data", 1, 1), P("extended", 1, 5), NoP, NoP>>,
    (1 :> [first |-> P("data", 1, 1), link |-> P("extended", 2, 2)])
    @@ (3 :> [first |-> P("data", 1, 2), link |-> NoP]))
Disk6 == <<5, 0, 6, 7, 0, 4>>

Windowed ==
    {Conf(<<offset(1, n)>>, p, Data, SubSeq(Data, 2, 1 + m), 1 .. m, Mixed) :
        <<n, m>> \in {<<-1, 3>>, <<2, 2>>}, p \in {Full, Plain}}
    \cup {Conf(<<offset(3, 2)>>, Full, Data, <<>>, {}, Mixed)}
    \cup {Conf(<<truncate(n, up, down)>>, p, Data, seen, 0 .. (MIN(m, 4) - 1),
               Mixed \cup {Read(3, 2), Write(3, <<8, 0>>, {}), Ext(3, 2),
                           Write(4, <<8>>, {}), Zero(3, 2, {}), Ext(4, 1)}) :
        <<n, up, down, m, seen>> \in
           {<<2, 0, 0, 2, <<5, 0>>>>, <<6, 0, 0, 6, Data \o <<0, 0>>>>,
            <<-1, 3, 0, 6, Data \o <<0, 0>>>>, <<-1, 0, 3, 3, <<5, 0, 6>>>>},
        p \in {Full, Plain}}
    \cup {Conf(<<swab(16)>>, Full, Append(Data, 3), <<0, 5, 7, 6>>, All,
               Mixed \cup {Read(0, 4), Ext(2, 2), Write(2, <<8, 9>>, {})})}
    \cup {Conf(<<partition(2, Gpt(<<G(3, 3), G(4, l), G(0, 0)>>))>>, Full,
               Append(Disk6, 1), <<0, 4>>, 4 .. 5, Mixed) : l \in {5, 7}}
    \cup {Conf(<<partition(2, Gpt(<<G(3, 3), G(4, 5)>>))>>, Full,
               Data, <<>>, {}, Mixed)}
    \cup {Conf(<<partition(p, Logical)>>, Full, Disk6,
               SubSeq(Disk6, o + 1, o + n), o .. (o + n - 1), Mixed) :
        <<p, o, n>> \in {<<1, 1, 1>>, <<5, 2, 1>>, <<6, 4, 2>>, <<7, 0, 0>>,
                         <<2, 0, 0>>}}
    \cup {Conf(<<offset(1, 2), truncate(2, 3, 0)>>, Full, Data, <<0, 6>>,
               {1, 2}, Mixed),
          Conf(<<truncate(5, 0, 0), offset(2, -1)>>, Full, Data,
               <<6, 7, 0, 0, 0>>, {2, 3}, Mixed \cup {Ext(2, 2)})}

nozero(z, f) == [filter |-> "nozero", zeromode |-> z, fastzeromode |-> f]
fua(m) == [filter |-> "fua", fuamode |-> m]
Name(n) == [filter |-> n]
readonly(file) == [filter |-> "readonly", file |-> file]
nocache(m) == [filter |-> "nocache", cachemode |-> m]
policy(p, min, max, disc) ==
    [filter |-> "policy", policy |-> p, min |-> min, pref |-> 0, max |-> max,
     disc |-> disc]
Fua == {Read(0, 2), Write(0, <<8, 0>>, {"FUA"}), Write(1, <<8>>, {}),
        Zero(0, 2, {"FUA"}), Trim(0, 1, {"FUA"}), Zero(0, 1, {}), Flush,
        Ext(0, 2)}

Switched ==
    {Conf(<<nozero(z, f)>>, p, Data, Data, All,
          {Read(0, 2), Write(1, <<8>>, {}), Zero(0, 2, {"FAST_ZERO"}),
           Zero(0, 2, {"MAY_TRIM"}), Zero(0, 2, {})}) :
        z \in {"none", "emulate", "notrim", "plugin"},
        f \in {"default", "none", "slow", "ignore"}, p \in {Full, Slow, Plain}}
    \cup {[Conf(<<fua(m)>>, p, Data, Data, All, Fua) EXCEPT
              !.volatile = (m = "discard"), !.fails = {"EIO"}] :
        m \in {"none", "default", "emulate", "native", "force", "pass",
               "discard"}, p \in {Full, Plain, Bare}}
    \cup {Conf(<<nocache(m), Name("noextents"),
                 [filter |-> "rotational", rotational |-> 1]>>, p, Data, Data,
               All, Mixed) :
        m \in {"none", "emulate", "nop"}, p \in {Full, Bare}}
    \cup {[Conf(<<readonly(f)>>, Full, Data, Data,
                IF f /\ ~ro THEN All ELSE {}, Mixed) EXCEPT !.readonly = ro] :
        f, ro \in BOOLEAN}
    \cup {Conf(<<policy(p, 2, max, disc)>>, Full, Data, Data, All,
               Mixed \cup {Read(0, 4), Write(0, <<8, 8, 8, 8>>, {})}) :
        p \in {"allow", "error"}, max \in {0, 2, 16}, disc \in {0, 3}}
    \cup {Conf(<<fua("emulate"), nozero("plugin", "ignore"), truncate(6, 0, 0)>>,
               Full, Data, Data \o <<0, 0>>, All,
               Fua \cup {Zero(3, 2, {"FAST_ZERO"}), Ext(3, 2)}),
          Conf(<<truncate(6, 0, 0), nozero("emulate", "none"), fua("force")>>,
               Full, Data, Data \o <<0, 0>>, All,
               Fua \cup {Zero(3, 2, {"FAST_ZERO"}), Zero(3, 2, {})})}

protect(ps) == [filter |-> "protect", protect |-> ps]
Pr(start, end, not) == [start |-> start, end |-> end, not |-> not]
ddrescue == [filter |-> "ddrescue",
             map |-> <<[offset |-> 0, length |-> 2], [offset |-> 2, length |-> 1]>>]
error(rate, file) ==
    [filter |-> "error", rate |-> rate, file |-> file, error |-> "EIO"]
Rates == ("pread" :> "sometimes") @@ ("pwrite" :> "always")
         @@ ("extents" :> "sometimes")
evil(mode) ==
    [filter |-> "evil", mode |-> mode, all |-> FALSE, block |-> 2,
     random |-> (0 :> <<[gap |-> 1, bit |-> 9], [gap |-> 0, bit |-> -1],
                        [gap |-> 2, bit |-> 8]>>)
             @@ (2 :> <<[gap |-> 0, bit |-> 9], [gap |-> 3, bit |-> 8]>>)]
E(o, n, type) == [offset |-> o, length |-> n, type |-> type]
extentlist(es) == [filter |-> "extentlist", list |-> es]
Writes == {Read(0, 4), Write(0, <<5, 8>>, {}), Write(1, <<0, 8>>, {}),
           Write(0, <<8>>, {}), Write(1, <<0, 6, 8>>, {})}

Checked ==
    {Conf(<<protect(ps)>>, Full, Data, Data, window,
          Writes \cup {Zero(1, 1, {}), Zero(2, 1, {}), Trim(1, 1, {})}) :
        <<ps, window>> \in
           {<<<<Pr(1, 2, FALSE)>>, {0, 3}>>, <<<<Pr(1, 2, TRUE)>>, {1, 2}>>,
            <<<<Pr(3, 3, FALSE), Pr(0, 1, FALSE), Pr(1, 1, FALSE)>>, {2}>>,
            <<<<Pr(2, 1, FALSE)>>, {}>>}}
    \cup {[Conf(<<Name("checkwrite")>>, p, <<5, 0, 0, 0>>, <<5, 0, 0, 0>>, {},
                Writes \cup {Zero(0, 2, {}), Zero(1, 3, {}), Flush,
                             Trim(1, 2, {"FUA"}), Zero(1, 2, {"FAST_ZERO"})})
           EXCEPT !.sparse = s, !.nomem = TRUE] :
        p \in {Full, Plain}, s \in BOOLEAN}
    \cup {Conf(<<ddrescue>>, Full, Data, Data, {}, Mixed),
          Conf(<<error(Rates, FALSE)>>, Full, Data, Data, All, Mixed),
          Conf(<<error(Rates, TRUE)>>, Full, Data, Data, All, Mixed)}
    \cup {[Conf(<<evil(m)>>, Full, <<1, 0, 1, 1>>,
                [i \in 1 .. 4 |-> Unknown], All,
                {Read(0, 2), Read(1, 2), Read(2, 2), Read(1, 1),
                 Write(1, <<0, 1>>, {})}) EXCEPT
              !.blurs = TRUE, !.lies = (m # "stuck-bits")] :
        m \in {"cosmic-rays", "stuck-bits", "stuck-wires"}}
    \cup {Conf(<<extentlist(es)>>, Full, Data, Data, All,
               {Ext(0, 2), Ext(0, 4), Ext(1, 2), Ext(2, 1), Read(0, 4),
                Write(0, <<8>>, {})}) :
        es \in {<<E(2, 2, {}), E(0, 1, {"hole"}), E(3, 0, HOLE)>>,
                <<E(0, 2, {}), E(1, 2, {})>>, <<E(0, 4, {})>>}}
    \cup {Conf(<<Name("cacheextents")>>, Full, Data, Data, All,
               Mixed \cup {Ext(1, 2), Ext(2, 2)})}

delaying(z, f) == [filter |-> "delay", zero |-> z, fast |-> f]
spinning(n, s) == [filter |-> "spinning", heads |-> n, separate |-> s]
tls(b) == [filter |-> "tls-fallback", tls |-> b, size |-> 2]

Watched ==
    {[Conf(<<Name("log"), Name("stats")>>, Full, Data, Data, All,
           {Read(0, 2), Write(1, <<8>>, {}), Ext(0, 2), Flush}) EXCEPT
        !.fails = {"EIO"}, !.threads = Two, !.nomem = TRUE]}
    \cup {[Conf(<<spinning(3, s)>>, Full, Data, Data, All,
                {Read(0, 2), Write(3, <<8>>, {}), Zero(1, 1, {})}) EXCEPT
             !.threads = Two] : s \in BOOLEAN}
    \cup {[Conf(<<delaying(z, f)>>, p, Data, Data, All, Mixed) EXCEPT
             !.quits = TRUE] : z, f \in BOOLEAN, p \in {Full, Plain}}
    \cup {Conf(<<tls(b)>>, Full, Data, IF b THEN Data ELSE <<1, 1>>,
               IF b THEN All ELSE {}, Mixed) : b \in BOOLEAN}
    \cup {[Conf(<<Name("cacheextents"), offset(1, -1), Name("log")>>, Full,
                Data, SubSeq(Data, 2, 4), 1 .. 3,
                {Ext(0, 2), Ext(1, 2), Write(0, <<8>>, {}), Trim(0, 1, {})})
           EXCEPT !.fails = {"EIO"}, !.threads = Two]}

tar(entry, limit, eio) ==
    [filter |-> "tar", entry |-> entry, limit |-> limit, eio |-> eio]
Packed(name, ended, eio) ==
    [filter |-> name, ended |-> ended, eio |-> eio, tmpfails |-> FALSE]
Stream(footer, blocks) ==
    [footer |-> footer, header |-> TRUE, blocks |-> blocks]
XzBlock(start) == [start |-> start, csize |-> 1, usize |-> 2, good |-> TRUE]
xz(streams, maxblock, depth) ==
    [filter |-> "xz", streams |-> streams, magic |-> TRUE, eio |-> FALSE,
     maxblock |-> maxblock, maxdepth |-> depth]
Member(start, n) ==
    [start |-> start, size |-> n, usize |-> 2 * n, magic |-> TRUE]
lzip(members, maxblock, depth) ==
    [filter |-> "lzip", members |-> members, eio |-> FALSE,
     maxblock |-> maxblock, maxdepth |-> depth]
qcow2(h) == [filter |-> "qcow2dec", hdr |-> h, eio |-> FALSE]
Qcow2Header ==
    [magic |-> TRUE, version |-> 3, backing |-> FALSE, cluster_bits |-> 16,
     crypt |-> FALSE, snapshots |-> 0, header_length |-> 104,
     extended |-> FALSE, l1_offset |-> 2, l1_size |-> 2, size |-> 8]
\* Header, L1 table, L2 table, a cluster and a compressed cluster.
Qcow2Disk == <<1, 1, 4, 0, 6, 72, 1, 2, 5, 1>>
Qcow2Seen == <<1, 2, 2, 1, 0, 0, 0, 0>>
luks(pass, h) == [filter |-> "luks", pass |-> pass, hdr |-> h, eio |-> FALSE]
Slot(pass, active) ==
    [active |-> active, stripes |-> 1, iterations |-> 1, start |-> 0,
     pass |-> pass]
LuksHeader ==
    [magic |-> TRUE, version |-> 1, payload |-> 1, iterations |-> 1,
     keylen |-> 64, cipher |-> "aes", mode |-> "xts", ivgen |-> "plain64",
     hash |-> "sha256", slots |-> <<Slot(1, "disabled"), Slot(2, "enabled"),
                                    Slot(1, "enabled")>>]
Secret == <<1, 1, 2, 3, 0, 1>>
Sectors == {Read(0, 4), Read(1, 2), Write(0, <<3, 0>>, {}), Flush,
            Write(0, <<3, 0, 1, 1>>, {"FUA"}), Zero(2, 2, {}), Ext(0, 2)}
ext2(file) ==
    [filter |-> "ext2", file |-> file, absolute |-> TRUE, eio |-> FALSE]
Reads == {Read(0, 2), Read(1, 2), Read(3, 1), Read(0, 4), Ext(0, 2),
          Write(0, <<8>>, {}), R("cache", 1, 2, {}, <<>>)}

Contained ==
    {Conf(<<tar(e, m, x)>>, p, Disk6, seen, window, Mixed) :
        <<e, m, x, seen, window>> \in
           {<<<<1, 3>>, 0, FALSE, <<6, 7, 0>>, 2 .. 4>>,
            <<<<1, 3>>, 2, FALSE, <<6, 7, 0>>, 2 .. 4>>,
            <<<<2, 2>>, 2, FALSE, <<>>, {}>>, <<<<>>, 0, FALSE, <<>>, {}>>,
            <<<<1, 3>>, 0, TRUE, <<>>, {}>>},
        p \in {Full, Plain}}
    \cup {Conf(<<tar(<<1, 2>>, 0, FALSE), Packed("gzip", TRUE, FALSE)>>, Full,
               <<5, 7>>, <<1, 2>>, {}, Reads)}
    \cup {Conf(<<Packed(f, ended, x)>>, Full, <<5, 0>>, <<2, 1, 0, 0>>, {},
               Reads) :
        <<f, ended, x>> \in {<<"gzip", TRUE, FALSE>>, <<"bzip2", TRUE, FALSE>>,
                             <<"gzip", FALSE, FALSE>>, <<"bzip2", FALSE, TRUE>>}}
    \cup {[Conf(<<xz(ss, mb, depth)>>, Full, <<9, 5, 9, 4>>, <<2, 1, 1, 1>>, {},
                Reads) EXCEPT !.fails = {"EIO"}] :
        ss \in {<<Stream(TRUE, <<XzBlock(0)>>), Stream(TRUE, <<XzBlock(2)>>)>>,
                <<Stream(TRUE, <<XzBlock(0), XzBlock(2)>>)>>,
                <<Stream(FALSE, <<XzBlock(0)>>)>>},
        mb \in {1, 2}, depth \in {1, 2}}
    \cup {[Conf(<<lzip(ms, mb, depth)>>, Full, <<5, 3, 7>>, <<2, 1, 0, 1, 1, 2>>,
                {}, Reads \cup {Read(2, 4), Read(5, 1)}) EXCEPT
             !.fails = {"EIO"}] :
        ms \in {<<Member(0, 1), Member(1, 1), Member(2, 1)>>,
                <<Member(0, 2), Member(2, 1)>>},
        mb \in {1, 2, 4}, depth \in {1, 2}}
    \cup {[Conf(<<qcow2(Qcow2Header)>>, Full, Qcow2Disk, Qcow2Seen, {},
                Reads \cup {Read(1, 6), Ext(1, 6), Ext(4, 4)}) EXCEPT
             !.fails = {"EIO"}, !.nomem = (t = Two), !.threads = t] :
        t \in {{1}, Two}}
    \cup {Conf(<<qcow2(h)>>, Full, Qcow2Disk, Qcow2Seen, {}, Reads) :
        h \in {[Qcow2Header EXCEPT !.version = 4],
               [Qcow2Header EXCEPT !.backing = TRUE],
               [Qcow2Header EXCEPT !.l1_offset = 7]}}
    \cup {[Conf(<<luks(p, LuksHeader)>>, q, Secret, <<1, 2, 2, 3>>, 2 .. 5,
                Sectors) EXCEPT !.fails = {"EIO"}] :
        p \in {1, 3}, q \in {Full, Plain}}
    \cup {Conf(<<luks(1, h)>>, Full, Secret, <<1, 2, 2, 3>>, 2 .. 5, Sectors) :
        h \in {[LuksHeader EXCEPT !.ivgen = "essiv"],
               [LuksHeader EXCEPT !.keylen = 48],
               [LuksHeader EXCEPT !.keylen = 32, !.mode = "cbc"],
               [LuksHeader EXCEPT !.slots[3].stripes = 17]}}
    \cup {[Conf(<<luks(1, LuksHeader)>>, Full, Secret, <<1, 2, 2, 3>>, 2 .. 5,
                {Read(0, 2), Write(1, <<3>>, {}), Write(0, <<3, 3, 3>>, {})})
           EXCEPT !.threads = Two, !.fails = {"EIO"}, !.lies = TRUE]}
    \cup {[Conf(<<ext2(file)>>, Full, Disk6, <<0, 4, 6, 7>>, 2 .. 5,
                {Read(0, 2), Read(1, 2), Write(1, <<8, 9>>, {}), Zero(0, 2, {}),
                 Write(0, <<8, 9>>, {"FUA"}), Write(3, <<8>>, {}), Flush})
           EXCEPT !.volatile = TRUE, !.readonly = (file = <<>>)] :
        file \in {<<2, 1>>, <<>>}}

memory(a, n, mlock) ==
    [filter |-> "memory", allocator |-> a, size |-> n, mlock |-> mlock]
Alloc(l, seen, requests) == Conf(<<l>>, Full, <<>>, seen, {}, requests)
Pages == {Read(0, 5), Write(0, <<8>>, {}), Write(1, <<8, 9, 0>>, {"FUA"}),
          Write(3, <<7, 7>>, {}), Zero(1, 3, {}), Zero(0, 1, {"FAST_ZERO"}),
          Trim(1, 2, {}), Ext(0, 5), Ext(3, 2), Flush,
          R("cache", 0, 2, {}, <<>>)}
sparse_random(content) ==
    [filter |-> "sparse-random", size |-> 6, seed |-> 2, content |-> content,
     runs |-> <<TRUE, FALSE, TRUE>>]
SparseData(content) ==
    LET l == sparse_random(content)
    IN  sparse_random_pread(l, sparse_random_get_ready(l), 0, 6)
Constant(n, byte) ==
    [filter |-> n, size |-> 4, byte |-> byte, seed |-> 3]
RandomSeen == [k \in 1 .. 4 |-> RandomUnit(Constant("random", 0), k - 1)]

Stored ==
    {[Alloc(memory(a, 5, mlock), Zeroes(5), Pages) EXCEPT
        !.nomem = (a = "sparse"), !.steps = 3] :
        <<a, mlock>> \in {<<"sparse", FALSE>>, <<"malloc", FALSE>>,
                          <<"malloc", TRUE>>}}
    \cup {[Alloc(memory("zstd", 4, FALSE), Zeroes(4),
                 Pages \ {Ext(0, 5), Ext(3, 2)}) EXCEPT !.steps = 3]}
    \cup {[Alloc(memory("sparse", 5, FALSE), Zeroes(5),
                 {Write(1, <<8, 9, 0>>, {}), Write(0, <<6, 6>>, {}),
                  Zero(1, 3, {}), Read(0, 5)}) EXCEPT
             !.threads = Two, !.nomem = TRUE, !.steps = 3]}
    \cup {Alloc(sparse_random(c), SparseData(c),
                {Read(0, 4), Read(2, 3), Ext(0, 6), Ext(1, 4), Zero(2, 2, {}),
                 Zero(3, 2, {}), Write(0, SubSeq(SparseData(c), 1, 4), {"FUA"}),
                 Write(2, <<0, 1>>, {}), Flush}) : c \in BOOLEAN}
    \cup {[Alloc(Constant(n, b), seen, Mixed \cup {Read(0, 4)}) EXCEPT
             !.blurs = (n \in {"null", "ones"}), !.lies = (n = "ones")] :
        <<n, b, seen>> \in
           {<<"null", 0, Zeroes(4)>>, <<"ones", 9, <<9, 9, 9, 9>>>>,
            <<"full", 0, Zeroes(4)>>, <<"zero", 0, <<>>>>,
            <<"pattern", 0, <<0, 0, 0, 2>>>>, <<"random", 0, RandomSeen>>}}
    \cup {Conf(<<truncate(6, 0, 0), nozero("plugin", "none"),
                 memory("sparse", 4, FALSE)>>, Full, <<>>, Zeroes(6), {},
               {Zero(3, 2, {}), Write(3, <<8>>, {}), Write(3, <<8, 0>>, {}),
                Ext(0, 6), Read(2, 4), Flush})}

\* Programs of the data plugin.
Nr(k, n) == [k |-> k, n |-> n]
Str(k, s) == [k |-> k, s |-> s]
Uint(k, width, n) == [k |-> k, width |-> width, n |-> n]
Id(k) == [k |-> k, name |-> "a"]
Part(n, m) == [k |-> "[", n |-> n, m |-> m]
Group(ts) == <<[k |-> "("]>> \o ts \o <<[k |-> ")"]>>
dataplugin(ts, a, n) ==
    [filter |-> "data", allocator |-> a, mlock |-> FALSE, size |-> n,
     seen |-> "data", extra |-> FALSE, tokens |-> ts, bytes |-> <<>>]
Items == {<<Nr("byte", 1)>>, <<Nr("byte", 0)>>, <<Str("string", <<1, 2>>)>>,
          <<Str("string", <<>>)>>, <<Str("string", <<1, 1>>)>>,
          <<Str("<", <<4, 5>>)>>, <<Str("<(", <<0, 6>>)>>, <<Id("name")>>,
          <<Nr("@", 3)>>, <<Nr("@+", 1)>>, <<Nr("@-", 1)>>, <<Nr("@^", 2)>>}
Postfixes == {<<>>, <<Nr("*", 0)>>, <<Nr("*", 1)>>, <<Nr("*", 2)>>,
             <<Part(0, 1)>>, <<Part(1, -1)>>, <<Part(1, 1)>>, <<Id("->")>>}
\* A script is not cut at both of its ends, see the README.
Programs ==
    {x \o p \o y \o q \o z :
       x \in Items, p, q \in Postfixes, y \in {<<Nr("byte", 1)>>, <<Id("name")>>},
       z \in {<<>>, <<Id("name")>>, <<Nr("byte", 1)>>}}
    \cup {Group(x \o p \o y) \o q \o z :
       x, y \in Items, p \in {<<>>, <<Nr("*", 2)>>, <<Id("->")>>},
       q \in Postfixes, z \in {<<>>, <<Id("name")>>}}
    \cup {<<Nr("byte", 1)>> \o Group(Group(<<Nr(k, 2)>> \o x) \o p) \o q :
       k \in {"@", "@+", "@^"}, x \in Items, p, q \in Postfixes}
Formatted ==
    {Alloc(dataplugin(ts, "sparse", -1), <<>>, {}) : ts \in Programs}
    \cup {Alloc(dataplugin(ts, a, n), <<>>, {}) :
        <<a, n>> \in {<<"zstd", -1>>, <<"malloc", -1>>, <<"sparse", 2>>,
                      <<"malloc", 6>>},
        ts \in {<<Str("string", <<1, 2>>)>>, Group(<<Nr("byte", 0)>>),
                <<Nr("byte", 7), Nr("*", 3)>>, <<[k |-> ")"]>>,
                <<[k |-> "("], Nr("byte", 1)>>, <<Nr("byte", 256)>>,
                <<Nr("@", 1), Nr("*", 2)>>, <<Nr("*", 2)>>,
                <<Str("string", Nothing)>>, <<Uint("le", 2, 65536)>>,
                <<Uint("le", 2, 258), Uint("be", 2, 258)>>,
                <<[k |-> "$", found |-> FALSE, var |-> <<>>]>>,
                <<[k |-> "$", found |-> TRUE, var |-> <<Nr("byte", 1), Nr("@", 2), Nr("byte", 1)>>],
                  Nr("*", 2), Nr("byte", 4)>>}}
    \cup {[Alloc([dataplugin(<<>>, "malloc", 4) EXCEPT !.seen = seen,
                                             !.bytes = <<3, 0, 4>>],
                 <<3, 0, 4, 0>>, Mixed)
           EXCEPT !.threads = {1}] : seen \in {"raw", "base64"}}

\* Plugins above files.
ofile(mode, is, seeks) ==
    [filter |-> "file", mode |-> mode, fd |-> 3, kind |-> IF mode = "directory"
       THEN "directory" ELSE is, export |-> "disk", perms |-> {"r", "w"},
     is |-> is, sector |-> 2, blkiomin |-> 2, blkioopt |-> 0, size |-> 4,
     seeks |-> seeks, rotational |-> FALSE, cache_none |-> FALSE]
Errors == {"EOPNOTSUPP", "ENOTTY", "EIO"}
Zeroing == {Zero(0, 2, {}), Zero(0, 2, {"MAY_TRIM", "FUA"}), Zero(1, 2, {}),
            Trim(0, 1, {"FUA"}), Read(0, 2)}
temporary(name, export) ==
    [filter |-> name, command |-> "exit 0", made |-> TRUE, size |-> 4,
     export |-> export, exists |-> FALSE, locked |-> FALSE,
     waitlock |-> FALSE, share |-> FALSE, params |-> {"dir", "size", "type"}]
Piece(n, seeks) == [size |-> n, opens |-> TRUE, seeks |-> seeks]
split(fs) == [filter |-> "split", files |-> fs]

Filed ==
    {Conf(<<ofile(m, is, seeks)>>, Full, Data, Data, All,
          Mixed \cup Fua \cup {Ext(1, 3), Read(0, 4)}) :
        m \in {"filename", "directory", "twice"}, is \in {"regular", "block"},
        seeks \in BOOLEAN}
    \cup {[Conf(<<ofile("fd", is, TRUE)>>, Full, Data, Data, All, Zeroing)
           EXCEPT !.fails = Errors] : is \in {"regular", "block"}}
    \cup {[Conf(<<[ofile("filename", "block", TRUE) EXCEPT !.perms = p,
                                                       !.cache_none = TRUE]>>,
                Full, Data, Data, IF "w" \in p /\ ~ro THEN All ELSE {},
                Mixed) EXCEPT !.readonly = ro, !.fails = {"EIO"}] :
        p \in {{}, {"r"}, {"r", "w"}}, ro \in BOOLEAN}
    \cup {[Conf(<<ofile("filename", "regular", TRUE)>>, Full, Data, Data, All,
                {Ext(0, 4), Ext(1, 2), Write(0, <<0, 8>>, {})}) EXCEPT
             !.threads = Two, !.fails = {"EIO"}]}
    \cup {[Conf(<<temporary("tmpdisk", "")>>, Full, Data, Data, All, Fua) EXCEPT
             !.volatile = TRUE, !.fails = Errors],
          Conf(<<[temporary("tmpdisk", "") EXCEPT !.command = "exit 1"]>>, Full,
               Data, Data, {}, Fua)}
    \cup {Conf(<<[temporary(name, "") EXCEPT !.params = ks]>>, Full, Data, Data,
               {}, {}) :
        name \in {"tmpdisk", "ondemand"},
        ks \in {{"size"}, {"dir"}, {"dir", "size", "disk"},
                {"dir", "size", "no variable"}}}
    \cup {[Conf(<<[temporary("ondemand", e) EXCEPT !.locked = locked,
                     !.waitlock = wt]>>, Full, Data, Data, All, Fua) EXCEPT
             !.fails = {"EIO"}] :
        e \in {"", "disk", "a/b"}, locked, wt \in BOOLEAN}
    \* Writes to the first file and no cache requests, see the README.
    \cup {[Conf(<<split(<<Piece(2, s), Piece(1, FALSE), Piece(2, s)>>)>>, Full,
                <<5, 0, 9, 9, 9, 6, 9, 9, 9, 9, 0, 7, 9, 9, 9>>,
                <<5, 0, 6, 0, 7>>, {0, 1},
                {Read(0, 5), Read(1, 3), Write(0, <<8>>, {}), Zero(0, 2, {}),
                 Write(1, <<0>>, {}), Ext(0, 5), Ext(1, 4)}) EXCEPT
             !.fails = {"EIO"}] : s \in BOOLEAN}

\* Virtual disks.
Vol(n, a) == [size |-> n, alignment |-> a, opens |-> TRUE]
partitioning(fs, type) ==
    [filter |-> "partitioning", files |-> fs, parttype |-> type]
Sized(ns, a) == [i \in 1 .. Len(ns) |-> Vol(ns[i], a)]
Counted(n) == [i \in 1 .. n |-> i % 10]
Volumes == {<<1>>, <<3, 2>>, <<4, 1, 2>>, <<1, 2, 3, 1>>, <<1, 1, 1, 1, 3>>,
            <<2, 1, 3, 1, 2, 5>>, <<2, 3, 1, 1, 4, 1, 2>>}
Added(ns) == FoldLeft(LAMBDA a, n : a + n, 0, ns)
linuxdisk(type, estimate, n, add) ==
    [filter |-> "linuxdisk", dir |-> "once", type |-> type, mke2fs |-> TRUE,
     estimate |-> estimate, size |-> n, add |-> add]
Short(s, long) == [short |-> s, long |-> long]
HostFile(s, long, base, n) ==
    [kind |-> "file", name |-> Short(s, long), size |-> n, base |-> base]
HostDir(s, long, es) ==
    [kind |-> "dir", name |-> Short(s, long), entries |-> es]
Other == [kind |-> "other"]
Leaves == {HostFile("A", <<1>>, 0, 0), HostFile("A", <<1, 2>>, 0, 3),
           HostFile("A", <<2, 1, 1>>, 0, 8), HostFile("B", <<2>>, 4, 9)}
Trees ==
    {<<>>, <<Other>>} \cup {<<x>> : x \in Leaves}
    \cup {<<x, y>> : x, y \in Leaves}
    \cup {<<HostDir("A", <<3>>, <<x>>), y>> : x, y \in Leaves}
    \cup {<<x, HostDir("A", <<3>>, <<HostDir("A", <<1>>, <<y>>), x, Other>>)>> :
             x, y \in Leaves}
    \cup {<<x, y, HostFile("B", <<2, 2, 2, 2>>, 1, 2)>> : x, y \in Leaves}
    \cup {<<HostFile("L", <<1, 1, 1, 1, 1, 1, 1>>, 0, 1)>>,
          <<HostFile("L", <<1, 1, 1, 1, 1, 1>>, 0, 30)>>,
          <<HostFile("L", <<1>>, 0, 1), [kind |-> "unreadable"]>>}
floppy(tree, n) ==
    [filter |-> "floppy", dir |-> "once", tree |-> tree, size |-> n]

Virtual ==
    {Conf(<<partitioning(Sized(ns, a), t)>>, Full, Counted(Added(ns)),
          <<>>, 0 .. Added(ns), {}) :
        ns \in Volumes, a \in {2, 4, 6, 8}, t \in {"unset", "mbr", "gpt"}}
    \cup {[Conf(<<partitioning(<<Vol(3, 4), Vol(1, 2)>>, t)>>, Full, <<5, 0, 6, 7>>,
                seen, 0 .. 3,
                {Read(1, 7), Write(4, <<8, 8, 8, 0, 8>>, {"FUA"}), Flush,
                 Write(0, <<1>>, {}), Write(2, <<0, 0, 8>>, {}),
                 Write(7, <<8>>, {})}) EXCEPT !.fails = {"EIO"}] :
        <<t, seen>> \in
           {<<"mbr", [i \in 1 .. 10 |-> Unknown]>>,
            <<"gpt", [i \in 1 .. 18 |-> Unknown]>>}}
    \cup {Conf(<<partitioning(fs, t)>>, Full, Counted(90), <<>>, {}, {}) :
        <<fs, t>> \in {<<<<>>, "unset">>, <<<<Vol(0, 2)>>, "unset">>,
                       <<<<Vol(1, 3)>>, "unset">>, <<<<Vol(1, 16)>>, "unset">>,
                       <<<<Vol(90, 2)>>, "mbr">>, <<<<Vol(90, 2)>>, "unset">>}}
    \cup {Conf(<<linuxdisk(type, e, n, add)>>, Full, Counted(12),
               [i \in 1 .. 24 |-> Unknown], {}, {Read(0, 8), Read(6, 6)}) :
        type \in {"ext2", "ext4", "xfs"}, e \in {-1, 1, 5}, n \in {0, 1},
        add \in BOOLEAN}
    \cup {[Conf(<<[filter |-> "iso", dirs |-> d, isoprog |-> p, size |-> 4]>>,
                Full, Data, Data, {}, Mixed) EXCEPT !.fails = {"EIO"}] :
        d \in {0, 1}, p \in BOOLEAN}
    \cup {Conf(<<floppy(t, n)>>, Full, Counted(30), <<>>, {}, {}) :
        t \in Trees, n \in {0, 10, 72, 120}}
    \cup {[Conf(<<floppy(<<HostFile("A", <<1>>, 0, 3), HostFile("B", <<2>>, 3, 2)>>,
                        0)>>, Full, Counted(9), [i \in 1 .. 64 |-> Unknown], {},
                {Read(38, 20), Read(0, 12), Read(50, 4)}) EXCEPT
             !.fails = {"EIO"}]}

\* Configurations in which the code and its documentation disagree.
Race == {[Conf(<<Name("cacheextents")>>, Full, Data, Data, All,
               {Ext(0, 2), Write(1, <<8>>, {})}) EXCEPT !.threads = Two]}
Unaligned == {Conf(<<luks(1, LuksHeader)>>, Full, Secret, <<1, 2, 2, 3>>, 2 .. 5,
                   {Read(0, 2), Write(1, <<3>>, {})})}

MCConfigs ==
    (IF "race" \in Parts THEN Race ELSE {})
    \cup (IF "luks" \in Parts THEN Unaligned ELSE {})
    \cup (IF "windows" \in Parts THEN Windowed ELSE {})
    \cup (IF "modes" \in Parts THEN Switched ELSE {})
    \cup (IF "checks" \in Parts THEN Checked ELSE {})
    \cup (IF "extras" \in Parts THEN Watched ELSE {})
    \cup (IF "stores" \in Parts THEN Stored ELSE {})
    \cup (IF "data" \in Parts THEN Formatted ELSE {})
    \cup (IF "files" \in Parts THEN Filed ELSE {})
    \cup (IF "disks" \in Parts THEN Virtual ELSE {})
    \cup (IF "images" \in Parts THEN Contained ELSE {})
=============================================================================
