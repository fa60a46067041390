------------------------------ MODULE MultiConn ------------------------------
(***************************************************************************)
(* The multi-conn filter: a flush on one connection is made one for all    *)
(* the connections of its group, and flushes that have nothing to do are   *)
(* skipped.                                                                *)
(*                                                                         *)
(* The plugin below is as bad as it may be.  When it is not consistent     *)
(* across connections, each connection has its own writes until it is      *)
(* flushed or closed, and what it has read until it is flushed.            *)
(***************************************************************************)
EXTENDS FilterThreads

CONSTANT NoLock   \* the lock is free, no group, no snapshot

(* The group a connection belongs to. *)
GroupName(c) == IF conf.byname THEN conf.exportname[c] ELSE "all"
Members(name) == g.conns[name]
(* .get_ready: with serialized connections there is nothing to emulate. *)
multi_conn_get_ready ==
    IF conf.thread_model = "SERIALIZE_CONNECTIONS" /\ conf.mode = "AUTO"
    THEN "DISABLE" ELSE conf.mode
multi_conn_mode ==
    IF multi_conn_get_ready = "AUTO"
    THEN IF conf.can_multi_conn THEN "PLUGIN" ELSE "EMULATE"
    ELSE multi_conn_get_ready
(* What the client is told. *)
multi_conn_can_multi_conn(c) ==
    CASE h[c].mode \in {"EMULATE", "UNSAFE"} -> TRUE
      [] h[c].mode = "PLUGIN" -> conf.can_multi_conn
      [] h[c].mode = "DISABLE" -> FALSE
multi_conn_can_fua(mode) ==
    IF conf.can_fua = "NATIVE" /\ mode = "EMULATE" THEN "EMULATE" ELSE conf.can_fua

multi_conn_prepare(c) ==
    /\ conn[c] = "new"
    /\ IF multi_conn_mode = "EMULATE" /\ ~conf.can_flush
       THEN Becomes(c, "closed") /\ UNCHANGED <<g, h>>
       ELSE /\ g.lock = NoLock
            /\ g' = [g EXCEPT !.conns[GroupName(c)] = Append(@, c)]
            /\ h' = [h EXCEPT ![c] = [mode |-> multi_conn_mode, dirty |-> {},
                                      group |-> GroupName(c)]]
            /\ Becomes(c, "open")
    /\ UNCHANGED <<th, env>>
(* The group goes with its last connection, and its dirty flag with it. *)
multi_conn_finalize(c) ==
    LET name == h[c].group
        left == Remove(Members(name), c)
    IN  /\ conn[c] = "open" /\ At(c, "idle")
        /\ g.lock = NoLock
        /\ g' = [g EXCEPT !.conns[name] = left,
                          !.dirty[name] = IF left = << >> THEN FALSE ELSE @]
        /\ h' = [h EXCEPT ![c].group = NoLock]
        /\ env' = [env EXCEPT !.backing = @ \cup env.own[c], !.own[c] = {}, !.seen[c] = NoLock]
        /\ Becomes(c, "closed")
        /\ UNCHANGED th
(***************************************************************************)
(* The plugin: its writes are numbers.                                     *)
(***************************************************************************)
PluginSees(c) ==
    IF conf.can_multi_conn THEN env.backing \cup UNION {env.own[d] : d \in Conns}
    ELSE env.own[c] \cup (IF env.seen[c] = NoLock THEN env.backing ELSE env.seen[c])
PluginReads(c) ==
    IF conf.can_multi_conn \/ env.seen[c] # NoLock THEN env.seen
    ELSE [env.seen EXCEPT ![c] = env.backing]
PluginFlushes(c) ==
    LET flushed == IF conf.can_multi_conn THEN Conns ELSE {c}
    IN  [env EXCEPT !.backing = @ \cup UNION {env.own[d] : d \in flushed},
                    !.own = [d \in Conns |-> IF d \in flushed THEN {} ELSE env.own[d]],
                    !.seen[c] = NoLock]
(***************************************************************************)
(* Requests.  What is dirty is marked before the plugin is called, without *)
(* the lock.                                                               *)
(***************************************************************************)
(* Mutant: reads are not tracked, so stale caches are not flushed. *)
mark_dirty_writes(c, is_write) ==
    /\ h' = IF is_write /\ conf.track = "CONN" THEN [h EXCEPT ![c].dirty = @ \cup {"WRITE"}] ELSE h
    /\ g' = IF is_write /\ conf.track # "OFF" THEN [g EXCEPT !.dirty[h[c].group] = TRUE] ELSE g
mark_dirty(c, is_write) ==
    /\ h' = IF conf.track = "CONN"
            THEN [h EXCEPT ![c].dirty = @ \cup {IF is_write THEN "WRITE" ELSE "READ"}] ELSE h
    /\ g' = IF is_write /\ conf.track # "OFF" THEN [g EXCEPT !.dirty[h[c].group] = TRUE] ELSE g

(* "a client must wait for the response to a flush": nothing is in flight   *)
(* while a flush is, not on any connection of the group.                    *)
Flushes(cmd) == cmd \in {"flush", "write_fua"}
Patient(c, cmd) ==
    \A d \in Conns : ~At(d, "idle") /\ GroupName(d) = GroupName(c)
                         => ~Flushes(cmd) /\ ~Flushes(th[d].cmd)
MultiConnRequest(c) ==
    /\ conn[c] = "open" /\ At(c, "idle")
    /\ env.ops < conf.ops
    /\ \E cmd \in {"read", "write", "flush"} \cup
                  (IF multi_conn_can_fua(h[c].mode) = "NONE" THEN {} ELSE {"write_fua"}) :
         /\ conf.patient => Patient(c, cmd)
         /\ th' = [th EXCEPT ![c] = [pc |-> IF cmd = "flush" THEN "flush" ELSE "mark",
                                     cmd |-> cmd, write |-> env.ops + 1, i |-> 1,
                                     promised |-> IF cmd = "read" THEN env.promised[h[c].group]
                                                  ELSE env.completed]]
    /\ env' = [env EXCEPT !.ops = @ + 1]
    /\ UNCHANGED <<conn, g, h>>
(* .pread and .cache *)
multi_conn_pread(c) ==
    /\ th[c].cmd = "read"
    /\ \/ /\ At(c, "mark")
          /\ mark_dirty(c, FALSE)
          /\ To(c, "next")
          /\ UNCHANGED <<conn, env>>
       \/ /\ At(c, "next")
          /\ th' = [th EXCEPT ![c] = [data |-> PluginSees(c)] @@ [@ EXCEPT !.pc = "done"]]
          /\ env' = [env EXCEPT !.seen = PluginReads(c)]
          /\ UNCHANGED <<conn, g, h>>
(* .pwrite, .zero and .trim *)
multi_conn_pwrite(c) ==
    LET emulate == h[c].mode = "EMULATE"
        fua == th[c].cmd = "write_fua"
    IN  /\ th[c].cmd \in {"write", "write_fua"}
        /\ \/ /\ At(c, "mark")
              /\ IF fua /\ ~emulate THEN UNCHANGED <<g, h>> ELSE mark_dirty(c, TRUE)
              /\ To(c, "next")
              /\ UNCHANGED <<conn, env>>
           \/ /\ At(c, "next")
              /\ \/ To(c, "failed") /\ UNCHANGED env
                 \/ /\ To(c, IF fua /\ emulate THEN "flush" ELSE "done")
                    /\ env' = IF fua /\ ~emulate THEN [env EXCEPT !.backing = @ \cup {th[c].write}]
                              ELSE [env EXCEPT !.own[c] = @ \cup {th[c].write}]
              /\ UNCHANGED <<conn, g, h>>
(* Emulated: every member that may have something to flush, in turn, with   *)
(* the lock held.                                                           *)
multi_conn_flush(c) ==
    LET name == h[c].group
        members == Members(name)
        d == members[th[c].i]
        wanted == \/ conf.track = "OFF"
                  \/ g.dirty[name] /\ (conf.track = "FAST" \/ "READ" \in h[d].dirty)
                  \/ "WRITE" \in h[d].dirty
    IN  /\ At(c, "flush")
        /\ h[c].mode = "EMULATE"
        /\ g.lock \in {NoLock, c}
        /\ IF th[c].i > Len(members)
           THEN /\ g' = [g EXCEPT !.lock = NoLock, !.dirty[name] = FALSE]
                /\ To(c, "done")
                /\ UNCHANGED <<h, env>>
           ELSE IF ~wanted
           THEN /\ g' = [g EXCEPT !.lock = c]
                /\ th' = [th EXCEPT ![c].i = @ + 1]
                /\ UNCHANGED <<h, env>>
           ELSE \/ /\ env' = PluginFlushes(d)
                   /\ h' = [h EXCEPT ![d].dirty = {}]
                   /\ g' = [g EXCEPT !.lock = c]
                   /\ th' = [th EXCEPT ![c].i = @ + 1]
                \/ /\ g' = [g EXCEPT !.lock = NoLock]
                   /\ To(c, "failed")
                   /\ UNCHANGED <<h, env>>
        /\ UNCHANGED conn
(* Not emulated: the flush of this connection, unless nothing is dirty. *)
multi_conn_flush_one(c) ==
    LET name == h[c].group
        cleaned == IF conf.can_multi_conn THEN ToSet(Members(name)) ELSE {c}
    IN  /\ h[c].mode # "EMULATE"
        /\ \/ /\ At(c, "flush")
              /\ IF conf.track # "OFF" /\ ~g.dirty[name]
                 THEN To(c, "done") /\ UNCHANGED env
                 ELSE \/ To(c, "flushed") /\ env' = PluginFlushes(c)
                      \/ To(c, "failed") /\ UNCHANGED env
              /\ UNCHANGED <<g, h>>
           \/ /\ At(c, "flushed")
              /\ CASE conf.track = "CONN" ->
                          /\ conf.can_multi_conn => g.lock = NoLock
                          /\ h' = [d \in Conns |-> IF d \in cleaned THEN [h[d] EXCEPT !.dirty = {}]
                                                   ELSE h[d]]
                          /\ g' = IF conf.can_multi_conn THEN [g EXCEPT !.dirty[name] = FALSE] ELSE g
                   [] conf.track = "FAST" -> /\ g' = [g EXCEPT !.dirty[name] = FALSE]
                                             /\ UNCHANGED h
                   [] conf.track = "OFF" -> UNCHANGED <<g, h>>
              /\ To(c, "done")
              /\ UNCHANGED env
        /\ UNCHANGED conn
(* The answer.  Writes that were answered are completed; those completed    *)
(* when a flush began are promised to the group when it is answered.        *)
MultiConnReply(c) ==
    /\ th[c].pc \in {"done", "failed"}
    /\ env' = LET done == At(c, "done")
                  wrote == IF done /\ th[c].cmd \in {"write", "write_fua"}
                           THEN {th[c].write} ELSE {}
              IN  [env EXCEPT !.completed = @ \cup {<<h[c].group, c, w>> : w \in wrote},
                              !.promised[h[c].group] =
                                  IF done /\ th[c].cmd = "flush"
                                  THEN @ \cup {w \in th[c].promised : w[1] = h[c].group} ELSE @]
    /\ th' = [th EXCEPT ![c] = Thread("idle")]
    /\ UNCHANGED <<conn, g, h>>

MultiConnInit ==
    LET names == {GroupName(c) : c \in Conns}
    IN  /\ conf.filter = "multi-conn"
        /\ conn = [c \in Conns |-> "new"]
        /\ g = [lock |-> NoLock, conns |-> [n \in names |-> << >>], dirty |-> [n \in names |-> FALSE]]
        /\ h = [c \in Conns |-> [mode |-> "AUTO", dirty |-> {}, group |-> NoLock]]
        /\ env = [ops |-> 0, backing |-> {}, own |-> [c \in Conns |-> {}],
                  seen |-> [c \in Conns |-> NoLock], completed |-> {},
                  promised |-> [n \in names |-> {}]]
        /\ th = [c \in Conns |-> Thread("idle")]
MultiConnNext ==
    /\ conf.filter = "multi-conn"
    /\ \E c \in Conns :
         \/ multi_conn_prepare(c) \/ multi_conn_finalize(c) \/ MultiConnRequest(c)
         \/ (~At(c, "idle") /\ (\/ multi_conn_pread(c) \/ multi_conn_pwrite(c)
                                \/ multi_conn_flush(c) \/ multi_conn_flush_one(c)))
         \/ MultiConnReply(c)
    /\ UNCHANGED conf
=============================================================================
