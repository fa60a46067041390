------------------------------- MODULE Backend -------------------------------
(***************************************************************************)
(* The contexts of one connection through the chain of backends            *)
(* (server/backend.c): the plugin has index 0, the filters have indexes    *)
(* 1..Top.  backend_open, backend_prepare, backend_finalize and            *)
(* backend_close recurse along the chain; each callback of a filter or of  *)
(* the plugin is a step here, and any of them may fail.  The caller is the *)
(* handshake (which may open and close several times), then the end of the *)
(* connection.                                                             *)
(***************************************************************************)
EXTENDS Integers

CONSTANT Top        \* the index of the outermost filter

Index == 0..Top

VARIABLES
    present,    \* the context of this index is allocated
    state,      \* its HANDLE_* flags
    c_next,     \* its c_next is not NULL
    finalized,  \* .finalize has been called on it
    pc, lvl,    \* the call in progress, and the index it has reached
    closer,     \* the index whose failed open closes its c_next; Top + 1: the server
    after,      \* what follows finalize and close: "retry" or "die"
    gave_up     \* a .finalize has failed

vars == <<present, state, c_next, finalized, pc, lvl, closer, after, gave_up>>
contexts == <<present, state, c_next, finalized, gave_up>>
caller == <<closer, after>>

Init ==
    /\ present = [i \in Index |-> FALSE] /\ state = [i \in Index |-> {}]
    /\ c_next = [i \in Index |-> FALSE] /\ finalized = [i \in Index |-> FALSE]
    /\ pc = "idle" /\ lvl = Top /\ closer = Top + 1 /\ after = "retry" /\ gave_up = FALSE

Call(what, i) == pc' = what /\ lvl' = i

-----------------------------------------------------------------------------
(* backend_open *)

OpenTop ==
    /\ pc = "idle" /\ Call("open", Top)
    /\ UNCHANGED <<contexts, caller>>

(* The context is allocated and .open called; a filter calls next_open.    *)
OpenNext ==
    /\ pc = "open" /\ lvl > 0
    /\ present' = [present EXCEPT ![lvl] = TRUE]
    /\ Call("open", lvl - 1)
    /\ UNCHANGED <<state, c_next, finalized, gave_up, caller>>

(* .open of the plugin, or of a filter that does not open what is below.   *)
OpenAlone ==
    /\ pc = "open"
    /\ \/ /\ present' = [present EXCEPT ![lvl] = TRUE]
          /\ state' = [state EXCEPT ![lvl] = {"OPEN"}]
          /\ Call("opened", lvl)
       \/ Call("unopened", lvl) /\ UNCHANGED <<present, state>>
    /\ UNCHANGED <<c_next, finalized, gave_up, caller>>

(* next_open returns the context below, and .open goes on to succeed ...   *)
OpenReturns ==
    /\ pc = "opened" /\ lvl < Top
    /\ c_next' = [c_next EXCEPT ![lvl + 1] = TRUE]
    /\ state' = [state EXCEPT ![lvl + 1] = {"OPEN"}]
    /\ Call("opened", lvl + 1)
    /\ UNCHANGED <<present, finalized, gave_up, caller>>

(* ... or to fail, and the context below is closed again. *)
OpenFails ==
    /\ pc = "opened" /\ lvl < Top
    /\ c_next' = [c_next EXCEPT ![lvl + 1] = TRUE]
    /\ closer' = lvl + 1 /\ Call("close", lvl)
    /\ UNCHANGED <<present, state, finalized, gave_up, after>>

(* Mutant: c_next is set although next_open failed. *)
NextOpenFailsLinked ==
    /\ pc = "unopened" /\ lvl < Top
    /\ c_next' = [c_next EXCEPT ![lvl + 1] = TRUE]
    /\ state' = [state EXCEPT ![lvl + 1] = {"OPEN"}]
    /\ Call("opened", lvl + 1)
    /\ UNCHANGED <<present, finalized, gave_up, caller>>

(* next_open fails; .open fails as well, or does without. *)
NextOpenFails ==
    /\ pc = "unopened" /\ lvl < Top
    /\ \/ /\ present' = [present EXCEPT ![lvl + 1] = FALSE]
          /\ Call("unopened", lvl + 1) /\ UNCHANGED state
       \/ /\ state' = [state EXCEPT ![lvl + 1] = {"OPEN"}]
          /\ Call("opened", lvl + 1) /\ UNCHANGED present
    /\ UNCHANGED <<c_next, finalized, gave_up, caller>>

(* protocol_common_open fails with no context.  After NBD_OPT_GO or INFO   *)
(* the client may try another option; other handshakes end.                *)
TopUnopened ==
    /\ pc = "unopened" /\ lvl = Top
    /\ \/ Call("idle", Top)
       \/ Call("done", Top)
    /\ UNCHANGED <<contexts, caller>>

-----------------------------------------------------------------------------
(* backend_prepare goes to the innermost context, and prepares outwards *)

PrepareTop ==
    /\ pc = "opened" /\ lvl = Top /\ Call("prepare", Top)
    /\ UNCHANGED <<contexts, caller>>

PrepareNext ==
    /\ pc = "prepare"
    /\ IF c_next[lvl] THEN Call("prepare", lvl - 1) ELSE Call("preparing", lvl)
    /\ UNCHANGED <<contexts, caller>>

Prepare ==
    /\ pc = "preparing"
    /\ \/ /\ state' = [state EXCEPT ![lvl] = @ \cup {"CONNECTED"}]
          /\ IF lvl = Top THEN Call("query", Top) ELSE Call("preparing", lvl + 1)
       \/ Call("unprepared", Top) /\ UNCHANGED state
    /\ UNCHANGED <<present, c_next, finalized, gave_up, caller>>

(* .prepare, .get_size or a .can_* function has failed.  With NBD_OPT_GO   *)
(* or INFO the context is finalized and closed, and the client may retry;  *)
(* otherwise the handshake fails.                                          *)
CommonOpenFails ==
    /\ pc \in {"unprepared", "query"}
    /\ \/ Call("finalize", Top) /\ after' = "retry"
       \/ Call("dying", Top) /\ UNCHANGED after
    /\ UNCHANGED <<contexts, closer>>

(* NBD_OPT_INFO succeeds, and finalizes and closes what it opened. *)
InfoDone ==
    /\ pc = "query" /\ Call("finalize", Top) /\ after' = "retry"
    /\ UNCHANGED <<contexts, closer>>

HandshakeDone ==
    /\ pc = "query" /\ Call("serve", Top)
    /\ UNCHANGED <<contexts, caller>>

(* The connection ends after its requests. *)
ServeEnds ==
    /\ pc = "serve" /\ Call("finalize", Top) /\ after' = "die"
    /\ UNCHANGED <<contexts, closer>>

-----------------------------------------------------------------------------
(* backend_finalize goes inwards from the outermost context *)

Finalize ==
    /\ pc = "finalize"
    /\ finalized' = [finalized EXCEPT ![lvl] = "CONNECTED" \in state[lvl]]
    /\ \/ /\ IF c_next[lvl] THEN Call("finalize", lvl - 1) ELSE
             IF after = "retry" THEN Call("close", Top) ELSE Call("dying", Top)
          /\ UNCHANGED <<state, gave_up>>
       \/ /\ "CONNECTED" \in state[lvl]
          /\ state' = [state EXCEPT ![lvl] = @ \cup {"FAILED"}]
          /\ gave_up' = TRUE /\ Call("dying", Top)
    /\ UNCHANGED <<present, c_next, caller>>

-----------------------------------------------------------------------------
(* backend_close *)

(* free_connection closes the context unless quit is set. *)
FreeConnection ==
    /\ pc = "dying" /\ after' = "die"
    /\ \/ Call("close", Top)
       \/ Call("done", Top)
    /\ UNCHANGED <<contexts, closer>>

Close ==
    /\ pc = "close"
    /\ present' = [present EXCEPT ![lvl] = FALSE]
    /\ state' = [state EXCEPT ![lvl] = {}]
    /\ c_next' = [c_next EXCEPT ![lvl] = FALSE]
    /\ finalized' = [finalized EXCEPT ![lvl] = FALSE]
    /\ IF c_next[lvl] THEN Call("close", lvl - 1) ELSE Call("closed", lvl)
    /\ UNCHANGED <<gave_up, caller>>

(* The close that backend_open made for a failed .open returns to it.      *)
ClosedForOpen ==
    /\ pc = "closed" /\ closer <= Top
    /\ present' = [present EXCEPT ![closer] = FALSE]
    /\ c_next' = [c_next EXCEPT ![closer] = FALSE]
    /\ Call("unopened", closer) /\ closer' = Top + 1
    /\ UNCHANGED <<state, finalized, gave_up, after>>

ClosedForServer ==
    /\ pc = "closed" /\ closer > Top
    /\ IF after = "retry" THEN Call("idle", Top) ELSE Call("done", Top)
    /\ UNCHANGED <<contexts, caller>>

(* The connection has ended. *)
Ended == pc = "done" /\ UNCHANGED vars

Next ==
    \/ OpenTop \/ OpenNext \/ OpenAlone \/ OpenReturns \/ OpenFails \/ NextOpenFails
    \/ TopUnopened \/ PrepareTop \/ PrepareNext \/ Prepare \/ CommonOpenFails
    \/ InfoDone \/ HandshakeDone \/ ServeEnds \/ Finalize \/ FreeConnection
    \/ Close \/ ClosedForOpen \/ ClosedForServer \/ Ended

Spec == Init /\ [][Next]_vars

-----------------------------------------------------------------------------
(* Between two options of the handshake no context of a failed or finished *)
(* open is left anywhere in the chain.                                     *)
NothingLeft == pc = "idle" => \A i \in Index : ~present[i]

(* A c_next that is not NULL points to a context that has not been freed   *)
(* and whose .open succeeded: no call goes through a dangling pointer.     *)
(* (A failing backend_open, which is closing its c_next, frees its own     *)
(* context without using it again.)                                        *)
NextIsOpen ==
    \A i \in Index : c_next[i] /\ closer # i =>
        i > 0 /\ present[i - 1] /\ "OPEN" \in state[i - 1]

(* backend.c asserts HANDLE_CONNECTED in every data call.  When requests   *)
(* are served, or the .prepare of a filter uses what is below it, every    *)
(* context that can be reached through c_next has been prepared.           *)
Reachable(i) == \A j \in i + 1..Top : c_next[j]
PreparedInside ==
    /\ pc \in {"query", "serve"} => \A i \in Index : Reachable(i) => "CONNECTED" \in state[i]
    /\ pc = "preparing" => \A i \in Index : i < lvl /\ (\A j \in i + 1..lvl : c_next[j])
                                              => "CONNECTED" \in state[i]

(* .finalize of a filter may use what is below it: when it is called every *)
(* outer .finalize has succeeded, and no inner one has been called.        *)
FinalizeOrder ==
    pc = "finalize" =>
        /\ \A i \in Index : i <= lvl => ~finalized[i]
        /\ \A i \in Index : i > lvl => /\ "FAILED" \notin state[i]
                                       /\ "CONNECTED" \in state[i] => finalized[i]

(* The four together: through every failure of .open, .prepare and         *)
(* .finalize no context is left over, dangling, used before .prepare or    *)
(* finalized after what is below it.                                       *)
ContextsAreSound == NothingLeft /\ NextIsOpen /\ PreparedInside /\ FinalizeOrder

(* "HANDLE_CONNECTED = 2, Set if .prepare passed, so .finalize is needed"  *)
(* (server/internal.h): a context whose .prepare passed is finalized       *)
(* before it is closed, unless an outer .finalize has failed.              *)
FinalizedBeforeClose ==
    pc = "close" /\ "CONNECTED" \in state[lvl] => finalized[lvl] \/ gave_up
=============================================================================
