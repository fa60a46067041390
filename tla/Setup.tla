-------------------------------- MODULE Setup --------------------------------
(***************************************************************************)
(* What happens to connections before their first request: the handshake   *)
(* with the client (Handshake), the contexts it opens in the chain of      *)
(* backends (Backend), and the timer that bounds it (Timeout).  The three  *)
(* share no state that their modules have.                                 *)
(***************************************************************************)
CONSTANTS
    Exports, NoExport, MAX_NR_OPTIONS, MaxListed,   \* Handshake
    Outermost,                                      \* the outermost filter, Backend
    Connections, NoConn, Models                     \* Timeout

VARIABLES
    \* Handshake
    newstyle, tls, no_sr, no_mc, phase, fixed, unread, nr_options, list_seen,
    using_tls, structured_replies, set_name, meta, top_context, df, export,
    granted, handled, listed,
    \* Backend
    present, state, c_next, finalized, b_pc, b_lvl, closer, after, gave_up,
    \* Timeout
    t_model, connection_lock, at, timer, timer_set, active, sockout, alive

H == INSTANCE Handshake
B == INSTANCE Backend WITH Top <- Outermost, pc <- b_pc, lvl <- b_lvl
T == INSTANCE Timeout WITH Conns <- Connections, thread_model <- t_model

-----------------------------------------------------------------------------
\* With --tls=require nothing is told in the clear, and nothing that was agreed
\* on in the clear is in force under TLS; what client and server have agreed on
\* is consistent; no context is open between options, and the options of a
\* client are bounded (Handshake, protocol-handshake-newstyle.c).
HandshakeIsSound == H!HandshakeIsSound
\* The contexts of a chain, through every failure of .open, .prepare and
\* .finalize: none is left over, dangling, used before .prepare or finalized
\* after what is below it (Backend, backend.c).
ContextsAreSound == B!ContextsAreSound
\* A late timer does not drop an established client (Timeout, timeout.c).
EstablishedKept == T!EstablishedKept
=============================================================================
