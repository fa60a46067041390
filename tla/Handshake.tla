------------------------------ MODULE Handshake ------------------------------
(***************************************************************************)
(* The NBD handshake (server/protocol-handshake*.c): the newstyle loop     *)
(* over the options of the client, and the oldstyle handshake.  An export  *)
(* name is a model value; an option may be malformed; any reply may fail   *)
(* to be sent.                                                             *)
(***************************************************************************)
EXTENDS Naturals

CONSTANTS
    Exports,            \* export names the client may use
    NoExport,           \* exportname_from_set_meta_context = NULL
    MAX_NR_OPTIONS,     \* 32 in the code
    MaxListed           \* the longest list of exports a plugin returns here

VARIABLES
    newstyle, tls,      \* command line: tls is 0 (off), 1 (on) or 2 (require)
    no_sr, no_mc,       \* command line: --no-sr, --no-meta-contexts
    phase,              \* "flags", "options", then "ready" or "failed"
    fixed,              \* conn->cflags & NBD_FLAG_FIXED_NEWSTYLE
    unread,             \* data of the last option is left in the stream
    nr_options, list_seen,
    using_tls, structured_replies,
    set_name,           \* conn->exportname_from_set_meta_context
    meta,               \* conn->meta_context_base_allocation
    top_context,        \* "none" or "open"
    df,                 \* NBD_FLAG_SEND_DF in conn->eflags
    export,             \* the export the handshake ended with
    granted,            \* exports base:allocation was granted for, and under TLS or not
    handled, listed     \* options handled, exports listed

config == <<newstyle, tls, no_sr, no_mc>>
tlsstate == <<using_tls, structured_replies>>
metastate == <<set_name, meta, granted>>
vars == <<config, phase, fixed, unread, nr_options, list_seen, tlsstate, metastate,
          top_context, df, export, handled, listed>>

(* Oldstyle is refused in main when TLS is required. *)
Init ==
    /\ newstyle \in BOOLEAN /\ tls \in 0..2 /\ (tls = 2 => newstyle)
    /\ no_sr \in BOOLEAN /\ no_mc \in BOOLEAN
    /\ phase = "flags" /\ fixed = FALSE /\ unread = FALSE
    /\ nr_options = MAX_NR_OPTIONS /\ list_seen = FALSE
    /\ using_tls = FALSE /\ structured_replies = FALSE
    /\ set_name = NoExport /\ meta = FALSE /\ granted = {}
    /\ top_context = "none" /\ df = FALSE /\ export = NoExport
    /\ handled = 0 /\ listed = 0

-----------------------------------------------------------------------------
(* The flags of the client, or the whole of the oldstyle handshake *)

RecvFlags ==
    /\ phase = "flags" /\ newstyle
    /\ phase' \in {"options", "failed"} /\ fixed' \in BOOLEAN
    /\ UNCHANGED <<config, unread, nr_options, list_seen, tlsstate, metastate, top_context,
                   df, export, handled, listed>>

Oldstyle ==
    /\ phase = "flags" /\ ~newstyle
    /\ \/ /\ phase' = "ready" /\ top_context' = "open"
          /\ \E e \in Exports : export' = e
       \/ phase' = "failed" /\ top_context' \in {"none", "open"} /\ UNCHANGED export
    /\ UNCHANGED <<config, fixed, unread, nr_options, list_seen, tlsstate, metastate, df,
                   handled, listed>>

-----------------------------------------------------------------------------
(* The loop over the options *)

(* An option is read, passes the tests common to all, and is handled.      *)
Handling(option) ==
    /\ phase = "options" /\ ~unread
    /\ option # "EXPORT_NAME" => fixed
    /\ tls = 2 /\ ~using_tls => option \in {"ABORT", "STARTTLS"}

(* The next turn of the loop, with a larger bound after NBD_OPT_LIST; the  *)
(* handshake fails when the bound is used up, or the reply is not sent.    *)
Continue(more) ==
    /\ nr_options' = (nr_options + more) - 1
    /\ handled' = handled + 1
    /\ phase' \in IF (nr_options + more) - 1 = 0 THEN {"failed"} ELSE {"options", "failed"}

(* The end of the client, an unknown version, or an option that is too     *)
(* long; data left unread is not taken for the header of an option.        *)
BadHeader ==
    /\ phase = "options" /\ phase' = "failed"
    /\ UNCHANGED <<config, fixed, unread, nr_options, list_seen, tlsstate, metastate,
                   top_context, df, export, handled, listed>>

(* A client without fixed newstyle may only send NBD_OPT_EXPORT_NAME; the  *)
(* data of its option is not read.                                         *)
NotFixed ==
    /\ phase = "options" /\ ~unread /\ ~fixed
    /\ Continue(0) /\ unread' \in BOOLEAN
    /\ UNCHANGED <<config, fixed, list_seen, tlsstate, metastate, top_context, df, export, listed>>

(* --tls=require, and TLS has not been negotiated. *)
TlsRequired ==
    /\ phase = "options" /\ ~unread /\ tls = 2 /\ ~using_tls
    /\ \/ fixed /\ Continue(0)
       \/ phase' = "failed" /\ UNCHANGED <<nr_options, handled>>
    /\ UNCHANGED <<config, fixed, unread, list_seen, tlsstate, metastate, top_context, df,
                   export, listed>>

(* An option with a payload it should not have, a length or a name that is *)
(* wrong, or of an unknown type, has an error reply, and the loop goes on. *)
(* NBD_OPT_LIST_META_CONTEXT has its reply, and changes nothing either.    *)
OtherOption ==
    /\ Handling("unknown") /\ Continue(0)
    /\ UNCHANGED <<config, fixed, unread, list_seen, tlsstate, metastate, top_context, df,
                   export, listed>>

NBD_OPT_ABORT ==
    /\ Handling("ABORT") /\ phase' = "failed"
    /\ UNCHANGED <<config, fixed, unread, nr_options, list_seen, tlsstate, metastate,
                   top_context, df, export, handled, listed>>

(* .list_exports may fail, which is reported to the client.                *)
NBD_OPT_LIST ==
    /\ Handling("LIST")
    /\ IF list_seen THEN Continue(0) /\ UNCHANGED listed
       ELSE \E n \in 0..MaxListed : Continue(MAX_NR_OPTIONS * n) /\ listed' = n
    /\ list_seen' = TRUE
    /\ UNCHANGED <<config, fixed, unread, tlsstate, metastate, top_context, df, export>>

(* Mutant: what was negotiated in the clear is kept. *)
NBD_OPT_STARTTLS_keeps ==
    /\ Handling("STARTTLS")
    /\ Continue(0) /\ using_tls' = TRUE
    /\ UNCHANGED <<config, fixed, unread, list_seen, structured_replies, metastate,
                   top_context, df, export, listed>>

NBD_OPT_STARTTLS ==
    /\ Handling("STARTTLS")
    /\ Continue(0)
    /\ IF tls = 0 \/ using_tls
       THEN UNCHANGED <<tlsstate, metastate>>
       ELSE \/ /\ using_tls' = TRUE /\ structured_replies' = FALSE
               /\ set_name' = NoExport /\ meta' = FALSE /\ UNCHANGED granted
            \/ phase' = "failed" /\ UNCHANGED <<tlsstate, metastate>>
    /\ UNCHANGED <<config, fixed, unread, list_seen, top_context, df, export, listed>>

(* finish_newstyle_options drops the context of another export, and        *)
(* protocol_common_open, if it succeeds, sets the flags of this one.       *)
finish_newstyle_options(name) ==
    /\ meta' = (meta /\ set_name \in {NoExport, name})
    /\ df' \in {df, structured_replies}
    /\ UNCHANGED <<set_name, granted>>

Opened(name) == finish_newstyle_options(name) /\ df' = structured_replies

(* NBD_OPT_EXPORT_NAME ends the handshake, in one way or the other. *)
NBD_OPT_EXPORT_NAME(name) ==
    /\ Handling("EXPORT_NAME") /\ ~(tls = 2 /\ ~using_tls)
    /\ \/ Opened(name) /\ phase' = "ready" /\ top_context' = "open" /\ export' = name
       \/ /\ finish_newstyle_options(name) /\ phase' = "failed"
          /\ top_context' \in {"none", "open"} /\ UNCHANGED export
    /\ UNCHANGED <<config, fixed, unread, nr_options, list_seen, tlsstate, handled, listed>>

(* After a failure the context, if there is one, is finalized and closed   *)
(* and the client may go on; if .finalize fails the handshake does.        *)
OpenFails(name) ==
    /\ finish_newstyle_options(name)
    /\ \/ Continue(0) /\ top_context' = "none" /\ df' = df
       \/ phase' = "failed" /\ top_context' = "open" /\ UNCHANGED <<nr_options, handled>>

NBD_OPT_INFO(name) ==
    /\ Handling("INFO")
    /\ \/ OpenFails(name)
       \/ Opened(name) /\ Continue(0) /\ top_context' = "none"
    /\ UNCHANGED <<config, fixed, unread, list_seen, tlsstate, export, listed>>

NBD_OPT_GO(name) ==
    /\ Handling("GO")
    /\ \/ OpenFails(name) /\ UNCHANGED export
       \/ /\ Opened(name) /\ top_context' = "open"
          /\ \/ phase' = "ready" /\ export' = name
             \/ phase' = "failed" /\ UNCHANGED export
          /\ UNCHANGED <<nr_options, handled>>
    /\ UNCHANGED <<config, fixed, unread, list_seen, tlsstate, listed>>

NBD_OPT_STRUCTURED_REPLY ==
    /\ Handling("STRUCTURED_REPLY")
    /\ Continue(0)
    /\ structured_replies' = (structured_replies \/ (~no_sr /\ phase' = "options"))
    /\ UNCHANGED <<config, fixed, unread, list_seen, using_tls, metastate, top_context, df,
                   export, listed>>

SetMetaAllowed == ~no_mc /\ structured_replies

(* The export name is stored as soon as it has been read; the payload may  *)
(* turn out to be malformed before or after the context is reset, and the  *)
(* queries may name base:allocation or not.                                *)
NBD_OPT_SET_META_CONTEXT(name) ==
    /\ Handling("SET_META_CONTEXT")
    /\ Continue(0)
    /\ IF SetMetaAllowed
       THEN /\ set_name' = name
            /\ \/ UNCHANGED <<meta, granted>>
               \/ meta' = FALSE /\ UNCHANGED granted
               \/ meta' = TRUE /\ granted' = granted \cup {<<name, using_tls>>}
       ELSE UNCHANGED metastate
    /\ UNCHANGED <<config, fixed, unread, list_seen, tlsstate, top_context, df, export, listed>>

(* free_connection closes the context of a handshake that failed. *)
FreeConnection ==
    /\ phase = "failed" /\ phase' = "freed" /\ top_context' = "none"
    /\ UNCHANGED <<config, fixed, unread, nr_options, list_seen, tlsstate, metastate, df,
                   export, handled, listed>>

Ended == phase \in {"ready", "freed"} /\ UNCHANGED vars

Next ==
    \/ RecvFlags \/ Oldstyle \/ BadHeader \/ NotFixed \/ TlsRequired \/ OtherOption
    \/ NBD_OPT_ABORT \/ NBD_OPT_LIST \/ NBD_OPT_STARTTLS \/ NBD_OPT_STRUCTURED_REPLY
    \/ \E e \in Exports : \/ NBD_OPT_EXPORT_NAME(e) \/ NBD_OPT_INFO(e) \/ NBD_OPT_GO(e)
                          \/ NBD_OPT_SET_META_CONTEXT(e)
    \/ FreeConnection \/ Ended

Spec == Init /\ [][Next]_vars

(* The client goes on sending options, or leaves. *)
FairSpec == Spec /\ WF_vars(Next)

-----------------------------------------------------------------------------
(* With --tls=require the plugin is not opened, nor its exports listed,    *)
(* for a client that has not negotiated TLS.                               *)
TlsIsRequired ==
    tls = 2 /\ ~using_tls => top_context = "none" /\ ~list_seen /\ phase # "ready"

(* What the client and the server have agreed on when the handshake ends   *)
(* is consistent: there is a context; the flags offer DF exactly if        *)
(* structured replies are in force; and block status, which is sent in     *)
(* structured replies, is only in force with them.                         *)
AgreementConsistent ==
    phase = "ready" =>
        /\ top_context = "open"
        /\ newstyle => df = structured_replies
        /\ meta => structured_replies

(* Nothing agreed on in the clear is in force after STARTTLS: the metadata *)
(* context in use was granted under TLS.                                   *)
NothingFromPlaintext ==
    using_tls /\ meta => \E e \in Exports : <<e, TRUE>> \in granted

(* Between options no context is open, as backend_list_exports and         *)
(* backend_default_export assert.                                          *)
NoContextBetweenOptions == phase = "options" => top_context = "none"

(* The number of options a client can make the server handle is bounded by *)
(* the number of exports that were listed to it, and by no more.           *)
OptionsBounded == handled <= MAX_NR_OPTIONS + MAX_NR_OPTIONS * listed

(* What must hold at every moment of the handshake, whatever the client    *)
(* sends: the five above (protocol-handshake-newstyle.c).                  *)
HandshakeIsSound ==
    /\ TlsIsRequired /\ AgreementConsistent /\ NothingFromPlaintext
    /\ NoContextBetweenOptions /\ OptionsBounded

(* A client that goes on sending options cannot stay in the handshake.     *)
HandshakeEnds == <>(phase \in {"ready", "freed"})

(* "if the client later uses NBD_OPT_GO on a different export, then the    *)
(* context from the earlier NBD_OPT_SET_META_CONTEXT is not usable so      *)
(* discard it" (protocol-handshake-newstyle.c).                            *)
MetaContextIsOfExport ==
    phase = "ready" /\ meta => \E s \in BOOLEAN : <<export, s>> \in granted
=============================================================================
