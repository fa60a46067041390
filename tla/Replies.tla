-------------------------------- MODULE Replies --------------------------------
(***************************************************************************)
(* What a connection promises its client, without threads, locks or        *)
(* chunks: messages are taken from the stream in order, a request among    *)
(* them is answered at most once, by one whole reply, the replies in any   *)
(* order; a request goes without an answer only if the connection dies.    *)
(***************************************************************************)
EXTENDS Naturals

VARIABLES
    last,      \* how many messages have been taken from the stream
    pending,   \* the positions of the requests being worked on
    answers,   \* the whole replies: when each was given, and to which position
    dead       \* the connection has died

vars == <<last, pending, answers, dead>>

Init == last = 0 /\ pending = {} /\ answers = {} /\ dead = FALSE

Take == last' = last + 1 /\ UNCHANGED <<pending, answers, dead>>

Accept ==
    /\ ~dead /\ last # 0
    /\ last \notin pending /\ \A a \in answers : a[2] # last
    /\ pending' = pending \cup {last}
    /\ UNCHANGED <<last, answers, dead>>

(* One more reply, later than the others, to a request that waits for it. *)
Answer ==
    /\ \E c \in pending, a \in answers' :
          /\ a[2] = c /\ \A b \in answers : b[1] < a[1]
          /\ pending' = pending \ {c} /\ answers' = answers \cup {a}
    /\ UNCHANGED <<last, dead>>

Die == ~dead /\ dead' = TRUE /\ UNCHANGED <<last, pending, answers>>

(* A reply that cannot be sent kills the connection, if it is not dead.    *)
Drop ==
    /\ \E c \in pending : pending' = pending \ {c}
    /\ dead' = TRUE
    /\ UNCHANGED <<last, answers>>

Next == Take \/ Accept \/ Answer \/ Die \/ Drop

Spec == Init /\ [][Next]_vars
=============================================================================
