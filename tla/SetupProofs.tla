----------------------------- MODULE SetupProofs -----------------------------
(* Proofs about what happens to a connection before its first request: the *)
(* contexts that the handshake opens in the chain of backends (Backend),   *)
(* for any number of filters; the handshake itself (Handshake), for any    *)
(* set of export names, any bound on the options and any length of a list  *)
(* of exports; and its timer (Timeout), for any number of connections and  *)
(* whenever the threads of their timers run.                               *)
EXTENDS Setup, Integers, TLAPS

-----------------------------------------------------------------------------
(* The contexts of the chain of backends. *)

Flags == {"OPEN", "CONNECTED", "FAILED"}
Calls == {"idle", "open", "opened", "unopened", "prepare", "preparing", "unprepared",
          "query", "serve", "finalize", "dying", "close", "closed", "done"}

BackendType ==
    /\ present \in [B!Index -> BOOLEAN] /\ state \in [B!Index -> SUBSET Flags]
    /\ c_next \in [B!Index -> BOOLEAN] /\ finalized \in [B!Index -> BOOLEAN]
    /\ b_pc \in Calls /\ b_lvl \in B!Index /\ closer \in 1 .. (Outermost + 1)
    /\ after \in {"retry", "die"} /\ gave_up \in BOOLEAN

\* A context that does not exist, and one whose .open has not returned.
Absent(i) == ~present[i] /\ state[i] = {} /\ ~c_next[i] /\ ~finalized[i]
Pending(i) == present[i] /\ state[i] = {} /\ ~c_next[i] /\ ~finalized[i]

\* The contexts from h inwards are a chain: a context is there only if it can
\* be reached from h, and what is reached is open.
Chain(h) ==
    /\ present[h]
    /\ \A i \in 0 .. h : IF present[i] THEN "OPEN" \in state[i] ELSE Absent(i)
    /\ \A i \in 0 .. h : c_next[i] => i > 0 /\ present[i - 1]
    /\ \A j \in 0 .. h : \A i \in 0 .. (j - 1) : present[i] => c_next[j]

\* .prepare and .finalize have not been called from h inwards.
OnlyOpened(h) == \A i \in 0 .. h : state[i] \subseteq {"OPEN"} /\ ~finalized[i]
NotFinalized(h) == \A i \in 0 .. h : "FAILED" \notin state[i] /\ ~finalized[i]
Reached == \A j \in (b_lvl + 1) .. Outermost : c_next[j]

\* Where the recursion stands, for each of the calls in progress.
CallInv ==
    /\ b_pc \in {"close", "closed"} \/ closer = Outermost + 1
    /\ b_pc = "idle" => b_lvl = Outermost /\ \A i \in B!Index : Absent(i)
    /\ b_pc \in {"open", "unopened"} =>
         \A i \in B!Index : IF i > b_lvl THEN Pending(i) ELSE Absent(i)
    /\ b_pc = "opened" => /\ Chain(b_lvl) /\ OnlyOpened(b_lvl)
                        /\ \A i \in (b_lvl + 1) .. Outermost : Pending(i)
    /\ b_pc = "prepare" => Chain(Outermost) /\ OnlyOpened(Outermost) /\ Reached
    /\ b_pc = "preparing" =>
         /\ Chain(Outermost) /\ NotFinalized(Outermost) /\ Reached
         /\ \A i \in 0 .. (b_lvl - 1) : present[i] => "CONNECTED" \in state[i]
    /\ b_pc \in {"query", "serve"} =>
         /\ b_lvl = Outermost /\ Chain(Outermost) /\ NotFinalized(Outermost)
         /\ \A i \in B!Index : present[i] => "CONNECTED" \in state[i]
    /\ b_pc = "unprepared" =>
         b_lvl = Outermost /\ Chain(Outermost) /\ NotFinalized(Outermost)
    /\ b_pc = "finalize" =>
         /\ Chain(Outermost) /\ NotFinalized(b_lvl) /\ Reached
         /\ \A i \in (b_lvl + 1) .. Outermost :
              "FAILED" \notin state[i] /\ ("CONNECTED" \in state[i] => finalized[i])
    /\ b_pc = "dying" => b_lvl = Outermost /\ Chain(Outermost)
    /\ b_pc \in {"close", "closed"} =>
         /\ b_lvl < closer
         /\ \A i \in B!Index : i > closer => Pending(i)
         /\ closer <= Outermost => /\ present[closer] /\ state[closer] = {}
                             /\ c_next[closer] /\ ~finalized[closer]
         /\ \A i \in B!Index : b_lvl < i /\ i < closer => Absent(i)
         /\ IF b_pc = "close" THEN Chain(b_lvl) ELSE \A i \in 0 .. b_lvl : Absent(i)
    /\ b_pc = "done" => Chain(Outermost) \/ \A i \in B!Index : Absent(i)

ContextInv == BackendType /\ CallInv
TopAssumption == Outermost \in Nat

LEMMA Init_Context == TopAssumption /\ B!Init => ContextInv
<1> SUFFICES ASSUME TopAssumption, B!Init PROVE ContextInv
  OBVIOUS
<1> USE DEF TopAssumption, B!Index
<1>1. BackendType
  <2>1. /\ present \in [B!Index -> BOOLEAN] /\ c_next \in [B!Index -> BOOLEAN]
        /\ finalized \in [B!Index -> BOOLEAN] /\ gave_up \in BOOLEAN
    BY Zenon DEF B!Init
  <2>2. /\ state \in [B!Index -> SUBSET Flags] /\ b_pc \in Calls /\ b_lvl \in B!Index
        /\ closer \in 1 .. (Outermost + 1) /\ after \in {"retry", "die"}
    BY DEF B!Init, Flags, Calls
  <2> QED BY <2>1, <2>2 DEF BackendType
<1>2. CallInv
  BY DEF B!Init, CallInv, Absent
<1> QED BY <1>1, <1>2 DEF ContextInv

LEMMA OpenTop_Context == ASSUME TopAssumption, ContextInv, B!OpenTop PROVE ContextInv'
<1> USE DEF TopAssumption, B!Index
<1>1. BackendType'
  BY DEF ContextInv, BackendType, CallInv, B!OpenTop, B!Call, B!contexts, B!caller, Flags,
     Calls
<1>2. CallInv'
  BY DEF ContextInv, BackendType, CallInv, B!OpenTop, B!Call, B!contexts, B!caller, Absent,
     Pending, Chain, OnlyOpened, NotFinalized, Reached
<1> QED BY <1>1, <1>2 DEF ContextInv

LEMMA OpenNext_Context == ASSUME TopAssumption, ContextInv, B!OpenNext PROVE ContextInv'
<1> USE DEF TopAssumption, B!Index
<1>1. BackendType'
  BY DEF ContextInv, BackendType, CallInv, B!OpenNext, B!Call, B!contexts, B!caller, Flags,
     Calls
<1>2. CallInv'
  BY DEF ContextInv, BackendType, CallInv, B!OpenNext, B!Call, B!contexts, B!caller, Absent,
     Pending, Chain, OnlyOpened, NotFinalized, Reached
<1> QED BY <1>1, <1>2 DEF ContextInv

LEMMA OpenAlone_Context == ASSUME TopAssumption, ContextInv, B!OpenAlone PROVE ContextInv'
<1> USE DEF TopAssumption, B!Index
<1>1. BackendType'
  <2>1. CASE b_pc' = "opened"
    BY <2>1 DEF ContextInv, BackendType, B!OpenAlone, B!Call, B!caller, Flags, Calls
  <2>2. CASE b_pc' = "unopened"
    BY <2>2 DEF ContextInv, BackendType, B!OpenAlone, B!Call, B!caller, Flags, Calls
  <2> QED BY <2>1, <2>2 DEF B!OpenAlone, B!Call
<1>2. CallInv'
  BY DEF ContextInv, BackendType, CallInv, B!OpenAlone, B!Call, B!contexts, B!caller,
     Absent,
     Pending, Chain, OnlyOpened, NotFinalized, Reached
<1> QED BY <1>1, <1>2 DEF ContextInv

LEMMA OpenReturns_Context ==
    ASSUME TopAssumption, ContextInv, B!OpenReturns
    PROVE  ContextInv'
<1> USE DEF TopAssumption, B!Index
<1>1. BackendType'
  BY DEF ContextInv, BackendType, CallInv, B!OpenReturns, B!Call, B!contexts, B!caller,
     Flags, Calls
<1>2. CallInv'
  BY DEF ContextInv, BackendType, CallInv, B!OpenReturns, B!Call, B!contexts, B!caller,
     Absent,
     Pending, Chain, OnlyOpened, NotFinalized, Reached
<1> QED BY <1>1, <1>2 DEF ContextInv

LEMMA OpenFails_Context == ASSUME TopAssumption, ContextInv, B!OpenFails PROVE ContextInv'
<1> USE DEF TopAssumption, B!Index
<1>1. BackendType'
  BY DEF ContextInv, BackendType, CallInv, B!OpenFails, B!Call, B!contexts, B!caller,
     Flags, Calls
<1>2. CallInv'
  BY DEF ContextInv, BackendType, CallInv, B!OpenFails, B!Call, B!contexts, B!caller,
     Absent,
     Pending, Chain, OnlyOpened, NotFinalized, Reached
<1> QED BY <1>1, <1>2 DEF ContextInv

LEMMA NextOpenFails_Context ==
    ASSUME TopAssumption, ContextInv, B!NextOpenFails
    PROVE  ContextInv'
<1> USE DEF TopAssumption, B!Index
<1>1. BackendType'
  <2>1. CASE b_pc' = "opened"
    BY <2>1 DEF ContextInv, BackendType, B!NextOpenFails, B!Call, B!caller, Flags, Calls
  <2>2. CASE b_pc' = "unopened"
    <3>1. present' = [present EXCEPT ![b_lvl + 1] = FALSE]
      BY <2>2 DEF B!NextOpenFails, B!Call
    <3>2. present' \in [B!Index -> BOOLEAN]
      BY <3>1, Zenon DEF ContextInv, BackendType
    <3> QED BY <2>2, <3>2
               DEF ContextInv, BackendType, B!NextOpenFails, B!Call, B!caller, Calls
  <2> QED BY <2>1, <2>2 DEF B!NextOpenFails, B!Call
<1>2. CallInv'
  BY DEF ContextInv, BackendType, CallInv, B!NextOpenFails, B!Call, B!contexts, B!caller,
     Absent,
     Pending, Chain, OnlyOpened, NotFinalized, Reached
<1> QED BY <1>1, <1>2 DEF ContextInv

LEMMA TopUnopened_Context ==
    ASSUME TopAssumption, ContextInv, B!TopUnopened
    PROVE  ContextInv'
<1> USE DEF TopAssumption, B!Index
<1>1. BackendType'
  BY DEF ContextInv, BackendType, CallInv, B!TopUnopened, B!Call, B!contexts, B!caller,
     Flags, Calls
<1>2. CallInv'
  BY DEF ContextInv, BackendType, CallInv, B!TopUnopened, B!Call, B!contexts, B!caller,
     Absent,
     Pending, Chain, OnlyOpened, NotFinalized, Reached
<1> QED BY <1>1, <1>2 DEF ContextInv

LEMMA PrepareTop_Context == ASSUME TopAssumption, ContextInv, B!PrepareTop PROVE ContextInv'
<1> USE DEF TopAssumption, B!Index
<1>1. BackendType'
  BY DEF ContextInv, BackendType, CallInv, B!PrepareTop, B!Call, B!contexts, B!caller,
     Flags, Calls
<1>2. CallInv'
  BY DEF ContextInv, BackendType, CallInv, B!PrepareTop, B!Call, B!contexts, B!caller,
     Absent,
     Pending, Chain, OnlyOpened, NotFinalized, Reached
<1> QED BY <1>1, <1>2 DEF ContextInv

LEMMA PrepareNext_Context ==
    ASSUME TopAssumption, ContextInv, B!PrepareNext
    PROVE  ContextInv'
<1> USE DEF TopAssumption, B!Index
<1>1. BackendType'
  BY DEF ContextInv, BackendType, CallInv, Chain, B!PrepareNext, B!Call, B!contexts,
     B!caller,
     Flags, Calls
<1>2. CallInv'
  <2>1. /\ closer = Outermost + 1 /\ Chain(Outermost) /\ OnlyOpened(Outermost) /\ Reached
        /\ b_lvl \in B!Index
    BY DEF ContextInv, BackendType, CallInv, B!PrepareNext
  <2>2. Chain(Outermost)' /\ OnlyOpened(Outermost)' /\ NotFinalized(Outermost)'
    BY <2>1 DEF Chain, Absent, OnlyOpened, NotFinalized, B!PrepareNext, B!contexts
  <2>3. Reached'
    BY <2>1 DEF Reached, B!PrepareNext, B!Call, B!contexts
  <2>4. b_pc' = "preparing" => \A i \in 0 .. (b_lvl' - 1) : ~present'[i]
    BY <2>1 DEF Chain, B!PrepareNext, B!Call, B!contexts
  <2> QED BY <2>1, <2>2, <2>3, <2>4 DEF CallInv, B!PrepareNext, B!Call, B!caller
<1> QED BY <1>1, <1>2 DEF ContextInv

LEMMA Prepare_Context == ASSUME TopAssumption, ContextInv, B!Prepare PROVE ContextInv'
<1> USE DEF TopAssumption, B!Index
<1>1. BackendType'
  BY DEF ContextInv, BackendType, CallInv, B!Prepare, B!Call, B!contexts, B!caller, Flags,
     Calls
<1>2. CallInv'
  <2>1. /\ Chain(Outermost) /\ NotFinalized(Outermost) /\ Reached
        /\ \A i \in 0 .. (b_lvl - 1) : present[i] => "CONNECTED" \in state[i]
        /\ closer = Outermost + 1
    BY DEF ContextInv, CallInv, B!Prepare
  <2>2. UNCHANGED <<present, c_next, finalized, closer>>
    BY DEF B!Prepare, B!caller
  <2>3. CASE b_pc' = "unprepared" /\ b_lvl' = Outermost /\ UNCHANGED state
    <3>1. Chain(Outermost)' /\ NotFinalized(Outermost)'
      BY <2>1, <2>2, <2>3 DEF Chain, NotFinalized, Absent
    <3> QED BY <2>1, <2>2, <2>3, <3>1 DEF CallInv
  <2>4. CASE /\ state' = [state EXCEPT ![b_lvl] = @ \cup {"CONNECTED"}]
             /\ IF b_lvl = Outermost THEN b_pc' = "query" /\ b_lvl' = Outermost
                ELSE b_pc' = "preparing" /\ b_lvl' = b_lvl + 1
    <3>1. /\ \A i \in B!Index : i # b_lvl => state'[i] = state[i]
          /\ state'[b_lvl] = state[b_lvl] \cup {"CONNECTED"}
          /\ b_lvl \in B!Index /\ present[b_lvl]
      BY <2>1, <2>4 DEF ContextInv, BackendType, Reached, Chain
    <3>2. Chain(Outermost)' /\ NotFinalized(Outermost)'
      BY <2>1, <2>2, <3>1 DEF Chain, NotFinalized, Absent
    <3>3. \A i \in 0 .. b_lvl : present'[i] => "CONNECTED" \in state'[i]
      BY <2>1, <2>2, <3>1
    <3>4. CASE b_pc' = "query" /\ b_lvl = Outermost /\ b_lvl' = Outermost
      BY <2>1, <2>2, <3>2, <3>3, <3>4 DEF CallInv
    <3>5. CASE b_pc' = "preparing" /\ b_lvl' = b_lvl + 1
      <4>1. Reached'
        BY <2>1, <2>2, <3>1, <3>5 DEF Reached
      <4> QED BY <2>1, <2>2, <3>1, <3>2, <3>3, <3>5, <4>1 DEF CallInv
    <3> QED BY <2>4, <3>4, <3>5
  <2> QED BY <2>3, <2>4 DEF B!Prepare, B!Call
<1> QED BY <1>1, <1>2 DEF ContextInv

LEMMA CommonOpenFails_Context ==
    ASSUME TopAssumption, ContextInv, B!CommonOpenFails
    PROVE  ContextInv'
<1> USE DEF TopAssumption, B!Index
<1>1. BackendType'
  BY DEF ContextInv, BackendType, CallInv, B!CommonOpenFails, B!Call, B!contexts, B!caller,
     Flags,
     Calls
<1>2. CallInv'
  <2>1. /\ closer = Outermost + 1 /\ Chain(Outermost) /\ NotFinalized(Outermost)
    BY DEF ContextInv, CallInv, B!CommonOpenFails
  <2>2. Chain(Outermost)' /\ NotFinalized(Outermost)'
    BY <2>1 DEF Chain, Absent, NotFinalized, B!CommonOpenFails, B!contexts
  <2> QED BY <2>1, <2>2 DEF CallInv, B!CommonOpenFails, B!Call, B!caller, Reached
<1> QED BY <1>1, <1>2 DEF ContextInv

LEMMA InfoDone_Context == ASSUME TopAssumption, ContextInv, B!InfoDone PROVE ContextInv'
<1> USE DEF TopAssumption, B!Index
<1>1. BackendType'
  BY DEF ContextInv, BackendType, CallInv, B!InfoDone, B!Call, B!contexts, B!caller, Flags,
     Calls
<1>2. CallInv'
  <2>1. /\ closer = Outermost + 1 /\ Chain(Outermost) /\ NotFinalized(Outermost)
    BY DEF ContextInv, CallInv, B!InfoDone
  <2>2. Chain(Outermost)' /\ NotFinalized(Outermost)'
    BY <2>1 DEF Chain, Absent, NotFinalized, B!InfoDone, B!contexts
  <2> QED BY <2>1, <2>2 DEF CallInv, B!InfoDone, B!Call, B!caller, Reached
<1> QED BY <1>1, <1>2 DEF ContextInv

LEMMA HandshakeDone_Context ==
    ASSUME TopAssumption, ContextInv, B!HandshakeDone
    PROVE  ContextInv'
<1> USE DEF TopAssumption, B!Index
<1>1. BackendType'
  BY DEF ContextInv, BackendType, CallInv, B!HandshakeDone, B!Call, B!contexts, B!caller,
     Flags,
     Calls
<1>2. CallInv'
  <2>1. /\ closer = Outermost + 1 /\ Chain(Outermost) /\ NotFinalized(Outermost)
        /\ \A i \in B!Index : present[i] => "CONNECTED" \in state[i]
    BY DEF ContextInv, CallInv, B!HandshakeDone
  <2>2. Chain(Outermost)' /\ NotFinalized(Outermost)'
    BY <2>1 DEF Chain, Absent, NotFinalized, B!HandshakeDone, B!contexts
  <2> QED BY <2>1, <2>2 DEF CallInv, B!HandshakeDone, B!Call, B!contexts, B!caller
<1> QED BY <1>1, <1>2 DEF ContextInv

LEMMA ServeEnds_Context == ASSUME TopAssumption, ContextInv, B!ServeEnds PROVE ContextInv'
<1> USE DEF TopAssumption, B!Index
<1>1. BackendType'
  BY DEF ContextInv, BackendType, CallInv, B!ServeEnds, B!Call, B!contexts, B!caller,
     Flags, Calls
<1>2. CallInv'
  <2>1. /\ closer = Outermost + 1 /\ Chain(Outermost) /\ NotFinalized(Outermost)
    BY DEF ContextInv, CallInv, B!ServeEnds
  <2>2. Chain(Outermost)' /\ NotFinalized(Outermost)'
    BY <2>1 DEF Chain, Absent, NotFinalized, B!ServeEnds, B!contexts
  <2> QED BY <2>1, <2>2 DEF CallInv, B!ServeEnds, B!Call, B!caller, Reached
<1> QED BY <1>1, <1>2 DEF ContextInv

LEMMA Finalize_Context == ASSUME TopAssumption, ContextInv, B!Finalize PROVE ContextInv'
<1> USE DEF TopAssumption, B!Index
<1>1. BackendType'
  <2>1. finalized' \in [B!Index -> BOOLEAN]
    <3> DEFINE done == "CONNECTED" \in state[b_lvl]
    <3>1. finalized' = [finalized EXCEPT ![b_lvl] = done] /\ done \in BOOLEAN
      BY DEF B!Finalize
    <3> HIDE DEF done
    <3> QED BY <3>1, Zenon DEF ContextInv, BackendType
  <2>2. b_lvl' \in B!Index /\ b_pc' \in Calls
    BY DEF ContextInv, BackendType, CallInv, Chain, B!Finalize, B!Call, Calls
  <2>3. state' \in [B!Index -> SUBSET Flags]
    BY DEF ContextInv, BackendType, B!Finalize, Flags
  <2>4. gave_up' \in BOOLEAN
    BY Zenon DEF ContextInv, BackendType, B!Finalize
  <2> QED BY <2>1, <2>2, <2>3, <2>4 DEF ContextInv, BackendType, B!Finalize, B!caller
<1>2. CallInv'
  <2>1. /\ closer = Outermost + 1 /\ Chain(Outermost) /\ NotFinalized(b_lvl) /\ Reached
        /\ \A i \in (b_lvl + 1) .. Outermost :
             "FAILED" \notin state[i] /\ ("CONNECTED" \in state[i] => finalized[i])
        /\ b_lvl \in B!Index /\ closer' = closer
        /\ state \in [B!Index -> SUBSET Flags] /\ finalized \in [B!Index -> BOOLEAN]
    BY DEF ContextInv, BackendType, CallInv, B!Finalize, B!caller
  <2>2. Chain(Outermost)'
    BY <2>1 DEF Chain, Absent, Reached, B!Finalize
  <2>3. CASE b_pc' = "dying" \/ b_pc' = "close"
    BY <2>1, <2>2, <2>3 DEF CallInv, B!Finalize, B!Call
  <2>4. CASE c_next[b_lvl] /\ UNCHANGED state /\ b_pc' = "finalize" /\ b_lvl' = b_lvl - 1
    <3>1. NotFinalized(b_lvl)'
      <4>1. \A i \in B!Index : i # b_lvl => finalized'[i] = finalized[i]
        BY <2>1 DEF B!Finalize
      <4>2. \A i \in 0 .. (b_lvl - 1) : i \in B!Index /\ i \in 0 .. b_lvl /\ i # b_lvl
        BY <2>1
      <4> QED BY <2>1, <2>4, <4>1, <4>2 DEF NotFinalized
    <3>2. Reached'
      BY <2>1, <2>4 DEF Reached, B!Finalize
    <3>3. \A i \in (b_lvl' + 1) .. Outermost :
            "FAILED" \notin state'[i] /\ ("CONNECTED" \in state'[i] => finalized'[i])
      <4>1. \A i \in B!Index : i # b_lvl => finalized'[i] = finalized[i]
        BY <2>1 DEF B!Finalize
      <4>2. "CONNECTED" \in state[b_lvl] => finalized'[b_lvl]
        BY <2>1 DEF B!Finalize
      <4>3. "FAILED" \notin state[b_lvl]
        BY <2>1 DEF NotFinalized
      <4> QED BY <2>1, <2>4, <4>1, <4>2, <4>3
    <3> QED BY <2>1, <2>2, <2>4, <3>1, <3>2, <3>3 DEF CallInv
  <2> QED BY <2>3, <2>4 DEF B!Finalize, B!Call
<1> QED BY <1>1, <1>2 DEF ContextInv

LEMMA FreeConnection_Context ==
    ASSUME TopAssumption, ContextInv, B!FreeConnection
    PROVE  ContextInv'
<1> USE DEF TopAssumption, B!Index
<1>1. BackendType'
  BY DEF ContextInv, BackendType, CallInv, B!FreeConnection, B!Call, B!contexts, B!caller,
     Flags,
     Calls
<1>2. CallInv'
  <2>1. /\ closer = Outermost + 1 /\ Chain(Outermost)
    BY DEF ContextInv, CallInv, B!FreeConnection
  <2>2. Chain(Outermost)'
    BY <2>1 DEF Chain, Absent, B!FreeConnection, B!contexts
  <2> QED BY <2>1, <2>2 DEF CallInv, B!FreeConnection, B!Call, B!caller
<1> QED BY <1>1, <1>2 DEF ContextInv

LEMMA Close_Context == ASSUME TopAssumption, ContextInv, B!Close PROVE ContextInv'
<1> USE DEF TopAssumption, B!Index
<1>1. BackendType'
  BY DEF ContextInv, BackendType, CallInv, Chain, B!Close, B!Call, B!contexts, B!caller,
     Flags,
     Calls
<1>2. CallInv'
  <2>1. /\ b_lvl < closer /\ Chain(b_lvl)
        /\ \A i \in B!Index : i > closer => Pending(i)
        /\ closer <= Outermost => /\ present[closer] /\ state[closer] = {}
                                  /\ c_next[closer] /\ ~finalized[closer]
        /\ \A i \in B!Index : b_lvl < i /\ i < closer => Absent(i)
    BY DEF ContextInv, CallInv, B!Close
  <2>2. /\ present \in [B!Index -> BOOLEAN] /\ state \in [B!Index -> SUBSET Flags]
        /\ c_next \in [B!Index -> BOOLEAN] /\ finalized \in [B!Index -> BOOLEAN]
        /\ b_lvl \in B!Index /\ closer \in 1 .. (Outermost + 1) /\ closer' = closer
    BY DEF ContextInv, BackendType, B!Close, B!caller
  <2>3. /\ ~present'[b_lvl] /\ state'[b_lvl] = {}
        /\ ~c_next'[b_lvl] /\ ~finalized'[b_lvl]
        /\ \A i \in B!Index : i # b_lvl =>
             /\ present'[i] = present[i] /\ state'[i] = state[i]
             /\ c_next'[i] = c_next[i] /\ finalized'[i] = finalized[i]
    BY <2>2 DEF B!Close
  <2>4. /\ b_lvl' < closer
        /\ \A i \in B!Index : i > closer => Pending(i)'
        /\ closer <= Outermost => /\ present'[closer] /\ state'[closer] = {}
                                  /\ c_next'[closer] /\ ~finalized'[closer]
    BY <2>1, <2>2, <2>3 DEF B!Close, B!Call, Pending
  <2>5. CASE c_next[b_lvl] /\ b_pc' = "close" /\ b_lvl' = b_lvl - 1
    <3>1. Chain(b_lvl)'
      <4> DEFINE inner == 0 .. (b_lvl - 1)
      <4>1. \A i \in inner : i \in B!Index /\ i \in 0 .. b_lvl /\ i # b_lvl
        BY <2>2
      <4>2. b_lvl - 1 \in inner /\ present[b_lvl - 1]
        BY <2>1, <2>2, <2>5 DEF Chain
      <4>3. present'[b_lvl - 1]
        BY <2>3, <4>1, <4>2
      <4>4. \A i \in inner : IF present'[i] THEN "OPEN" \in state'[i] ELSE Absent(i)'
        BY <2>1, <2>3, <4>1 DEF Chain, Absent
      <4>5. \A i \in inner : c_next'[i] => i > 0 /\ present'[i - 1]
        <5>1. \A i \in inner : c_next[i] => i > 0 /\ present[i - 1]
          BY <2>1, <4>1 DEF Chain
        <5>2. \A i \in inner : i > 0 => i - 1 \in inner
          BY <2>2
        <5> QED BY <2>3, <4>1, <5>1, <5>2
      <4>6. \A j \in inner : \A i \in 0 .. (j - 1) : present'[i] => c_next'[j]
        <5>1. \A j \in inner : \A i \in 0 .. (j - 1) : present[i] => c_next[j]
          BY <2>1, <4>1 DEF Chain
        <5>2. \A j \in inner : \A i \in 0 .. (j - 1) : i \in inner
          BY <2>2
        <5> QED BY <2>3, <4>1, <5>1, <5>2
      <4> QED BY <2>5, <4>3, <4>4, <4>5, <4>6 DEF Chain
    <3>2. \A i \in B!Index : b_lvl' < i /\ i < closer => Absent(i)'
      BY <2>1, <2>2, <2>3, <2>5 DEF Absent
    <3> QED BY <2>2, <2>4, <2>5, <3>1, <3>2 DEF CallInv
  <2>6. CASE ~c_next[b_lvl] /\ b_pc' = "closed" /\ b_lvl' = b_lvl
    <3>1. \A i \in B!Index : i < closer => Absent(i)'
      BY <2>1, <2>2, <2>3, <2>6 DEF Chain, Absent
    <3> QED BY <2>2, <2>4, <2>6, <3>1 DEF CallInv
  <2> QED BY <2>5, <2>6 DEF B!Close, B!Call
<1> QED BY <1>1, <1>2 DEF ContextInv

LEMMA ClosedForOpen_Context ==
    ASSUME TopAssumption, ContextInv, B!ClosedForOpen
    PROVE  ContextInv'
<1> USE DEF TopAssumption, B!Index
<1>1. BackendType'
  BY DEF ContextInv, BackendType, CallInv, B!ClosedForOpen, B!Call, B!contexts, B!caller,
     Flags,
     Calls
<1>2. CallInv'
  <2>1. /\ b_lvl < closer
        /\ \A i \in B!Index : i > closer => Pending(i)
        /\ state[closer] = {} /\ ~finalized[closer]
        /\ \A i \in B!Index : i < closer => Absent(i)
    BY DEF ContextInv, BackendType, CallInv, B!ClosedForOpen
  <2>2. \A i \in B!Index : IF i > closer THEN Pending(i)' ELSE Absent(i)'
    BY <2>1 DEF ContextInv, BackendType, B!ClosedForOpen, Pending, Absent
  <2> QED BY <2>2 DEF CallInv, B!ClosedForOpen, B!Call
<1> QED BY <1>1, <1>2 DEF ContextInv

LEMMA ClosedForServer_Context ==
    ASSUME TopAssumption, ContextInv, B!ClosedForServer
    PROVE  ContextInv'
<1> USE DEF TopAssumption, B!Index
<1>1. BackendType'
  BY DEF ContextInv, BackendType, CallInv, B!ClosedForServer, B!Call, B!contexts, B!caller,
     Flags,
     Calls
<1>2. CallInv'
  <2>1. \A i \in B!Index : Absent(i)
    BY DEF ContextInv, BackendType, CallInv, B!ClosedForServer
  <2>2. \A i \in B!Index : Absent(i)'
    BY <2>1 DEF B!ClosedForServer, B!contexts, Absent
  <2>3. closer' = Outermost + 1
    BY DEF ContextInv, BackendType, B!ClosedForServer, B!caller
  <2> QED BY <2>2, <2>3 DEF CallInv, B!ClosedForServer, B!Call
<1> QED BY <1>1, <1>2 DEF ContextInv

LEMMA Next_Context == ASSUME TopAssumption, ContextInv, [B!Next]_(B!vars) PROVE ContextInv'
<1>1. CASE UNCHANGED B!vars
  <2>1. UNCHANGED <<present, state, c_next, finalized, b_pc, b_lvl, closer, after, gave_up>>
    BY <1>1 DEF B!vars
  <2>2. BackendType' = BackendType /\ Reached' = Reached
    BY <2>1 DEF BackendType, Reached
  <2>3. \A i : Absent(i)' = Absent(i) /\ Pending(i)' = Pending(i)
    BY <2>1 DEF Absent, Pending
  <2>4. \A h : /\ Chain(h)' = Chain(h) /\ OnlyOpened(h)' = OnlyOpened(h)
               /\ NotFinalized(h)' = NotFinalized(h)
    BY <2>1, <2>3 DEF Chain, OnlyOpened, NotFinalized
  <2>5. CallInv' = CallInv
    BY <2>1, <2>2, <2>3, <2>4, Zenon DEF CallInv
  <2> QED BY <2>2, <2>5 DEF ContextInv
<1>2. CASE B!Next
  <2>1. CASE B!Ended
    BY <1>1, <2>1 DEF B!Ended
  <2> QED BY <1>2, <2>1, OpenTop_Context, OpenNext_Context, OpenAlone_Context,
             OpenReturns_Context,
          OpenFails_Context, NextOpenFails_Context, TopUnopened_Context, PrepareTop_Context,
          PrepareNext_Context, Prepare_Context, CommonOpenFails_Context, InfoDone_Context,
          HandshakeDone_Context, ServeEnds_Context, Finalize_Context, FreeConnection_Context,
          Close_Context, ClosedForOpen_Context, ClosedForServer_Context
          DEF B!Next
<1> QED BY <1>1, <1>2

\* The shape of the chain at every call in progress (backend.c, filters.c).
THEOREM ContextsInductive == ASSUME TopAssumption PROVE B!Spec => []ContextInv
<1>1. B!Init => ContextInv
  BY Init_Context
<1>2. ContextInv /\ [B!Next]_(B!vars) => ContextInv'
  BY Next_Context
<1> QED BY <1>1, <1>2, PTL DEF B!Spec

LEMMA Context_Sound == ASSUME TopAssumption, ContextInv PROVE ContextsAreSound
<1> USE DEF TopAssumption, B!Index
<1>1. B!NothingLeft
  BY DEF ContextInv, CallInv, B!NothingLeft, Absent
<1>2. B!NextIsOpen
  <2> SUFFICES ASSUME NEW i \in B!Index, c_next[i], closer # i
               PROVE  i > 0 /\ present[i - 1] /\ "OPEN" \in state[i - 1]
    BY DEF B!NextIsOpen
  <2>1. b_lvl \in B!Index /\ b_pc \in Calls /\ closer \in 1 .. (Outermost + 1) /\ CallInv
    BY DEF ContextInv, BackendType
  <2>2. ASSUME NEW h \in B!Index, i <= h, Chain(h)
        PROVE  i > 0 /\ present[i - 1] /\ "OPEN" \in state[i - 1]
    BY <2>2 DEF Chain
  <2>3. ~Absent(i) /\ ~Pending(i)
    BY DEF Absent, Pending
  <2>4. CASE b_pc \in {"idle", "open", "unopened"}
    BY <2>1, <2>3, <2>4 DEF CallInv
  <2>5. CASE b_pc = "opened"
    BY <2>1, <2>2, <2>3, <2>5 DEF CallInv
  <2>6. CASE b_pc \in {"prepare", "preparing", "query", "serve", "unprepared", "finalize",
                       "dying", "done"}
    <3>1. Chain(Outermost)
      BY <2>1, <2>3, <2>6 DEF CallInv
    <3> QED BY <2>2, <3>1
  <2>7. CASE b_pc \in {"close", "closed"}
    BY <2>1, <2>2, <2>3, <2>7 DEF CallInv
  <2> QED BY <2>1, <2>4, <2>5, <2>6, <2>7 DEF Calls
<1>3. B!PreparedInside
  <2>1. ASSUME b_pc \in {"query", "serve"}, NEW i \in B!Index, B!Reachable(i)
        PROVE  "CONNECTED" \in state[i]
    <3>1. i < Outermost => c_next[i + 1]
      BY <2>1 DEF B!Reachable
    <3>2. Chain(Outermost) /\ \A k \in B!Index : present[k] => "CONNECTED" \in state[k]
      BY <2>1 DEF ContextInv, CallInv
    <3> QED BY <2>1, <3>1, <3>2 DEF Chain
  <2>2. ASSUME b_pc = "preparing", NEW i \in B!Index, i < b_lvl,
               \A j \in i + 1 .. b_lvl : c_next[j]
        PROVE  "CONNECTED" \in state[i]
    <3>1. c_next[i + 1] /\ i + 1 \in 0 .. Outermost
      BY <2>2 DEF ContextInv, BackendType
    <3>2. present[i]
      <4>1. Chain(Outermost)
        BY <2>2 DEF ContextInv, CallInv
      <4> QED BY <2>2, <3>1, <4>1 DEF Chain
    <3> QED BY <2>2, <3>2 DEF ContextInv, BackendType, CallInv
  <2> QED BY <2>1, <2>2 DEF B!PreparedInside
<1>4. B!FinalizeOrder
  BY DEF ContextInv, BackendType, CallInv, B!FinalizeOrder, NotFinalized
<1> QED BY <1>1, <1>2, <1>3, <1>4 DEF ContextsAreSound, B!ContextsAreSound

\* For every number of filters: after any failure of .open, .prepare or
\* .finalize, backend_open, backend_prepare, backend_finalize and backend_close
\* leave no context behind, use none that is not there or not prepared, and
\* finalize from the outside inwards (server/backend.c).
THEOREM ContextsSound == ASSUME TopAssumption PROVE B!Spec => []ContextsAreSound
<1>1. ContextInv => ContextsAreSound
  BY Context_Sound
<1> QED BY <1>1, ContextsInductive, PTL

-----------------------------------------------------------------------------
(* The handshake. *)

Bounds == MAX_NR_OPTIONS \in Nat \ {0} /\ MaxListed \in Nat

Phases == {"flags", "options", "ready", "failed", "freed"}
HandshakeType ==
    /\ phase \in Phases
    /\ nr_options \in Nat /\ handled \in Nat /\ listed \in Nat

\* Before TLS, --tls=require lets nothing through but the options that lead to
\* TLS; the oldstyle handshake is not offered.
TlsInv ==
    /\ tls = 2 => newstyle
    /\ tls = 2 /\ ~using_tls => top_context = "none" /\ ~list_seen /\ phase # "ready"
\* A context of metadata is only in force with structured replies, also while
\* options are still coming in.
AgreeInv ==
    /\ meta => structured_replies
    /\ phase \in {"flags", "options"} => top_context = "none"
    /\ phase = "ready" => top_context = "open" /\ (newstyle => df = structured_replies)
GrantInv == using_tls /\ meta => \E x \in Exports : <<x, TRUE>> \in granted
\* What has been handled and what is left make up the bound, which is raised
\* once, by the first list; the loop goes on only while something is left.
BoundInv ==
    /\ handled + nr_options = MAX_NR_OPTIONS + MAX_NR_OPTIONS * listed
    /\ ~list_seen => listed = 0
    /\ phase \in {"flags", "options"} => nr_options > 0

HandshakeInv == HandshakeType /\ TlsInv /\ AgreeInv /\ GrantInv /\ BoundInv

LEMMA Init_Agree == ASSUME Bounds, H!Init PROVE HandshakeInv
<1>1. HandshakeType
  BY DEF Bounds, H!Init, HandshakeType, Phases
<1>2. TlsInv /\ AgreeInv /\ GrantInv
  BY DEF H!Init, TlsInv, AgreeInv, GrantInv
<1>3. BoundInv
  BY DEF Bounds, H!Init, BoundInv
<1> QED BY <1>1, <1>2, <1>3 DEF HandshakeInv

LEMMA RecvFlags_Agree == ASSUME Bounds, HandshakeInv, H!RecvFlags PROVE HandshakeInv'
<1> USE DEF HandshakeInv, HandshakeType, H!RecvFlags, H!Handling, H!Continue,
            H!config,
           H!tlsstate, H!metastate
<1>1. HandshakeType'
  BY DEF Bounds, Phases, BoundInv
<1>2. TlsInv'
  BY DEF TlsInv
<1>3. AgreeInv'
  BY DEF TlsInv, AgreeInv
<1>4. GrantInv'
  BY DEF GrantInv
<1>5. BoundInv'
  BY DEF Bounds, BoundInv
<1> QED BY <1>1, <1>2, <1>3, <1>4, <1>5

LEMMA Oldstyle_Agree == ASSUME Bounds, HandshakeInv, H!Oldstyle PROVE HandshakeInv'
<1> USE DEF HandshakeInv, HandshakeType, H!Oldstyle, H!Handling, H!Continue,
            H!config,
           H!tlsstate, H!metastate
<1>1. HandshakeType'
  BY DEF Bounds, Phases, BoundInv
<1>2. TlsInv'
  BY DEF TlsInv
<1>3. AgreeInv'
  BY DEF TlsInv, AgreeInv
<1>4. GrantInv'
  BY DEF GrantInv
<1>5. BoundInv'
  BY DEF Bounds, BoundInv
<1> QED BY <1>1, <1>2, <1>3, <1>4, <1>5

LEMMA BadHeader_Agree == ASSUME Bounds, HandshakeInv, H!BadHeader PROVE HandshakeInv'
<1> USE DEF HandshakeInv, HandshakeType, H!BadHeader, H!Handling, H!Continue,
            H!config,
           H!tlsstate, H!metastate
<1>1. HandshakeType'
  BY DEF Bounds, Phases, BoundInv
<1>2. TlsInv'
  BY DEF TlsInv
<1>3. AgreeInv'
  BY DEF TlsInv, AgreeInv
<1>4. GrantInv'
  BY DEF GrantInv
<1>5. BoundInv'
  BY DEF Bounds, BoundInv
<1> QED BY <1>1, <1>2, <1>3, <1>4, <1>5

LEMMA NotFixed_Agree == ASSUME Bounds, HandshakeInv, H!NotFixed PROVE HandshakeInv'
<1> USE DEF HandshakeInv, HandshakeType, H!NotFixed, H!Handling, H!Continue,
            H!config,
           H!tlsstate, H!metastate
<1>1. HandshakeType'
  BY DEF Bounds, Phases, BoundInv
<1>2. TlsInv'
  BY DEF TlsInv
<1>3. AgreeInv'
  BY DEF TlsInv, AgreeInv
<1>4. GrantInv'
  BY DEF GrantInv
<1>5. BoundInv'
  BY DEF Bounds, BoundInv
<1> QED BY <1>1, <1>2, <1>3, <1>4, <1>5

LEMMA TlsRequired_Agree == ASSUME Bounds, HandshakeInv, H!TlsRequired PROVE HandshakeInv'
<1> USE DEF HandshakeInv, HandshakeType, H!TlsRequired, H!Handling, H!Continue,
            H!config,
           H!tlsstate, H!metastate
<1>1. HandshakeType'
  BY DEF Bounds, Phases, BoundInv
<1>2. TlsInv'
  BY DEF TlsInv
<1>3. AgreeInv'
  BY DEF TlsInv, AgreeInv
<1>4. GrantInv'
  BY DEF GrantInv
<1>5. BoundInv'
  BY DEF Bounds, BoundInv
<1> QED BY <1>1, <1>2, <1>3, <1>4, <1>5

LEMMA OtherOption_Agree == ASSUME Bounds, HandshakeInv, H!OtherOption PROVE HandshakeInv'
<1> USE DEF HandshakeInv, HandshakeType, H!OtherOption, H!Handling, H!Continue,
            H!config,
           H!tlsstate, H!metastate
<1>1. HandshakeType'
  BY DEF Bounds, Phases, BoundInv
<1>2. TlsInv'
  BY DEF TlsInv
<1>3. AgreeInv'
  BY DEF TlsInv, AgreeInv
<1>4. GrantInv'
  BY DEF GrantInv
<1>5. BoundInv'
  BY DEF Bounds, BoundInv
<1> QED BY <1>1, <1>2, <1>3, <1>4, <1>5

LEMMA NBD_OPT_ABORT_Agree ==
    ASSUME Bounds, HandshakeInv, H!NBD_OPT_ABORT
    PROVE  HandshakeInv'
<1> USE DEF HandshakeInv, HandshakeType, H!NBD_OPT_ABORT, H!Handling, H!Continue,
            H!config,
           H!tlsstate, H!metastate
<1>1. HandshakeType'
  BY DEF Bounds, Phases, BoundInv
<1>2. TlsInv'
  BY DEF TlsInv
<1>3. AgreeInv'
  BY DEF TlsInv, AgreeInv
<1>4. GrantInv'
  BY DEF GrantInv
<1>5. BoundInv'
  BY DEF Bounds, BoundInv
<1> QED BY <1>1, <1>2, <1>3, <1>4, <1>5

LEMMA NBD_OPT_LIST_Agree == ASSUME Bounds, HandshakeInv, H!NBD_OPT_LIST PROVE HandshakeInv'
<1> USE DEF HandshakeInv, HandshakeType, H!NBD_OPT_LIST, H!Handling, H!Continue,
            H!config,
           H!tlsstate, H!metastate
<1>1. HandshakeType'
  BY DEF Bounds, Phases, BoundInv
<1>2. TlsInv'
  BY DEF TlsInv
<1>3. AgreeInv'
  BY DEF TlsInv, AgreeInv
<1>4. GrantInv'
  BY DEF GrantInv
<1>5. BoundInv'
  <2>1. CASE list_seen
    BY <2>1 DEF BoundInv
  <2>2. CASE ~list_seen
    <3>1. PICK n \in 0 .. MaxListed : H!Continue(MAX_NR_OPTIONS * n) /\ listed' = n
      BY <2>2
    <3> DEFINE more == MAX_NR_OPTIONS * n
    <3>2. more \in Nat /\ MAX_NR_OPTIONS * listed' = more /\ MAX_NR_OPTIONS * listed = 0
      BY <2>2, <3>1 DEF Bounds, BoundInv
    <3>3. nr_options' = (nr_options + more) - 1 /\ handled' = handled + 1
          /\ (nr_options' = 0 => phase' = "failed")
      BY <3>1
    <3> HIDE DEF more
    <3> QED BY <3>2, <3>3 DEF Bounds, BoundInv
  <2> QED BY <2>1, <2>2
<1> QED BY <1>1, <1>2, <1>3, <1>4, <1>5

LEMMA NBD_OPT_STARTTLS_Agree ==
    ASSUME Bounds, HandshakeInv, H!NBD_OPT_STARTTLS
    PROVE  HandshakeInv'
<1> USE DEF HandshakeInv, HandshakeType, H!NBD_OPT_STARTTLS, H!Handling, H!Continue,
            H!config,
           H!tlsstate, H!metastate
<1>1. HandshakeType'
  BY DEF Bounds, Phases, BoundInv
<1>2. TlsInv'
  BY DEF TlsInv
<1>3. AgreeInv'
  BY DEF TlsInv, AgreeInv
<1>4. GrantInv'
  BY DEF GrantInv
<1>5. BoundInv'
  BY DEF Bounds, BoundInv
<1> QED BY <1>1, <1>2, <1>3, <1>4, <1>5

LEMMA NBD_OPT_STRUCTURED_REPLY_Agree ==
    ASSUME Bounds, HandshakeInv, H!NBD_OPT_STRUCTURED_REPLY
    PROVE  HandshakeInv'
<1> USE DEF HandshakeInv, HandshakeType, H!NBD_OPT_STRUCTURED_REPLY, H!Handling, H!Continue,
            H!config,
           H!tlsstate, H!metastate
<1>1. HandshakeType'
  BY DEF Bounds, Phases, BoundInv
<1>2. TlsInv'
  BY DEF TlsInv
<1>3. AgreeInv'
  BY DEF TlsInv, AgreeInv
<1>4. GrantInv'
  BY DEF GrantInv
<1>5. BoundInv'
  BY DEF Bounds, BoundInv
<1> QED BY <1>1, <1>2, <1>3, <1>4, <1>5

LEMMA FreeConnection_Agree ==
    ASSUME Bounds, HandshakeInv, H!FreeConnection
    PROVE  HandshakeInv'
<1> USE DEF HandshakeInv, HandshakeType, H!FreeConnection, H!Handling, H!Continue,
            H!config,
           H!tlsstate, H!metastate
<1>1. HandshakeType'
  BY DEF Bounds, Phases, BoundInv
<1>2. TlsInv'
  BY DEF TlsInv
<1>3. AgreeInv'
  BY DEF TlsInv, AgreeInv
<1>4. GrantInv'
  BY DEF GrantInv
<1>5. BoundInv'
  BY DEF Bounds, BoundInv
<1> QED BY <1>1, <1>2, <1>3, <1>4, <1>5

LEMMA NBD_OPT_EXPORT_NAME_Agree ==
    ASSUME Bounds, HandshakeInv, NEW e \in Exports, H!NBD_OPT_EXPORT_NAME(e)
    PROVE HandshakeInv'
<1> USE DEF HandshakeInv, HandshakeType, H!NBD_OPT_EXPORT_NAME, H!Handling, H!Continue,
            H!config,
           H!tlsstate, H!metastate, H!finish_newstyle_options, H!Opened
<1>1. HandshakeType'
  BY DEF Bounds, Phases, BoundInv
<1>2. TlsInv'
  BY DEF TlsInv
<1>3. AgreeInv'
  BY DEF TlsInv, AgreeInv
<1>4. GrantInv'
  BY DEF GrantInv
<1>5. BoundInv'
  BY DEF Bounds, BoundInv
<1> QED BY <1>1, <1>2, <1>3, <1>4, <1>5

LEMMA NBD_OPT_INFO_Agree ==
    ASSUME Bounds, HandshakeInv, NEW e \in Exports, H!NBD_OPT_INFO(e)
    PROVE  HandshakeInv'
<1> USE DEF HandshakeInv, HandshakeType, H!NBD_OPT_INFO, H!Handling, H!Continue,
            H!config,
           H!tlsstate, H!metastate, H!finish_newstyle_options,
           H!Opened, H!OpenFails
<1>1. HandshakeType'
  BY DEF Bounds, Phases, BoundInv
<1>2. TlsInv'
  BY DEF TlsInv
<1>3. AgreeInv'
  BY DEF TlsInv, AgreeInv
<1>4. GrantInv'
  BY DEF GrantInv
<1>5. BoundInv'
  BY DEF Bounds, BoundInv
<1> QED BY <1>1, <1>2, <1>3, <1>4, <1>5

LEMMA NBD_OPT_GO_Agree ==
    ASSUME Bounds, HandshakeInv, NEW e \in Exports, H!NBD_OPT_GO(e)
    PROVE  HandshakeInv'
<1> USE DEF HandshakeInv, HandshakeType, H!NBD_OPT_GO, H!Handling, H!Continue,
            H!config,
           H!tlsstate, H!metastate, H!finish_newstyle_options,
           H!Opened, H!OpenFails
<1>1. HandshakeType'
  BY DEF Bounds, Phases, BoundInv
<1>2. TlsInv'
  BY DEF TlsInv
<1>3. AgreeInv'
  BY DEF TlsInv, AgreeInv
<1>4. GrantInv'
  BY DEF GrantInv
<1>5. BoundInv'
  BY DEF Bounds, BoundInv
<1> QED BY <1>1, <1>2, <1>3, <1>4, <1>5

LEMMA NBD_OPT_SET_META_CONTEXT_Agree ==
    ASSUME Bounds, HandshakeInv, NEW e \in Exports, H!NBD_OPT_SET_META_CONTEXT(e)
    PROVE HandshakeInv'
<1> USE DEF HandshakeInv, HandshakeType, H!NBD_OPT_SET_META_CONTEXT, H!Handling, H!Continue,
            H!config,
           H!tlsstate, H!metastate, H!SetMetaAllowed
<1>1. HandshakeType'
  BY DEF Bounds, Phases, BoundInv
<1>2. TlsInv'
  BY DEF TlsInv
<1>3. AgreeInv'
  BY DEF TlsInv, AgreeInv
<1>4. GrantInv'
  BY DEF GrantInv
<1>5. BoundInv'
  BY DEF Bounds, BoundInv
<1> QED BY <1>1, <1>2, <1>3, <1>4, <1>5

LEMMA Next_Agree == ASSUME Bounds, HandshakeInv, [H!Next]_(H!vars) PROVE HandshakeInv'
<1>1. CASE UNCHANGED H!vars
  BY <1>1 DEF H!vars, H!config, H!tlsstate, H!metastate, HandshakeInv, HandshakeType,
     TlsInv, AgreeInv,
              GrantInv, BoundInv
<1>2. CASE H!Next
  <2>1. CASE H!Ended
    BY <1>1, <2>1 DEF H!Ended
  <2>2. CASE \E e \in Exports : \/ H!NBD_OPT_EXPORT_NAME(e) \/ H!NBD_OPT_INFO(e)
                                \/ H!NBD_OPT_GO(e)
                                \/ H!NBD_OPT_SET_META_CONTEXT(e)
    BY <2>2, NBD_OPT_EXPORT_NAME_Agree, NBD_OPT_INFO_Agree, NBD_OPT_GO_Agree,
       NBD_OPT_SET_META_CONTEXT_Agree
  <2> QED BY <1>2, <2>1, <2>2, RecvFlags_Agree, Oldstyle_Agree, BadHeader_Agree,
             NotFixed_Agree, TlsRequired_Agree, OtherOption_Agree,
             NBD_OPT_ABORT_Agree, NBD_OPT_LIST_Agree,
             NBD_OPT_STARTTLS_Agree, NBD_OPT_STRUCTURED_REPLY_Agree,
             FreeConnection_Agree DEF H!Next
<1> QED BY <1>1, <1>2

\* What holds between any two options of the handshake
\* (negotiate_handshake_newstyle_options).
THEOREM HandshakeInductive == ASSUME Bounds PROVE H!Spec => []HandshakeInv
<1>1. H!Init => HandshakeInv
  BY Init_Agree
<1>2. HandshakeInv /\ [H!Next]_(H!vars) => HandshakeInv'
  BY Next_Agree
<1> QED BY <1>1, <1>2, PTL DEF H!Spec

LEMMA Handshake_Sound == ASSUME Bounds, HandshakeInv PROVE HandshakeIsSound
<1>1. H!TlsIsRequired /\ H!NothingFromPlaintext
  BY DEF HandshakeInv, TlsInv, GrantInv, H!TlsIsRequired, H!NothingFromPlaintext
<1>2. H!AgreementConsistent /\ H!NoContextBetweenOptions
  BY DEF HandshakeInv, AgreeInv, H!AgreementConsistent, H!NoContextBetweenOptions
<1>3. H!OptionsBounded
  BY DEF Bounds, HandshakeInv, HandshakeType, BoundInv, H!OptionsBounded
<1> QED BY <1>1, <1>2, <1>3 DEF HandshakeIsSound, H!HandshakeIsSound

\* Whatever the options, their number and their order, and however many exports
\* the plugin lists: with --tls=require nothing is told or opened in the clear,
\* nothing agreed on in the clear survives STARTTLS, what was agreed on at the
\* end is consistent, no context is open between options, and the number of
\* options is bounded (protocol-handshake-newstyle.c).
THEOREM HandshakeSound == ASSUME Bounds PROVE H!Spec => []HandshakeIsSound
<1>1. HandshakeInv => HandshakeIsSound
  BY Handshake_Sound
<1> QED BY <1>1, HandshakeInductive, PTL

-----------------------------------------------------------------------------
(* The timer of the handshake. *)

Places == {"lock", "start", "armed", "handshake", "cancel", "serve", "free", "freeing",
           "unlock", "done"}
TimerPlaces == {"off", "armed", "lock", "test", "shutdown", "dead", "unlock"}

\* cancel_timeout resets timer_set before the connection is served and before
\* its socket is closed, and nothing sets it again.
CancelledInv ==
    /\ at \in [Connections -> Places] /\ timer \in [Connections -> TimerPlaces]
    /\ timer_set \in [Connections -> BOOLEAN]
    /\ \A c \in Connections : at[c] \in {"serve", "freeing"} => ~timer_set[c]

(* The lemmas: the initial state, a step of a connection's thread, a step  *)
(* of a timer's thread, and any step keep the invariant.                   *)
LEMMA Init_Cancelled == T!Init => CancelledInv
BY DEF T!Init, CancelledInv, Places, TimerPlaces

(* A step of handle_single_connection keeps timer_set false once reset.   *)
LEMMA ConnStep_Cancelled ==
    ASSUME CancelledInv, NEW c \in Connections,
           T!ConnStep(c) \/ T!HandshakeComplete(c) \/ T!HandshakeFails(c) \/ T!Serve(c)
    PROVE  CancelledInv'
<1> USE DEF CancelledInv, T!Goto, T!TimerGoto, Places, TimerPlaces
<1>1. CASE T!LockConnection(c) \/ T!start_timeout(c) \/ T!FreeConnection(c) \/ T!UnlockConnection(c)
  BY <1>1 DEF T!LockConnection, T!start_timeout, T!FreeConnection, T!UnlockConnection
<1>2. CASE T!TimerIsSet(c)
  BY <1>2 DEF T!TimerIsSet
<1>3. CASE T!HandshakeComplete(c) \/ T!HandshakeFails(c) \/ T!Serve(c)
  BY <1>3 DEF T!HandshakeComplete, T!HandshakeFails, T!Serve
<1>4. CASE T!CancelTimeout(c) \/ T!CloseSocket(c)
  BY <1>4 DEF T!CancelTimeout, T!CloseSocket, T!cancel_timeout
<1> QED BY <1>1, <1>2, <1>3, <1>4 DEF T!ConnStep

(* A step of connection_timeout changes neither timer_set nor the thread  *)
(* of the connection.                                                      *)
LEMMA TimerStep_Cancelled ==
    ASSUME CancelledInv, NEW c \in Connections, T!TimerStep(c) PROVE CancelledInv'
BY DEF CancelledInv, T!TimerStep, T!Expire, T!TimerLock, T!TimerTest, T!TimerShutdown,
   T!TimerSetsDead,
       T!TimerUnlock, T!TimerGoto, TimerPlaces

(* The invariant is inductive.                                            *)
LEMMA Next_Cancelled == ASSUME CancelledInv, [T!Next]_(T!vars) PROVE CancelledInv'
<1>1. CASE UNCHANGED T!vars
  BY <1>1 DEF T!vars, CancelledInv
<1>2. CASE T!Next
  BY <1>2, ConnStep_Cancelled, TimerStep_Cancelled DEF T!Next
<1> QED BY <1>1, <1>2

(* What connection_timeout tests under the invariant: it goes on to the    *)
(* shutdown of a live connection only where timer_set is still true.       *)
LEMMA Next_Kept ==
    ASSUME CancelledInv, [T!Next]_(T!vars)
    PROVE  [\A c \in Connections : timer[c] = "test" /\ timer'[c] = "shutdown" /\ alive[c] =>
               at[c] \notin {"serve", "freeing"}]_(T!vars)
<1> SUFFICES ASSUME T!Next, NEW c \in Connections,
                    timer[c] = "test", timer'[c] = "shutdown", alive[c]
             PROVE  at[c] \notin {"serve", "freeing"}
  OBVIOUS
<1>1. timer_set[c]
  <2>1. PICK d \in Connections : T!ConnStep(d) \/ T!TimerStep(d) \/ T!HandshakeComplete(d)
                           \/ T!HandshakeFails(d) \/ T!Serve(d)
    BY DEF T!Next
  <2>2. CASE T!TimerStep(d)
    BY <2>2
       DEF CancelledInv, T!TimerStep, T!Expire, T!TimerLock, T!TimerTest, T!TimerShutdown,
                T!TimerSetsDead, T!TimerUnlock, T!TimerGoto
  <2>3. CASE ~T!TimerStep(d)
    BY <2>1, <2>3
       DEF CancelledInv, T!ConnStep, T!LockConnection, T!start_timeout, T!TimerIsSet,
                T!HandshakeComplete, T!HandshakeFails, T!CancelTimeout, T!cancel_timeout, T!Serve,
                T!CloseSocket, T!FreeConnection, T!UnlockConnection, T!TimerGoto
  <2> QED BY <2>2, <2>3
<1> QED BY <1>1 DEF CancelledInv

(* EstablishedKept for every set of connections and of thread models: a    *)
(* timer that expires late, at whatever point of the connection's thread,  *)
(* does not drop a client that has completed its handshake.                *)
THEOREM EstablishedIsKept == T!FairSpec => EstablishedKept
<1>1. T!Init => CancelledInv
  BY Init_Cancelled
<1>2. CancelledInv /\ [T!Next]_(T!vars) => CancelledInv'
  BY Next_Cancelled
<1>3. CancelledInv /\ [T!Next]_(T!vars) =>
          [\A c \in Connections : timer[c] = "test" /\ timer'[c] = "shutdown" /\ alive[c] =>
              at[c] \notin {"serve", "freeing"}]_(T!vars)
  BY Next_Kept
<1> QED BY <1>1, <1>2, <1>3, PTL DEF T!FairSpec, EstablishedKept, T!EstablishedKept
=============================================================================
