---------------------------- MODULE StartupProofs ----------------------------
(* Proofs about Startup: for any number of filters, any command lines and  *)
(* any clients, and wherever a callback, a system call or a signal ends a  *)
(* process, the callbacks of start-up and exit are in order.               *)
EXTENDS Startup, TLAPS

\* Thread models are numbers, and each backend has one.
CommandLineAssumption ==
    /\ Top \in Nat
    /\ \A line \in CommandLines : line.models \in [Index -> 0 .. 3]

\* Where the process that is configured, then serves, can be; the parent of a
\* captive nbdkit is elsewhere.
Setup == {"options", "load", "config", "complete", "model", "ready", "signals", "bind",
          "run", "user", "background"}
Service == {"pidfile", "fork", "loop", "poll", "wait", "single", "cleanup"}
Working == Setup \cup Service \cup {"free"}
Places == Working \cup {"none", "command", "waitpid", "exited"}
StageNames == {"none", "loaded", "configured", "complete", "ready", "forked", "cleaned",
               "unloaded"}

TypeInv ==
    /\ opt \in CommandLines
    /\ pc \in [Processes -> Places] /\ lvl \in Index
    /\ stage \in [Index -> StageNames]
    /\ exit \in [Processes -> {"", "success", "failure", "killed"}]
    /\ \A p \in Processes : exit[p] # "" <=> pc[p] = "exited"

\* Only one process goes through main: the server from the fork on.
ForkInv ==
    /\ pc["nbdkit"] # "none"
    /\ Forked => /\ pc["nbdkit"] \in {"command", "waitpid", "exited"}
                 /\ pc["server"] \in Service \cup {"user", "free", "exited"}
                 /\ pc["server"] = "user" => Has("run")
                 /\ Has("run") /\ pc["nbdkit"] = "exited" => pc["server"] = "exited"
                 /\ handlers
    /\ ~Forked => pc["nbdkit"] \in Working \cup {"exited"}

\* What the command line has already decided.
PathAt(p) ==
    /\ pc[p] \in Working \ {"options"} => ~Conflict
    /\ pc[p] = "run" => Has("run") /\ p = "nbdkit"
    /\ pc[p] \in {"run", "bind", "user", "background"} \cup Service => handlers
    /\ pc[p] = "background" => Binds /\ ~foreground
    /\ pc[p] \in {"user", "background"} \cup Service /\ ~Forked => ~Has("run")
    /\ pc[p] \in Service /\ ~Forked => ~ (Binds /\ ~foreground)
PathInv == \A p \in Processes : PathAt(p)

\* All backends below level l have reached s, and the others are in T.
Stair(l, s, T) == \A b \in Index : IF b < l THEN stage[b] = s ELSE stage[b] \in T
\* The same for calls that start at the top.
StairDown(l, s, T) == \A b \in Index : IF b > l THEN stage[b] = s ELSE stage[b] \in T
Configured == {"loaded", "configured"}

\* The stage of every backend, from where the process is.
StageAt(p) ==
    /\ pc[p] = "options" => Stair(0, "loaded", {"none"})
    /\ pc[p] = "load" => Stair(lvl, "loaded", {"none"})
    /\ pc[p] = "config" => Stair(0, "loaded", Configured)
    /\ pc[p] = "complete" => StairDown(lvl, "complete", Configured)
    /\ pc[p] = "model" => Stair(0, "loaded", {"complete"})
    /\ pc[p] = "ready" => Stair(lvl, "ready", {"complete"})
    /\ pc[p] \in {"signals", "bind", "run", "user", "background", "pidfile"} =>
          Stair(0, "loaded", {"ready"})
    /\ pc[p] = "fork" => Stair(lvl, "forked", {"ready"})
    /\ pc[p] \in {"loop", "poll", "wait", "single"} => Stair(0, "loaded", {"forked"})
    /\ pc[p] = "cleanup" => StairDown(lvl, "cleaned", {"forked"})
    /\ pc[p] = "free" => \/ Stair(lvl, "unloaded", {"cleaned"})
                         \/ Stair(lvl, "unloaded", Configured)
StageInv == \A p \in Processes : StageAt(p)

\* What remains of it when a process has ended in the middle.
ShapeInv ==
    \E l \in Index :
       \/ Stair(l, "loaded", {"none"})
       \/ Stair(l, "unloaded", Configured) \/ Stair(0, "loaded", {"unloaded"})
       \/ StairDown(l, "complete", Configured)
       \/ Stair(l, "ready", {"complete"})
       \/ Stair(l, "forked", {"ready"})
       \/ StairDown(l, "cleaned", {"forked"})
       \/ Stair(l, "unloaded", {"cleaned"})

EndInv ==
    /\ Forked => \A b \in Index : stage[b] \in {"ready", "forked", "cleaned", "unloaded"}
    /\ \A b \in Index : stage[b] = "forked" =>
          Forked \/ ~(Has("run") \/ (Binds /\ ~foreground))
    /\ connections # {} => \E p \in Processes : pc[p] \in {"loop", "poll", "wait"}
    /\ thread_model = -1 \/ \A b \in Index : thread_model <= opt.models[b]
    /\ exit["server"] \in {"", "success", "failure"}
    /\ exit["server"] = "success" => \A b \in Index : stage[b] = "unloaded"

IndInv == TypeInv /\ ForkInv /\ PathInv /\ StageInv /\ ShapeInv /\ EndInv

-----------------------------------------------------------------------------
(* Lemmas about the operators of the model. *)

LEMMA Levels ==
    ASSUME CommandLineAssumption
    PROVE  /\ 0 \in Index /\ Top \in Index
           /\ \A b \in Index : b \in Nat /\ ~ (b < 0) /\ ~ (b > Top)
           /\ \A b \in Index : /\ b # Top => b + 1 \in Index
                               /\ b # 0 => b - 1 \in Index
<1>1. Top \in Nat
  BY DEF CommandLineAssumption
<1> QED BY <1>1 DEF Index

LEMMA Ranks ==
    /\ Rank("none") = 1 /\ Rank("loaded") = 2 /\ Rank("configured") = 3
    /\ Rank("complete") = 4 /\ Rank("ready") = 5 /\ Rank("forked") = 6
    /\ Rank("cleaned") = 7 /\ Rank("unloaded") = 8
<1>1. Len(Stages) = 8
  BY DEF Stages
<1>2. /\ Stages[1] = "none" /\ Stages[2] = "loaded" /\ Stages[3] = "configured"
      /\ Stages[4] = "complete" /\ Stages[5] = "ready" /\ Stages[6] = "forked"
      /\ Stages[7] = "cleaned" /\ Stages[8] = "unloaded"
  BY DEF Stages
<1>3. ASSUME NEW i \in 1 .. 8, NEW j \in 1 .. 8, Stages[i] = Stages[j] PROVE i = j
  BY <1>2, <1>3
<1>4. \A i \in 1 .. 8 : Rank(Stages[i]) = i
  BY <1>1, <1>3 DEF Rank
<1> QED BY <1>2, <1>4

\* The command line does not change, and neither does what it asks for.
LEMMA SameLine ==
    ASSUME UNCHANGED opt
    PROVE  /\ Conflict' = Conflict /\ Binds' = Binds /\ foreground' = foreground
           /\ \A flag : Has(flag)' = Has(flag)
           /\ service_mode' = service_mode
BY DEF Conflict, Binds, foreground, Has, service_mode, socket_activation

SameFacts ==
    /\ Conflict' = Conflict /\ Binds' = Binds /\ foreground' = foreground
    /\ \A flag : Has(flag)' = Has(flag)

\* Where there is no socket to listen on, there is no --run.
LEMMA NoBindNoRun == ASSUME ~Conflict, ~Binds PROVE ~Has("run")
BY DEF Conflict, Binds, Has, service_mode, socket_activation

\* filter_thread_model is at most the model of every backend.
LEMMA Strictest ==
    ASSUME CommandLineAssumption, TypeInv
    PROVE  \A b \in Index : filter_thread_model <= opt.models[b]
<1>1. opt.models \in [Index -> 0 .. 3] /\ 0 \in Index
  BY Levels DEF CommandLineAssumption, TypeInv
<1>2. \E m \in {opt.models[b] : b \in Index} : \A b \in Index : m <= opt.models[b]
  <2>1. CASE \E b \in Index : opt.models[b] = 0
    BY <1>1, <2>1
  <2>2. CASE \A b \in Index : opt.models[b] # 0
    <3>1. CASE \E b \in Index : opt.models[b] = 1
      BY <1>1, <2>2, <3>1
    <3>2. CASE \A b \in Index : opt.models[b] # 1
      <4>1. CASE \E b \in Index : opt.models[b] = 2
        BY <1>1, <2>2, <3>2, <4>1
      <4>2. CASE \A b \in Index : opt.models[b] = 3
        BY <1>1, <4>2
      <4> QED BY <1>1, <2>2, <3>2, <4>1, <4>2
    <3> QED BY <3>1, <3>2
  <2> QED BY <2>1, <2>2
<1> QED BY <1>2 DEF filter_thread_model

\* The stages are in one of the shapes wherever main has got to.
LEMMA ShapeOf ==
    ASSUME CommandLineAssumption, TypeInv', StageInv', NEW p \in Processes, pc'[p] \in Working
    PROVE  ShapeInv'
<1>1. 0 \in Index /\ lvl' \in Index /\ \A b \in Index : ~ (b < 0)
  BY Levels DEF TypeInv
<1> USE DEF Stair, StairDown, Configured
<1>2. CASE pc'[p] \in {"options", "load", "config", "complete", "model", "ready"}
  BY <1>1, <1>2 DEF StageInv, StageAt, ShapeInv
<1>3. CASE pc'[p] \in {"signals", "bind", "run", "user", "background", "pidfile", "fork"}
  BY <1>1, <1>3 DEF StageInv, StageAt, ShapeInv
<1>4. CASE pc'[p] \in {"loop", "poll", "wait", "single", "cleanup"}
  <2>1. Top \in Index /\ \A b \in Index : ~ (b > Top)
    BY Levels
  <2> QED BY <1>1, <1>4, <2>1 DEF StageInv, StageAt, ShapeInv
<1>5. CASE pc'[p] = "free"
  <2>1. CASE Stair(lvl, "unloaded", {"cleaned"})'
    BY <1>1, <2>1 DEF ShapeInv
  <2>2. CASE Stair(lvl, "unloaded", Configured)'
    BY <1>1, <2>2 DEF ShapeInv
  <2> QED BY <1>5, <2>1, <2>2 DEF StageInv, StageAt
<1> QED BY <1>2, <1>3, <1>4, <1>5 DEF Working, Setup, Service

\* A process that is in main is alone there.
LEMMA Alone ==
    ASSUME IndInv, NEW p \in Processes, pc[p] \in Working
    PROVE  /\ p = "server" <=> Forked
           /\ \A q \in Processes : q # p => pc[q] \notin Working
BY DEF IndInv, TypeInv, ForkInv, Forked, Processes, Working, Setup, Service

LEMMA Init_Ind == ASSUME CommandLineAssumption, Init PROVE IndInv
<1>1. TypeInv
  BY Levels DEF Init, TypeInv, Processes, Places, Working, Setup, Service, StageNames
<1>2. ForkInv
  BY DEF Init, ForkInv, Forked, Processes, Working, Setup
<1>3. PathInv
  BY DEF Init, PathInv, PathAt, Processes, Working, Setup, Service
<1>4. StageInv /\ ShapeInv
  BY Levels DEF Init, StageInv, StageAt, ShapeInv, Stair, Processes
<1>5. EndInv
  BY DEF Init, EndInv, Forked, Processes
<1> QED BY <1>1, <1>2, <1>3, <1>4, <1>5 DEF IndInv

-----------------------------------------------------------------------------
(* The steps of main. *)

\* A process may end anywhere but where it serves connections.
LEMMA Exit_Ind ==
    ASSUME CommandLineAssumption, IndInv, NEW p \in Processes, pc[p] \in Working,
           NEW status \in {"success", "failure", "killed"}, Exit(p, status),
           UNCHANGED <<opt, lvl, stage, thread_model, handlers, connections>>,
           pc[p] \notin {"loop", "poll", "wait"}, p = "server" => status = "failure"
    PROVE  IndInv'
<1>1. pc' = [pc EXCEPT ![p] = "exited"] /\ exit' = [exit EXCEPT ![p] = status]
  BY DEF Exit
<1>2. (p = "server" <=> Forked) /\ \A q \in Processes : q # p => pc[q] \notin Working
  BY Alone
<1>3. SameFacts
  BY <1>1, SameLine DEF SameFacts
<1>4. TypeInv'
  BY <1>1 DEF IndInv, TypeInv, Places
<1>5. ForkInv'
  BY <1>1, <1>2, <1>3 DEF IndInv, TypeInv, ForkInv, Forked, Processes, Working, SameFacts
<1>6. PathInv'
  BY <1>1, <1>2, <1>3
     DEF IndInv, TypeInv, PathInv, PathAt, Forked, Processes, Working, Setup, Service,
     SameFacts
<1>7. StageInv' /\ ShapeInv'
  BY <1>1 DEF IndInv, TypeInv, StageInv, StageAt, ShapeInv, Stair, StairDown
<1>8. EndInv'
  BY <1>1, <1>2, <1>3
     DEF IndInv, TypeInv, EndInv, Forked, Processes, Working, Setup, Service,
     SameFacts
<1> QED BY <1>4, <1>5, <1>6, <1>7, <1>8 DEF IndInv

\* What a step of main says of the backends, and of a connection.
Calls(p, there) ==
    \/ UNCHANGED stage
    \/ \E s \in StageNames :
          /\ stage' = [stage EXCEPT ![lvl] = s]
          /\ Forked => s \in {"ready", "forked", "cleaned", "unloaded"}
          /\ s = "forked" => Forked \/ ~(Has("run") \/ (Binds /\ ~foreground))

\* A step of main that stays in the same process.
LEMMA Step_Ind ==
    ASSUME CommandLineAssumption, IndInv, NEW p \in Processes, pc[p] \in Working,
           NEW there \in Working, pc' = [pc EXCEPT ![p] = there], lvl' \in Index,
           UNCHANGED <<opt, exit>>, Calls(p, there), handlers => handlers',
           UNCHANGED thread_model \/ \A b \in Index : thread_model' <= opt.models[b],
           connections' # {} => there \in {"loop", "poll", "wait"},
           PathAt(p)', StageAt(p)', p = "server" => there \in Service \cup {"free"}
    PROVE  IndInv'
<1>2. (p = "server" <=> Forked) /\ \A q \in Processes : q # p => pc[q] \notin Working
  BY Alone
<1>3. SameFacts
  BY SameLine DEF SameFacts
<1>4. TypeInv'
  BY DEF IndInv, TypeInv, Places, Working, Setup, Service, Calls, StageNames
<1>5. ForkInv'
  BY <1>2, <1>3 DEF IndInv, TypeInv, ForkInv, Forked, Processes, Working, Setup, Service,
     SameFacts
<1>6. \A q \in Processes : q # p => pc'[q] \notin Working
  BY <1>2 DEF IndInv, TypeInv
<1>7. PathInv' /\ StageInv'
  BY <1>6 DEF PathInv, PathAt, StageInv, StageAt, Working, Setup, Service
<1>8. ShapeInv'
  <2>1. pc'[p] \in Working
    BY DEF IndInv, TypeInv
  <2> QED BY <1>4, <1>7, <2>1, ShapeOf
<1>9. EndInv'
  <2>1. Forked' = Forked
    BY <1>2 DEF IndInv, TypeInv, Forked, Processes, Working, Setup, Service
  <2>2. /\ Forked' => \A b \in Index : stage'[b] \in {"ready", "forked", "cleaned", "unloaded"}
        /\ \A b \in Index : stage'[b] = "forked" =>
              (Forked \/ ~(Has("run") \/ (Binds /\ ~foreground)))'
    BY <1>3, <2>1 DEF IndInv, TypeInv, EndInv, Calls, SameFacts
  <2>3. connections' # {} => \E q \in Processes : pc'[q] \in {"loop", "poll", "wait"}
    BY DEF IndInv, TypeInv
  <2>4. thread_model' = -1 \/ \A b \in Index : thread_model' <= opt'.models[b]
    BY DEF IndInv, EndInv
  <2>5. exit["server"] # "success"
    BY <1>2 DEF IndInv, TypeInv, ForkInv, Forked, Processes, Working, Setup, Service
  <2> QED BY <2>2, <2>3, <2>4, <2>5 DEF IndInv, EndInv
<1> QED BY <1>4, <1>5, <1>7, <1>8, <1>9 DEF IndInv

LEMMA Fail_Ind ==
    ASSUME CommandLineAssumption, IndInv, NEW p \in Processes, pc[p] \in Working, Fail(p),
           pc[p] \notin {"loop", "poll", "wait"}
    PROVE  IndInv'
<1>1. UNCHANGED <<opt, lvl, stage, thread_model, handlers, connections>> /\ Exit(p, "failure")
  BY DEF Fail, outside
<1> QED BY <1>1, Exit_Ind

\* Going on to the next call of main, with no backend called.
LEMMA Goto_Ind ==
    ASSUME CommandLineAssumption, IndInv, NEW p \in Processes, pc[p] \in Working,
           NEW there \in Working, Goto(p, there),
           UNCHANGED <<opt, stage, exit, connections>>, handlers => handlers',
           UNCHANGED thread_model \/ \A b \in Index : thread_model' <= opt.models[b],
           connections # {} => there \in {"loop", "poll", "wait"},
           PathAt(p)', StageAt(p)', p = "server" => there \in Service \cup {"free"}
    PROVE  IndInv'
<1>1. pc' = [pc EXCEPT ![p] = there] /\ lvl' \in Index
  BY Levels DEF Goto
<1>2. Calls(p, there)
  BY DEF Calls
<1> QED BY <1>1, <1>2, Step_Ind

\* Nothing is served before the accept loop, or after it.
LEMMA Unserved ==
    ASSUME IndInv, NEW p \in Processes, pc[p] \in Working \ {"loop", "poll", "wait"}
    PROVE  connections = {}
<1>1. \A q \in Processes : q # p => pc[q] \notin Working
  BY Alone
<1> QED BY <1>1 DEF IndInv, EndInv, Working, Service

LEMMA Options_Ind ==
    ASSUME CommandLineAssumption, IndInv, NEW p \in Processes, main_options(p)
    PROVE  IndInv'
<1>1. pc[p] = "options" /\ pc[p] \in Working /\ connections = {}
  <2>1. pc[p] = "options" /\ pc[p] \in Working \ {"loop", "poll", "wait"}
    BY DEF main_options, Working, Setup
  <2> QED BY <2>1, Unserved
<1>2. p = "nbdkit" /\ ~Forked
  BY <1>1, Alone DEF IndInv, ForkInv, Forked, Processes, Service
<1>3. CASE Fail(p)
  BY <1>1, <1>3, Fail_Ind
<1>4. CASE Exit(p, "success") /\ UNCHANGED <<opt, lvl, arg, stage, thread_model, handlers, outside>>
  BY <1>1, <1>2, <1>4, Exit_Ind DEF outside
<1>5. CASE /\ ~Conflict /\ Goto(p, "load")
           /\ UNCHANGED <<opt, arg, stage, thread_model, handlers, outside, exit>>
  <2>1. UNCHANGED <<opt, stage, thread_model, handlers, connections, exit>>
    BY <1>5 DEF outside
  <2>2. pc'[p] = "load" /\ lvl' = 0
    BY <1>5 DEF Goto, Downwards, IndInv, TypeInv
  <2>3. PathAt(p)'
    BY <1>5, <2>1, <2>2, SameLine DEF PathAt, Service
  <2>4. StageAt(p)'
    BY <1>1, <2>1, <2>2 DEF IndInv, StageInv, StageAt, Stair
  <2> QED BY <1>1, <1>2, <1>5, <2>1, <2>3, <2>4, Goto_Ind DEF Working, Setup
<1> QED BY <1>3, <1>4, <1>5 DEF main_options

\* One more backend has been called, from the plugin up or from the top down.
LEMMA Climbs ==
    ASSUME CommandLineAssumption, TypeInv, NEW s \in StageNames, NEW T, Called(lvl, s),
           Stair(lvl, s, T)
    PROVE  /\ lvl = Top => \A b \in Index : stage'[b] = s
           /\ lvl # Top => /\ lvl + 1 \in Index
                           /\ \A b \in Index : IF b < lvl + 1 THEN stage'[b] = s
                                               ELSE stage'[b] \in T
<1>1. \A b \in Index : b # lvl => stage'[b] = stage[b]
  BY DEF TypeInv, Called
<1>2. stage'[lvl] = s
  BY DEF TypeInv, Called
<1>3. lvl \in Index /\ Top \in Nat
  BY DEF TypeInv, CommandLineAssumption
<1> QED BY <1>1, <1>2, <1>3 DEF Stair, Index

LEMMA Descends ==
    ASSUME CommandLineAssumption, TypeInv, NEW s \in StageNames, NEW T, Called(lvl, s),
           StairDown(lvl, s, T)
    PROVE  /\ lvl = 0 => \A b \in Index : stage'[b] = s
           /\ lvl # 0 => /\ lvl - 1 \in Index
                         /\ \A b \in Index : IF b > lvl - 1 THEN stage'[b] = s
                                             ELSE stage'[b] \in T
<1>1. \A b \in Index : b # lvl => stage'[b] = stage[b]
  BY DEF TypeInv, Called
<1>2. stage'[lvl] = s
  BY DEF TypeInv, Called
<1>3. lvl \in Index /\ Top \in Nat
  BY DEF TypeInv, CommandLineAssumption
<1> QED BY <1>1, <1>2, <1>3 DEF StairDown, Index

\* A step that calls a backend and leaves the rest to the next step.
LEMMA Call_Ind ==
    ASSUME CommandLineAssumption, IndInv, NEW p \in Processes,
           pc[p] \in Working \ {"loop", "poll", "wait", "user"}, UNCHANGED pc, lvl' \in Index,
           NEW s \in StageNames, Called(lvl, s),
           Forked => s \in {"ready", "forked", "cleaned", "unloaded"},
           s = "forked" => Forked \/ ~(Has("run") \/ (Binds /\ ~foreground)),
           UNCHANGED <<opt, thread_model, handlers, connections, exit>>, StageAt(p)'
    PROVE  IndInv'
<1>1. pc' = [pc EXCEPT ![p] = pc[p]]
  BY DEF IndInv, TypeInv
<1>2. connections = {}
  BY Unserved
<1>3. Calls(p, pc[p])
  BY DEF Calls, Called
<1>4. PathAt(p)'
  <2>1. PathAt(p) /\ SameFacts /\ Forked' = Forked
    BY SameLine DEF IndInv, PathInv, SameFacts, Forked
  <2> QED BY <2>1 DEF PathAt, SameFacts
<1>5. p = "server" => pc[p] \in Service \cup {"free"}
  BY DEF IndInv, ForkInv, Forked, Working, Setup, Service
<1> QED BY <1>1, <1>2, <1>3, <1>4, <1>5, Step_Ind

\* The last call of a pass over the backends, after which main goes on.
LEMMA LastCall_Ind ==
    ASSUME CommandLineAssumption, IndInv, NEW p \in Processes,
           pc[p] \in Working \ {"loop", "poll", "wait"}, NEW there \in Working, Goto(p, there),
           NEW s \in StageNames, Called(lvl, s),
           Forked => s \in {"ready", "forked", "cleaned", "unloaded"},
           s = "forked" => Forked \/ ~(Has("run") \/ (Binds /\ ~foreground)),
           UNCHANGED <<opt, thread_model, handlers, connections, exit>>,
           PathAt(p)', StageAt(p)', p = "server" => there \in Service \cup {"free"}
    PROVE  IndInv'
<1>1. pc' = [pc EXCEPT ![p] = there] /\ lvl' \in Index
  BY Levels DEF Goto
<1>2. Calls(p, there)
  BY DEF Calls, Called
<1>3. connections = {}
  BY Unserved
<1> QED BY <1>1, <1>2, <1>3, Step_Ind

\* Where a call of Upwards succeeds.
UpwardsWent(p, call, s, there) ==
    /\ Called(lvl, s)
    /\ IF lvl = Top THEN Goto(p, there) ELSE lvl' = lvl + 1 /\ UNCHANGED pc
    /\ UNCHANGED <<opt, thread_model, handlers, connections, exit>>

LEMMA UpwardsCases ==
    ASSUME CommandLineAssumption, IndInv, NEW p \in Processes,
           NEW call \in Working \ {"loop", "poll", "wait"}, NEW s, NEW there,
           Upwards(p, call, s, there)
    PROVE  IndInv' \/ UpwardsWent(p, call, s, there)
<1>1. CASE Fail(p)
  BY <1>1, Fail_Ind DEF Upwards
<1>2. CASE ~Fail(p)
  BY <1>2 DEF Upwards, UpwardsWent, outside
<1> QED BY <1>1, <1>2

\* Before the fork only the process that was started is here.
LEMMA Unforked ==
    ASSUME IndInv, NEW p \in Processes, pc[p] \in Setup \ {"user"}
    PROVE  p = "nbdkit" /\ ~Forked
BY DEF IndInv, ForkInv, Forked, Processes, Setup, Service

LEMMA Load_Ind ==
    ASSUME CommandLineAssumption, IndInv, NEW p \in Processes, backend_load(p)
    PROVE  IndInv'
<1> DEFINE there == IF Has("help") THEN "free" ELSE "config"
<1>1. pc[p] = "load" /\ pc[p] \in Working \ {"loop", "poll", "wait", "user"} /\ "load" \in Setup
  BY DEF backend_load, Upwards, Working, Setup
<1>2. p = "nbdkit" /\ ~Forked
  BY <1>1, Unforked
<1>3. SUFFICES ASSUME UpwardsWent(p, "load", "loaded", there) PROVE IndInv'
  BY <1>1, UpwardsCases DEF backend_load
<1>4. UNCHANGED <<opt, thread_model, handlers, connections, exit>> /\ Called(lvl, "loaded")
  BY <1>3 DEF UpwardsWent
<1>5. TypeInv /\ PathAt(p) /\ Stair(lvl, "loaded", {"none"})
  BY <1>1 DEF IndInv, PathInv, StageInv, StageAt
<1>6. /\ lvl = Top => \A b \in Index : stage'[b] = "loaded"
      /\ lvl # Top => /\ lvl + 1 \in Index
                      /\ \A b \in Index : IF b < lvl + 1 THEN stage'[b] = "loaded"
                                          ELSE stage'[b] \in {"none"}
  BY <1>4, <1>5, Climbs DEF StageNames
<1>7. CASE lvl # Top
  <2>1. UNCHANGED pc /\ lvl' = lvl + 1 /\ lvl' \in Index
    BY <1>3, <1>6, <1>7 DEF UpwardsWent
  <2>2. StageAt(p)'
    BY <1>1, <1>6, <1>7, <2>1 DEF StageAt, Stair
  <2> QED BY <1>1, <1>2, <1>4, <2>1, <2>2, Call_Ind DEF StageNames
<1>8. CASE lvl = Top
  <2>1. Goto(p, there) /\ there \in {"free", "config"} /\ there \in Working
    BY <1>3, <1>8 DEF UpwardsWent, Working, Setup
  <2>2. pc'[p] = there
    BY <1>5, <2>1 DEF Goto, TypeInv
  <2>3. PathAt(p)'
    BY <1>1, <1>4, <1>5, <2>1, <2>2, SameLine DEF PathAt, Service, Working, Setup
  <2>4. \A b \in Index : stage'[b] = "loaded"
    BY <1>6, <1>8
  <2>5. there = "free" => lvl' = 0
    BY <2>1 DEF Goto, Downwards
  <2>6. StageAt(p)'
    BY <2>1, <2>2, <2>4, <2>5, Levels DEF StageAt, Stair, Configured
  <2> HIDE DEF there
  <2> QED BY <1>1, <1>2, <1>4, <2>1, <2>3, <2>6, LastCall_Ind DEF StageNames
<1> QED BY <1>7, <1>8

LEMMA Ready_Ind ==
    ASSUME CommandLineAssumption, IndInv, NEW p \in Processes, get_ready(p)
    PROVE  IndInv'
<1>1. /\ pc[p] = "ready" /\ pc[p] \in Working \ {"loop", "poll", "wait", "user"}
      /\ "ready" \in Working \ {"loop", "poll", "wait"}
  BY DEF get_ready, Upwards, Working, Setup, Service
<1>2. p = "nbdkit" /\ ~Forked
  BY <1>1, Unforked DEF Setup
<1>3. SUFFICES ASSUME UpwardsWent(p, "ready", "ready", "signals") PROVE IndInv'
  BY <1>1, UpwardsCases DEF get_ready
<1>4. UNCHANGED <<opt, thread_model, handlers, connections, exit>> /\ Called(lvl, "ready")
  BY <1>3 DEF UpwardsWent
<1>5. TypeInv /\ PathAt(p) /\ Stair(lvl, "ready", {"complete"})
  BY <1>1 DEF IndInv, PathInv, StageInv, StageAt
<1>6. /\ lvl = Top => \A b \in Index : stage'[b] = "ready"
      /\ lvl # Top => /\ lvl + 1 \in Index
                      /\ \A b \in Index : IF b < lvl + 1 THEN stage'[b] = "ready"
                                          ELSE stage'[b] \in {"complete"}
  BY <1>4, <1>5, Climbs DEF StageNames
<1>7. CASE lvl # Top
  <2>1. UNCHANGED pc /\ lvl' = lvl + 1 /\ lvl' \in Index
    BY <1>3, <1>6, <1>7 DEF UpwardsWent
  <2>2. StageAt(p)'
    BY <1>1, <1>6, <1>7, <2>1 DEF StageAt, Stair
  <2> QED BY <1>1, <1>2, <1>4, <2>1, <2>2, Call_Ind DEF StageNames
<1>8. CASE lvl = Top
  <2>1. Goto(p, "signals") /\ pc'[p] = "signals"
    BY <1>3, <1>5, <1>8 DEF UpwardsWent, Goto, TypeInv
  <2>2. PathAt(p)'
    BY <1>1, <1>4, <1>5, <2>1, SameLine DEF PathAt, Service, Working, Setup
  <2>3. StageAt(p)'
    BY <1>6, <1>8, <2>1, Levels DEF StageAt, Stair
  <2> QED BY <1>1, <1>2, <1>4, <2>1, <2>2, <2>3, LastCall_Ind DEF StageNames, Working, Setup
<1> QED BY <1>7, <1>8

LEMMA AfterFork_Ind ==
    ASSUME CommandLineAssumption, IndInv, NEW p \in Processes, after_fork(p)
    PROVE  IndInv'
<1> DEFINE there == IF service_mode = "stdin" THEN "single" ELSE "loop"
<1>1. /\ pc[p] = "fork" /\ pc[p] \in Working \ {"loop", "poll", "wait", "user"}
      /\ "fork" \in Working \ {"loop", "poll", "wait"}
  BY DEF after_fork, Upwards, Working, Setup, Service
<1>2. Forked \/ ~(Has("run") \/ (Binds /\ ~foreground))
  BY <1>1 DEF IndInv, PathInv, PathAt, Service
<1>3. SUFFICES ASSUME UpwardsWent(p, "fork", "forked", there) PROVE IndInv'
  BY <1>1, UpwardsCases DEF after_fork
<1>4. UNCHANGED <<opt, thread_model, handlers, connections, exit>> /\ Called(lvl, "forked")
  BY <1>3 DEF UpwardsWent
<1>5. TypeInv /\ PathAt(p) /\ Stair(lvl, "forked", {"ready"})
  BY <1>1 DEF IndInv, PathInv, StageInv, StageAt
<1>6. /\ lvl = Top => \A b \in Index : stage'[b] = "forked"
      /\ lvl # Top => /\ lvl + 1 \in Index
                      /\ \A b \in Index : IF b < lvl + 1 THEN stage'[b] = "forked"
                                          ELSE stage'[b] \in {"ready"}
  BY <1>4, <1>5, Climbs DEF StageNames
<1>7. CASE lvl # Top
  <2>1. UNCHANGED pc /\ lvl' = lvl + 1 /\ lvl' \in Index
    BY <1>3, <1>6, <1>7 DEF UpwardsWent
  <2>2. StageAt(p)'
    BY <1>1, <1>6, <1>7, <2>1 DEF StageAt, Stair
  <2> QED BY <1>1, <1>2, <1>4, <2>1, <2>2, Call_Ind DEF StageNames
<1>8. CASE lvl = Top
  <2>1. Goto(p, there) /\ there \in {"single", "loop"}
    BY <1>3, <1>8 DEF UpwardsWent
  <2>2. pc'[p] = there /\ there \in Working /\ there \in Service
    BY <1>5, <2>1 DEF Goto, TypeInv, Working, Service
  <2> HIDE DEF there
  <2>3. (Forked => Forked') /\ SameFacts
    BY <1>4, <1>5, <2>1, <2>2, SameLine DEF Goto, TypeInv, Forked, Processes, SameFacts
  <2>4. PathAt(p)'
    BY <1>1, <1>2, <1>4, <1>5, <2>1, <2>2, <2>3
       DEF PathAt, Service, Working, Setup, SameFacts
  <2>5. StageAt(p)'
    BY <1>6, <1>8, <2>1, <2>2, Levels DEF StageAt, Stair
  <2> QED BY <1>1, <1>2, <1>4, <2>1, <2>2, <2>4, <2>5, LastCall_Ind DEF StageNames
<1> QED BY <1>7, <1>8

LEMMA Config_Ind ==
    ASSUME CommandLineAssumption, IndInv, NEW p \in Processes, config(p) \/ config_fails(p)
    PROVE  IndInv'
<1>1. pc[p] = "config" /\ pc[p] \in Working \ {"loop", "poll", "wait", "user"}
  BY DEF config, config_fails, Working, Setup
<1>2. p = "nbdkit" /\ ~Forked
  BY <1>1, Unforked DEF Setup
<1>3. TypeInv /\ PathAt(p) /\ Stair(0, "loaded", Configured)
  BY <1>1 DEF IndInv, PathInv, StageInv, StageAt
<1>4. CASE config_fails(p)
  BY <1>1, <1>4, Fail_Ind DEF config_fails
<1>5. CASE config(p)
  <2>1. UNCHANGED <<opt, thread_model, handlers, connections, exit>>
    BY <1>5 DEF config, outside
  <2>2. CASE Goto(p, IF Has("dump") THEN "free" ELSE "complete") /\ UNCHANGED <<stage, arg>>
    <3> DEFINE there == IF Has("dump") THEN "free" ELSE "complete"
    <3>1. Goto(p, there) /\ there \in {"free", "complete"} /\ there \in Working
      BY <2>2 DEF Working, Setup
    <3> HIDE DEF there
    <3>2. /\ pc'[p] \in {"free", "complete"}
          /\ pc'[p] = "free" => lvl' = 0
          /\ pc'[p] = "complete" => lvl' = Top
      BY <1>3, <3>1 DEF Goto, TypeInv, Downwards
    <3>3. PathAt(p)'
      <4>1. pc'[p] \in {"free", "complete"} /\ ~Conflict
        BY <1>1, <1>3, <3>2 DEF PathAt, Working, Setup
      <4> QED BY <2>1, <4>1, SameLine DEF PathAt, Service
    <3>4. StageAt(p)'
      <4>1. \A b \in Index : stage'[b] \in Configured /\ ~ (b < 0) /\ ~ (b > Top)
        BY <1>3, <2>2, Levels DEF Stair
      <4> QED BY <3>2, <4>1 DEF StageAt, Stair, StairDown, Configured
    <3>5. connections = {}
      BY <1>1, Unserved
    <3> QED BY <1>1, <1>2, <2>1, <2>2, <3>1, <3>3, <3>4, <3>5, Goto_Ind
  <2>3. CASE Called(lvl, "configured") /\ UNCHANGED pc /\ (lvl' = Top \/ (lvl > 0 /\ lvl' = lvl - 1))
    <3>1. lvl' \in Index
      BY <1>3, <2>3, Levels DEF TypeInv
    <3>2. \A b \in Index : stage'[b] \in Configured
      BY <1>3, <2>3, Levels DEF TypeInv, Called, Stair, Configured
    <3>3. StageAt(p)'
      BY <1>1, <2>3, <3>2, Levels DEF StageAt, Stair, Configured
    <3> QED BY <1>1, <1>2, <2>1, <2>3, <3>1, <3>3, Call_Ind DEF StageNames
  <2>4. \/ Goto(p, IF Has("dump") THEN "free" ELSE "complete") /\ UNCHANGED <<stage, arg>>
        \/ /\ Called(lvl, "configured") /\ UNCHANGED pc
           /\ lvl' = Top \/ (lvl > 0 /\ lvl' = lvl - 1)
    BY <1>5 DEF config
  <2> QED BY <2>2, <2>3, <2>4
<1> QED BY <1>4, <1>5

LEMMA Complete_Ind ==
    ASSUME CommandLineAssumption, IndInv, NEW p \in Processes, config_complete(p)
    PROVE  IndInv'
<1>1. pc[p] = "complete" /\ pc[p] \in Working \ {"loop", "poll", "wait", "user"}
  BY DEF config_complete, Working, Setup
<1>2. p = "nbdkit" /\ ~Forked
  BY <1>1, Unforked DEF Setup
<1>3. SUFFICES ASSUME ~Fail(p) PROVE IndInv'
  BY <1>1, Fail_Ind
<1>4. UNCHANGED <<opt, thread_model, handlers, connections, exit>> /\ Called(lvl, "complete")
  BY <1>3 DEF config_complete, outside
<1>5. TypeInv /\ PathAt(p) /\ StairDown(lvl, "complete", Configured)
  BY <1>1 DEF IndInv, PathInv, StageInv, StageAt
<1>6. /\ lvl = 0 => \A b \in Index : stage'[b] = "complete"
      /\ lvl # 0 => /\ lvl - 1 \in Index
                    /\ \A b \in Index : IF b > lvl - 1 THEN stage'[b] = "complete"
                                        ELSE stage'[b] \in Configured
  BY <1>4, <1>5, Descends DEF StageNames
<1>7. CASE lvl # 0
  <2>1. UNCHANGED pc /\ lvl' = lvl - 1 /\ lvl' \in Index
    BY <1>3, <1>6, <1>7 DEF config_complete
  <2>2. StageAt(p)'
    BY <1>1, <1>6, <1>7, <2>1 DEF StageAt, StairDown, Configured
  <2> QED BY <1>1, <1>2, <1>4, <2>1, <2>2, Call_Ind DEF StageNames
<1>8. CASE lvl = 0
  <2>1. Goto(p, "model") /\ pc'[p] = "model"
    BY <1>3, <1>5, <1>8 DEF config_complete, Goto, TypeInv
  <2>2. PathAt(p)'
    BY <1>1, <1>4, <1>5, <2>1, SameLine DEF PathAt, Service, Working, Setup
  <2>3. StageAt(p)'
    BY <1>6, <1>8, <2>1, Levels DEF StageAt, Stair
  <2> QED BY <1>1, <1>2, <1>4, <2>1, <2>2, <2>3, LastCall_Ind DEF StageNames, Working, Setup
<1> QED BY <1>7, <1>8

LEMMA Model_Ind ==
    ASSUME CommandLineAssumption, IndInv, NEW p \in Processes, lock_init_thread_model(p)
    PROVE  IndInv'
<1>1. pc[p] = "model" /\ pc[p] \in Working \ {"loop", "poll", "wait"}
  BY DEF lock_init_thread_model, Working, Setup
<1>2. p = "nbdkit" /\ ~Forked /\ connections = {}
  BY <1>1, Unforked, Unserved DEF Setup
<1>3. SUFFICES ASSUME ~Fail(p) PROVE IndInv'
  BY <1>1, Fail_Ind
<1>4. /\ UNCHANGED <<opt, stage, handlers, connections, exit>> /\ Goto(p, "ready")
      /\ \A b \in Index : thread_model' <= opt.models[b]
  BY <1>3, Strictest DEF lock_init_thread_model, outside, IndInv
<1>5. TypeInv /\ PathAt(p) /\ Stair(0, "loaded", {"complete"})
  BY <1>1 DEF IndInv, PathInv, StageInv, StageAt
<1>6. pc'[p] = "ready" /\ lvl' = 0
  BY <1>4, <1>5 DEF Goto, TypeInv, Downwards
<1>7. PathAt(p)'
  BY <1>1, <1>4, <1>5, <1>6, SameLine DEF PathAt, Service, Working, Setup
<1>8. StageAt(p)'
  BY <1>4, <1>5, <1>6, Levels DEF StageAt, Stair
<1> QED BY <1>1, <1>2, <1>4, <1>7, <1>8, Goto_Ind DEF Working, Setup

LEMMA Signals_Ind ==
    ASSUME CommandLineAssumption, IndInv, NEW p \in Processes, set_up_signals(p)
    PROVE  IndInv'
<1>1. pc[p] = "signals" /\ pc[p] \in Working \ {"loop", "poll", "wait"}
  BY DEF set_up_signals, Working, Setup
<1>2. p = "nbdkit" /\ ~Forked /\ connections = {}
  BY <1>1, Unforked, Unserved DEF Setup
<1>3. SUFFICES ASSUME ~Fail(p) PROVE IndInv'
  BY <1>1, Fail_Ind
<1>4. UNCHANGED <<opt, stage, thread_model, connections, exit>> /\ Goto(p, "bind") /\ handlers'
  BY <1>3 DEF set_up_signals, outside
<1>5. TypeInv /\ PathAt(p) /\ Stair(0, "loaded", {"ready"})
  BY <1>1 DEF IndInv, PathInv, StageInv, StageAt
<1>6. pc'[p] = "bind"
  BY <1>4, <1>5 DEF Goto, TypeInv
<1>7. PathAt(p)'
  BY <1>1, <1>4, <1>5, <1>6, SameLine DEF PathAt, Service, Working, Setup
<1>8. StageAt(p)'
  BY <1>4, <1>5, <1>6, Levels DEF StageAt, Stair
<1> QED BY <1>1, <1>2, <1>4, <1>7, <1>8, Goto_Ind DEF Working, Setup

\* A captive nbdkit has a socket, which its command connects to.
LEMMA Bind_Ind ==
    ASSUME CommandLineAssumption, IndInv, NEW p \in Processes,
           no_bind(p) \/ \E mode \in {"unix", "vsock", "tcp"} : Bound(p, mode)
    PROVE  IndInv'
<1>1. pc[p] = "bind" /\ pc[p] \in Working \ {"loop", "poll", "wait"}
  BY DEF no_bind, Bound, Working, Setup
<1>2. p = "nbdkit" /\ ~Forked /\ connections = {}
  BY <1>1, Unforked, Unserved DEF Setup
<1>3. SUFFICES ASSUME ~Fail(p) PROVE IndInv'
  BY <1>1, Fail_Ind
<1>4. TypeInv /\ PathAt(p) /\ Stair(0, "loaded", {"ready"})
  BY <1>1 DEF IndInv, PathInv, StageInv, StageAt
<1>5. ~Conflict /\ handlers
  BY <1>1, <1>4 DEF PathAt, Working, Setup
<1>6. PICK there \in {"run", "user"} : /\ Goto(p, there)
                                       /\ there = "run" <=> Has("run")
                                       /\ UNCHANGED <<opt, stage, thread_model, handlers,
                                                      connections, exit>>
  <2>1. CASE no_bind(p)
    BY <1>5, <2>1, NoBindNoRun DEF no_bind, outside
  <2>2. CASE \E mode \in {"unix", "vsock", "tcp"} : Bound(p, mode)
    BY <1>3, <2>2 DEF Bound, outside
  <2> QED BY <2>1, <2>2
<1>7. pc'[p] = there /\ pc'["server"] = "none"
  BY <1>2, <1>4, <1>6 DEF Goto, TypeInv, Forked, Processes
<1>8. PathAt(p)'
  BY <1>2, <1>5, <1>6, <1>7, SameLine DEF PathAt, Service, Forked
<1>9. StageAt(p)'
  BY <1>4, <1>6, <1>7, Levels DEF StageAt, Stair
<1> QED BY <1>1, <1>2, <1>6, <1>8, <1>9, Goto_Ind DEF Working, Setup

LEMMA User_Ind ==
    ASSUME CommandLineAssumption, IndInv, NEW p \in Processes, change_user(p)
    PROVE  IndInv'
<1>1. pc[p] = "user" /\ pc[p] \in Working \ {"loop", "poll", "wait"}
  BY DEF change_user, Working, Setup
<1>2. connections = {}
  BY <1>1, Unserved
<1>3. SUFFICES ASSUME ~Fail(p) PROVE IndInv'
  BY <1>1, Fail_Ind
<1>4. TypeInv /\ PathAt(p) /\ Stair(0, "loaded", {"ready"})
  BY <1>1 DEF IndInv, PathInv, StageInv, StageAt
<1>5. /\ ~Conflict /\ handlers
      /\ ~Forked => ~Has("run")
      /\ p = "server" => Has("run")
  BY <1>1, <1>4 DEF PathAt, Working, Setup, IndInv, ForkInv, Forked
<1>6. PICK there \in {"background", "pidfile"} :
         /\ Goto(p, there)
         /\ there = "background" <=> Binds /\ ~foreground
         /\ UNCHANGED <<opt, stage, thread_model, handlers, connections, exit>>
  BY <1>3 DEF change_user, outside
<1>7. pc'[p] = there /\ (Forked => Forked')
  BY <1>4, <1>6 DEF Goto, TypeInv, Forked, Processes
<1>8. PathAt(p)'
  BY <1>5, <1>6, <1>7, SameLine DEF PathAt, Service
<1>9. StageAt(p)'
  BY <1>4, <1>6, <1>7, Levels DEF StageAt, Stair
<1>10. p = "server" => there \in Service
  BY <1>5, <1>6 DEF foreground, Service
<1> QED BY <1>1, <1>2, <1>6, <1>8, <1>9, <1>10, Goto_Ind DEF Working, Setup, Service

LEMMA Pidfile_Ind ==
    ASSUME CommandLineAssumption, IndInv, NEW p \in Processes, write_pidfile(p)
    PROVE  IndInv'
<1>1. pc[p] = "pidfile" /\ pc[p] \in Working \ {"loop", "poll", "wait"}
  BY DEF write_pidfile, Working, Service
<1>2. connections = {}
  BY <1>1, Unserved
<1>3. SUFFICES ASSUME ~Fail(p) PROVE IndInv'
  BY <1>1, Fail_Ind
<1>4. TypeInv /\ PathAt(p) /\ Stair(0, "loaded", {"ready"})
  BY <1>1 DEF IndInv, PathInv, StageInv, StageAt
<1>5. Goto(p, "fork") /\ UNCHANGED <<opt, stage, thread_model, handlers, connections, exit>>
  BY <1>3 DEF write_pidfile, outside
<1>6. pc'[p] = "fork" /\ lvl' = 0 /\ (Forked => Forked')
  BY <1>4, <1>5 DEF Goto, TypeInv, Forked, Processes, Downwards
<1>7. PathAt(p)'
  BY <1>1, <1>4, <1>5, <1>6, SameLine DEF PathAt, Working, Service
<1>8. StageAt(p)'
  BY <1>4, <1>5, <1>6, Levels DEF StageAt, Stair
<1> QED BY <1>1, <1>2, <1>5, <1>7, <1>8, Goto_Ind DEF Working, Service

LEMMA Accept_Ind ==
    ASSUME CommandLineAssumption, IndInv, NEW p \in Processes,
           QuitTest(p) \/ check_sockets_and_quit_fd(p)
    PROVE  IndInv'
<1>1. pc[p] \in {"loop", "poll"} /\ pc[p] \in Working
  BY DEF QuitTest, check_sockets_and_quit_fd, Working, Service
<1>2. TypeInv /\ PathAt(p) /\ Stair(0, "loaded", {"forked"})
  BY <1>1 DEF IndInv, PathInv, StageInv, StageAt
<1>3. PICK there \in {"loop", "poll", "wait"} :
         Goto(p, there) /\ UNCHANGED <<opt, stage, thread_model, handlers, exit>>
  BY DEF QuitTest, check_sockets_and_quit_fd
<1>4. pc'[p] = there /\ (Forked => Forked')
  BY <1>2, <1>3 DEF Goto, TypeInv, Forked, Processes
<1>5. PathAt(p)'
  BY <1>1, <1>2, <1>3, <1>4, SameLine DEF PathAt, Working, Service
<1>6. StageAt(p)'
  BY <1>2, <1>3, <1>4, Levels DEF StageAt, Stair
<1>7. pc' = [pc EXCEPT ![p] = there] /\ lvl' \in Index
  BY <1>3, Levels DEF Goto
<1>8. Calls(p, there)
  BY <1>3 DEF Calls
<1> QED BY <1>1, <1>3, <1>5, <1>6, <1>7, <1>8, Step_Ind DEF Working, Service

LEMMA Served_Ind ==
    ASSUME CommandLineAssumption, IndInv, NEW p \in Processes,
           wait_for_threads(p) \/ SingleConnection(p)
    PROVE  IndInv'
<1>1. pc[p] \in {"wait", "single"} /\ pc[p] \in Working
  BY DEF wait_for_threads, SingleConnection, Working, Service
<1>2. connections = {}
  <2>1. CASE pc[p] = "wait"
    BY <2>1 DEF wait_for_threads, SingleConnection
  <2>2. CASE pc[p] = "single"
    <3>1. pc[p] \in Working \ {"loop", "poll", "wait"}
      BY <2>2 DEF Working, Service
    <3> QED BY <3>1, Unserved
  <2> QED BY <1>1, <2>1, <2>2
<1>3. TypeInv /\ PathAt(p) /\ Stair(0, "loaded", {"forked"})
  BY <1>1 DEF IndInv, PathInv, StageInv, StageAt
<1>4. Goto(p, "cleanup") /\ UNCHANGED <<opt, stage, thread_model, handlers, connections, exit>>
  BY DEF wait_for_threads, SingleConnection, outside
<1>5. pc'[p] = "cleanup" /\ lvl' = Top /\ (Forked => Forked')
  BY <1>3, <1>4 DEF Goto, TypeInv, Forked, Processes, Downwards
<1>6. PathAt(p)'
  BY <1>1, <1>3, <1>4, <1>5, SameLine DEF PathAt, Working, Service
<1>7. StageAt(p)'
  BY <1>3, <1>4, <1>5, Levels DEF StageAt, Stair, StairDown
<1> QED BY <1>1, <1>2, <1>4, <1>6, <1>7, Goto_Ind DEF Working, Service

LEMMA Cleanup_Ind ==
    ASSUME CommandLineAssumption, IndInv, NEW p \in Processes, cleanup(p)
    PROVE  IndInv'
<1>1. pc[p] = "cleanup" /\ pc[p] \in Working \ {"loop", "poll", "wait", "user"}
  BY DEF cleanup, Working, Service
<1>2. UNCHANGED <<opt, thread_model, handlers, connections, exit>> /\ Called(lvl, "cleaned")
  BY DEF cleanup, outside
<1>3. TypeInv /\ PathAt(p) /\ StairDown(lvl, "cleaned", {"forked"})
  BY <1>1 DEF IndInv, PathInv, StageInv, StageAt
<1>4. /\ lvl = 0 => \A b \in Index : stage'[b] = "cleaned"
      /\ lvl # 0 => /\ lvl - 1 \in Index
                    /\ \A b \in Index : IF b > lvl - 1 THEN stage'[b] = "cleaned"
                                        ELSE stage'[b] \in {"forked"}
  BY <1>2, <1>3, Descends DEF StageNames
<1>5. CASE lvl # 0
  <2>1. UNCHANGED pc /\ lvl' = lvl - 1 /\ lvl' \in Index
    BY <1>4, <1>5 DEF cleanup
  <2>2. StageAt(p)'
    BY <1>1, <1>4, <1>5, <2>1 DEF StageAt, StairDown
  <2> QED BY <1>1, <1>2, <2>1, <2>2, Call_Ind DEF StageNames
<1>6. CASE lvl = 0
  <2>1. Goto(p, "free") /\ pc'[p] = "free" /\ lvl' = 0
    BY <1>3, <1>6 DEF cleanup, Goto, Downwards, TypeInv
  <2>2. PathAt(p)'
    BY <1>1, <1>2, <1>3, <2>1, SameLine DEF PathAt, Service, Working
  <2>3. StageAt(p)'
    BY <1>4, <1>6, <2>1, Levels DEF StageAt, Stair
  <2> QED BY <1>1, <1>2, <2>1, <2>2, <2>3, LastCall_Ind DEF StageNames, Working
<1> QED BY <1>5, <1>6

LEMMA Unload_Ind ==
    ASSUME CommandLineAssumption, IndInv, NEW p \in Processes, backend_unload(p)
    PROVE  IndInv'
<1>1. pc[p] = "free" /\ pc[p] \in Working \ {"loop", "poll", "wait", "user"} /\ pc[p] \in Working
  BY DEF backend_unload, Working
<1>2. UNCHANGED <<opt, thread_model, handlers, connections>> /\ Called(lvl, "unloaded")
  BY DEF backend_unload, outside
<1>3. TypeInv /\ PathAt(p) /\ connections = {}
  BY <1>1, Unserved DEF IndInv, PathInv
<1>4. PICK T \in {{"cleaned"}, Configured} : Stair(lvl, "unloaded", T)
  BY <1>1 DEF IndInv, StageInv, StageAt
<1>5. /\ lvl = Top => \A b \in Index : stage'[b] = "unloaded"
      /\ lvl # Top => /\ lvl + 1 \in Index
                      /\ \A b \in Index : IF b < lvl + 1 THEN stage'[b] = "unloaded"
                                          ELSE stage'[b] \in T
  BY <1>2, <1>3, <1>4, Climbs DEF StageNames
<1>6. CASE lvl # Top
  <2>1. UNCHANGED <<pc, exit>> /\ lvl' = lvl + 1 /\ lvl' \in Index
    BY <1>5, <1>6 DEF backend_unload
  <2>2. Stair(lvl, "unloaded", T)'
    BY <1>5, <1>6, <2>1 DEF Stair
  <2>3. StageAt(p)'
    <3>1. Stair(lvl, "unloaded", {"cleaned"})' \/ Stair(lvl, "unloaded", Configured)'
      BY <1>4, <2>2
    <3> QED BY <1>1, <2>1, <3>1 DEF StageAt
  <2> QED BY <1>1, <1>2, <2>1, <2>3, Call_Ind DEF StageNames
<1>7. CASE lvl = Top
  <2>1. /\ pc' = [pc EXCEPT ![p] = "exited"] /\ exit' = [exit EXCEPT ![p] = "success"]
        /\ lvl' = lvl
    BY <1>7 DEF backend_unload, Exit
  <2>2. (p = "server" <=> Forked) /\ \A q \in Processes : q # p => pc[q] \notin Working
    BY <1>1, Alone
  <2>3. SameFacts /\ \A b \in Index : stage'[b] = "unloaded"
    BY <1>2, <1>5, <1>7, SameLine DEF SameFacts
  <2>4. TypeInv'
    BY <1>2, <1>3, <2>1 DEF TypeInv, Called, StageNames, Places
  <2>5. ForkInv'
    BY <1>1, <1>2, <2>1, <2>2, <2>3
       DEF IndInv, TypeInv, ForkInv, Forked, Processes, Working,
       SameFacts
  <2>6. \A q \in Processes : pc'[q] \notin Working
    BY <1>3, <2>1, <2>2 DEF TypeInv, Working, Setup, Service
  <2>7. PathInv' /\ StageInv'
    BY <2>6 DEF PathInv, PathAt, StageInv, StageAt, Working, Setup, Service
  <2>8. ShapeInv'
    BY <2>3, Levels DEF ShapeInv, Stair
  <2>9. EndInv'
    BY <1>2, <1>3, <2>1, <2>3 DEF IndInv, TypeInv, EndInv, Processes
  <2> QED BY <2>4, <2>5, <2>7, <2>8, <2>9 DEF IndInv
<1> QED BY <1>6, <1>7

\* The process that is started leaves the serving to the one it forks.
LEMMA Fork_Ind ==
    ASSUME CommandLineAssumption, IndInv, NEW p \in Processes,
           run_command(p) \/ fork_into_background(p)
    PROVE  IndInv'
<1>1. pc[p] \in {"run", "background"} /\ pc[p] \in Working \ {"loop", "poll", "wait"}
  BY DEF run_command, fork_into_background, Working, Setup
<1>2. p = "nbdkit" /\ ~Forked /\ connections = {}
  BY <1>1, Unforked, Unserved DEF Setup
<1>3. SUFFICES ASSUME ~Fail(p) PROVE IndInv'
  BY <1>1, Fail_Ind
<1>4. TypeInv /\ PathAt(p) /\ Stair(0, "loaded", {"ready"})
  BY <1>1 DEF IndInv, PathInv, StageInv, StageAt
<1>5. ~Conflict /\ handlers /\ lvl' \in Index
  <2>1. lvl' = 0 \/ lvl' = lvl
    BY <1>3 DEF run_command, fork_into_background
  <2>2. ~Conflict /\ handlers
    BY <1>1, <1>4 DEF PathAt, Working, Setup
  <2> QED BY <1>4, <2>1, <2>2, Levels DEF TypeInv
<1>6. UNCHANGED <<opt, stage, thread_model, handlers, connections>>
  BY <1>3 DEF run_command, fork_into_background
<1>7. PICK parent \in {"command", "exited"}, child \in {"user", "pidfile"} :
         /\ pc' = [pc EXCEPT !["nbdkit"] = parent, !["server"] = child]
         /\ child = "user" => Has("run") /\ parent = "command" /\ exit' = exit
         /\ child = "pidfile" => ~Has("run") /\ parent = "exited"
                                 /\ exit' = [exit EXCEPT !["nbdkit"] = "success"]
  <2>1. CASE run_command(p)
    <3>1. Has("run")
      BY <1>1, <1>4, <2>1 DEF PathAt, run_command
    <3> QED BY <1>3, <2>1, <3>1 DEF run_command
  <2>2. CASE fork_into_background(p)
    <3>1. ~Has("run")
      BY <1>2, <1>4, <2>2 DEF PathAt, fork_into_background
    <3> QED BY <1>3, <2>2, <3>1 DEF fork_into_background
  <2> QED BY <2>1, <2>2
<1>8. SameFacts
  BY <1>6, SameLine DEF SameFacts
<1>9. pc'["nbdkit"] = parent /\ pc'["server"] = child
  BY <1>4, <1>7 DEF TypeInv, Processes
<1>10. TypeInv'
  <2>1. pc' \in [Processes -> Places]
    BY <1>4, <1>7 DEF TypeInv, Places, Working, Setup, Service
  <2>2. exit' \in [Processes -> {"", "success", "failure", "killed"}]
    BY <1>4, <1>7 DEF TypeInv
  <2>3. exit["nbdkit"] = "" /\ exit["server"] = ""
    BY <1>1, <1>2, <1>4 DEF TypeInv, Processes, Forked
  <2>4. exit'["server"] = "" /\ (exit'["nbdkit"] # "" <=> parent = "exited")
    BY <1>4, <1>7, <2>3 DEF TypeInv, Processes
  <2> QED BY <1>4, <1>5, <1>6, <1>7, <1>9, <2>1, <2>2, <2>4 DEF TypeInv, Processes
<1>11. ForkInv'
  BY <1>5, <1>6, <1>7, <1>8, <1>9 DEF ForkInv, Forked, Working, Setup, Service, SameFacts
<1>12. PathInv'
  BY <1>5, <1>6, <1>8, <1>9 DEF PathInv, PathAt, Forked, Processes, Working, Setup, Service,
     SameFacts
<1>13. StageInv'
  BY <1>4, <1>6, <1>9, Levels DEF StageInv, StageAt, Stair, Processes
<1>14. ShapeInv'
  BY <1>6 DEF IndInv, ShapeInv, Stair, StairDown
<1>15. EndInv'
  <2>1. \A b \in Index : stage'[b] = "ready"
    BY <1>4, <1>6, Levels DEF Stair
  <2>2. exit'["server"] = ""
    BY <1>2, <1>4, <1>7 DEF TypeInv, Forked, Processes
  <2> QED BY <1>2, <1>6, <2>1, <2>2 DEF IndInv, EndInv
<1> QED BY <1>10, <1>11, <1>12, <1>13, <1>14, <1>15 DEF IndInv

-----------------------------------------------------------------------------
(* The parent of a captive nbdkit, and the world outside. *)

LEMMA Parent_Ind ==
    ASSUME CommandLineAssumption, IndInv, Parent
    PROVE  IndInv'
<1>1. /\ pc["nbdkit"] \in {"command", "waitpid"} /\ Forked
      /\ UNCHANGED <<opt, lvl, stage, thread_model, handlers, connections>>
  BY DEF Parent, ReapOrKill, WaitpidReturns, outside, IndInv, ForkInv, Working, Setup,
     Service
<1>2. PICK there \in {"waitpid", "exited"}, status \in {"", "success", "failure", "killed"} :
         /\ pc' = [pc EXCEPT !["nbdkit"] = there]
         /\ exit' = [exit EXCEPT !["nbdkit"] = status]
         /\ there = "exited" <=> status # ""
         /\ there = "exited" => exit["server"] # ""
  <2>1. exit["server"] \in {"", "success", "failure", "killed"} /\ exit["nbdkit"] = ""
    BY <1>1 DEF IndInv, TypeInv, Processes
  <2>2. CASE WaitpidReturns
    BY <2>1, <2>2 DEF WaitpidReturns, Exit
  <2>3. CASE ReapOrKill
    <3>1. CASE exit["server"] # ""
      <4>1. \E status \in {"success", "failure", "killed"} : Exit("nbdkit", status)
        BY <2>1, <2>3, <3>1 DEF ReapOrKill
      <4> QED BY <3>1, <4>1 DEF Exit
    <3>2. CASE exit["server"] = ""
      <4>1. pc' = [pc EXCEPT !["nbdkit"] = "waitpid"] /\ exit' = exit
        BY <2>3, <3>2 DEF ReapOrKill
      <4>2. exit' = [exit EXCEPT !["nbdkit"] = ""]
        BY <2>1, <4>1 DEF IndInv, TypeInv
      <4> QED BY <4>1, <4>2
    <3> QED BY <3>1, <3>2
  <2> QED BY <2>2, <2>3 DEF Parent
<1>3. SameFacts
  BY <1>1, SameLine DEF SameFacts
<1>4. /\ pc'["nbdkit"] = there /\ pc'["server"] = pc["server"] /\ Forked' = Forked
      /\ exit'["nbdkit"] = status /\ exit'["server"] = exit["server"]
  BY <1>2 DEF IndInv, TypeInv, Processes, Forked
<1>5. TypeInv'
  BY <1>1, <1>2 DEF IndInv, TypeInv, Processes, Places
<1>6. ForkInv'
  <2>1. there = "exited" => pc["server"] = "exited"
    BY <1>2 DEF IndInv, TypeInv, Processes
  <2> QED BY <1>1, <1>2, <1>3, <1>4, <2>1 DEF IndInv, ForkInv, SameFacts
<1>7. PathInv'
  BY <1>1, <1>2, <1>3, <1>4
     DEF IndInv, PathInv, PathAt, Processes, Working, Setup, Service, SameFacts
<1>8. StageInv'
  BY <1>1, <1>2, <1>4 DEF IndInv, StageInv, StageAt, Stair, StairDown, Processes
<1>9. ShapeInv'
  BY <1>1 DEF IndInv, ShapeInv, Stair, StairDown
<1>10. EndInv'
  BY <1>1, <1>3, <1>4 DEF IndInv, EndInv, SameFacts, Processes
<1> QED BY <1>5, <1>6, <1>7, <1>8, <1>9, <1>10 DEF IndInv

\* Clients, the command, and a signal that is only noted.
LEMMA Outside_Ind ==
    ASSUME CommandLineAssumption, IndInv, connections' \subseteq connections,
           UNCHANGED <<opt, pc, lvl, stage, thread_model, handlers, exit>>
    PROVE  IndInv'
<1>1. SameFacts /\ Forked' = Forked
  BY SameLine DEF SameFacts, Forked
<1>2. TypeInv' /\ ForkInv'
  BY <1>1 DEF IndInv, TypeInv, ForkInv, SameFacts
<1>3. PathInv' /\ StageInv' /\ ShapeInv'
  BY <1>1
     DEF IndInv, PathInv, PathAt, StageInv, StageAt, ShapeInv, Stair, StairDown, SameFacts
<1>4. EndInv'
  BY <1>1 DEF IndInv, EndInv, SameFacts
<1> QED BY <1>2, <1>3, <1>4 DEF IndInv

\* A signal that comes before there is a handler ends the process.
LEMMA Quit_Ind ==
    ASSUME CommandLineAssumption, IndInv, NEW p \in Processes, handle_quit(p)
    PROVE  IndInv'
<1>1. CASE handlers
  BY <1>1, Outside_Ind DEF handle_quit
<1>2. CASE ~handlers
  <2>1. Exit(p, "killed") /\ UNCHANGED <<opt, lvl, stage, thread_model, handlers, connections>>
    BY <1>2 DEF handle_quit
  <2>2. p = "nbdkit" /\ pc[p] \in Working
    BY <1>2 DEF handle_quit, IndInv, ForkInv, Forked, Processes
  <2>3. pc[p] \notin {"loop", "poll", "wait"}
    BY <1>2 DEF IndInv, PathInv, PathAt, Service
  <2> QED BY <2>1, <2>2, <2>3, Exit_Ind
<1> QED BY <1>1, <1>2

LEMMA Step_IndInv ==
    ASSUME CommandLineAssumption, IndInv, NEW p \in Processes, Step(p)
    PROVE  IndInv'
<1>1. CASE main_options(p) \/ open_plugin_so(p) \/ open_filter_so(p)
  BY <1>1, Options_Ind, Load_Ind DEF open_plugin_so, open_filter_so
<1>2. CASE config(p) \/ config_fails(p) \/ config_complete(p) \/ lock_init_thread_model(p)
  BY <1>2, Config_Ind, Complete_Ind, Model_Ind
<1>3. CASE get_ready(p) \/ set_up_signals(p)
  BY <1>3, Ready_Ind, Signals_Ind
<1>4. CASE bind_unix_socket(p) \/ bind_vsock(p) \/ bind_tcpip_socket(p) \/ no_bind(p)
  BY <1>4, Bind_Ind DEF bind_unix_socket, bind_vsock, bind_tcpip_socket
<1>5. CASE run_command(p) \/ change_user(p) \/ fork_into_background(p) \/ write_pidfile(p)
  BY <1>5, Fork_Ind, User_Ind, Pidfile_Ind
<1>6. CASE after_fork(p) \/ QuitTest(p) \/ check_sockets_and_quit_fd(p)
  BY <1>6, AfterFork_Ind, Accept_Ind
<1>7. CASE wait_for_threads(p) \/ SingleConnection(p) \/ cleanup(p) \/ backend_unload(p)
  BY <1>7, Served_Ind, Cleanup_Ind, Unload_Ind
<1> QED BY <1>1, <1>2, <1>3, <1>4, <1>5, <1>6, <1>7 DEF Step

LEMMA Next_Ind ==
    ASSUME CommandLineAssumption, IndInv, [Next]_vars
    PROVE  IndInv'
<1>1. CASE \E p \in Processes : Step(p) \/ handle_quit(p)
  BY <1>1, Step_IndInv, Quit_Ind
<1>2. CASE Parent
  BY <1>2, Parent_Ind
<1>3. CASE CommandConnects \/ CommandExits \/ \E c \in Clients : Connect(c)
  BY <1>3, Outside_Ind DEF CommandConnects, CommandExits, Connect
<1>4. CASE \E c \in connections : ConnectionEnds(c)
  BY <1>4, Outside_Ind DEF ConnectionEnds
<1>5. CASE UNCHANGED vars
  BY <1>5, Outside_Ind DEF vars
<1> QED BY <1>1, <1>2, <1>3, <1>4, <1>5 DEF Next

-----------------------------------------------------------------------------
\* Each shape keeps the backends in order.
LEMMA InOrder ==
    ASSUME CommandLineAssumption, IndInv
    PROVE  /\ \A b \in 1 .. Top, s \in {"ready", "forked"} : Reached(b, s) => Reached(b - 1, s)
           /\ \A b \in 1 .. Top : stage[b - 1] = "cleaned" => stage[b] = "cleaned"
           /\ (\E b \in Index : stage[b] = "unloaded") =>
                 \/ \A b \in Index : Reached(b, "cleaned")
                 \/ \A b \in Index : stage[b] \in {"loaded", "configured", "unloaded"}
<1>1. PICK l \in Index :
         \/ Stair(l, "loaded", {"none"})
         \/ Stair(l, "unloaded", Configured) \/ Stair(0, "loaded", {"unloaded"})
         \/ StairDown(l, "complete", Configured)
         \/ Stair(l, "ready", {"complete"})
         \/ Stair(l, "forked", {"ready"})
         \/ StairDown(l, "cleaned", {"forked"})
         \/ Stair(l, "unloaded", {"cleaned"})
  BY DEF IndInv, ShapeInv
<1>2. Top \in Nat /\ l \in Int
  BY <1>1 DEF CommandLineAssumption, Index
<1>3. ASSUME NEW b \in 1 .. Top
      PROVE  /\ b \in Index /\ b - 1 \in Index
             /\ b < l => b - 1 < l
             /\ b - 1 > l => b > l
             /\ ~ (b < 0) /\ ~ (b - 1 < 0)
  BY <1>2, <1>3 DEF Index
<1>4. \A b \in Index : ~ (b < 0)
  BY Levels
<1> USE DEF Reached, Configured
<1>5. CASE Stair(l, "loaded", {"none"})
  BY <1>3, <1>5, Ranks DEF Stair
<1>10. CASE Stair(l, "unloaded", Configured)
  BY <1>3, <1>10, Ranks DEF Stair
<1>11. CASE Stair(0, "loaded", {"unloaded"})
  BY <1>3, <1>4, <1>11, Ranks DEF Stair
<1>6. CASE StairDown(l, "complete", Configured)
  BY <1>3, <1>6, Ranks DEF StairDown
<1>7. CASE Stair(l, "ready", {"complete"}) \/ Stair(l, "forked", {"ready"})
  BY <1>3, <1>7, Ranks DEF Stair
<1>8. CASE StairDown(l, "cleaned", {"forked"})
  BY <1>3, <1>8, Ranks DEF StairDown
<1>9. CASE Stair(l, "unloaded", {"cleaned"})
  BY <1>3, <1>9, Ranks DEF Stair
<1> QED BY <1>1, <1>5, <1>6, <1>7, <1>8, <1>9, <1>10, <1>11

LEMMA Ordered ==
    ASSUME CommandLineAssumption, IndInv
    PROVE  StartupIsOrdered
<1>1. Forked => \A b \in Index : Reached(b, "ready")
  <2>1. Forked => \A b \in Index : stage[b] \in {"ready", "forked", "cleaned", "unloaded"}
    BY DEF IndInv, EndInv
  <2> QED BY <2>1, Ranks DEF Reached
<1>2. connections # {} => \A b \in Index : stage[b] = "forked"
  <2>1. \A p \in Processes : pc[p] \in {"loop", "poll", "wait"} => Stair(0, "loaded", {"forked"})
    BY DEF IndInv, StageInv, StageAt
  <2>2. \A b \in Index : ~ (b < 0)
    BY Levels
  <2> QED BY <2>1, <2>2 DEF IndInv, EndInv, Stair
<1>3. \A b \in Index : Reached(b, "ready") => thread_model <= opt.models[b]
  <2>1. \A b \in Index : opt.models[b] \in 0 .. 3
    BY DEF IndInv, TypeInv, CommandLineAssumption
  <2>2. thread_model = -1 \/ \A b \in Index : thread_model <= opt.models[b]
    BY DEF IndInv, EndInv
  <2> QED BY <2>1, <2>2
<1>4. Has("run") /\ Forked /\ exit["nbdkit"] # "" =>
         \/ exit["server"] = "success" /\ \A b \in Index : stage[b] = "unloaded"
         \/ exit["server"] = "failure"
  BY DEF IndInv, TypeInv, ForkInv, EndInv, Processes
<1>5. \A b \in Index : stage[b] = "forked" => Forked \/ ~(Has("run") \/ (Binds /\ ~foreground))
  BY DEF IndInv, EndInv
<1> QED BY <1>1, <1>2, <1>3, <1>4, <1>5, InOrder DEF StartupIsOrdered

\* IndInv holds of every start and every end of nbdkit.
THEOREM StartupInductive ==
    ASSUME CommandLineAssumption
    PROVE  Spec => []IndInv
<1>1. Init => IndInv
  BY Init_Ind
<1>2. IndInv /\ [Next]_vars => IndInv'
  BY Next_Ind
<1> QED BY <1>1, <1>2, PTL DEF Spec

\* The callbacks of main and of start_serving are made in order, whatever fails
\* and whenever a signal comes, for any number of filters.
THEOREM StartupOrdered ==
    ASSUME CommandLineAssumption
    PROVE  Spec => []StartupIsOrdered
<1>1. IndInv => StartupIsOrdered
  BY Ordered
<1> QED BY <1>1, StartupInductive, PTL
=============================================================================
