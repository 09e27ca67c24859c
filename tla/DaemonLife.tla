----------------------------- MODULE DaemonLife -----------------------------
(***************************************************************************)
(* One life of the packetwyrmd process (main, main.c:2848-3094): start-up  *)
(* with every failure it handles, the threads it runs and what they hold,  *)
(* config.load against the servo, and the shut-down.                       *)
(*                                                                         *)
(* Threads: the main thread (pc), one worker per card with a host plane,   *)
(* the latency servo, the SFP refresh.  A thread is at "use" while it      *)
(* works on shared objects and touches none of them elsewhere.             *)
(***************************************************************************)
EXTENDS VfioGroups, Sequences

CONSTANTS Lifs, LifCard,    \* logical interfaces 1..n and their cards
          MaxLoads,         \* bound: config.load requests
          MaxFaults         \* bound: calls that fail in one life

ASSUME LifeAssumption == /\ Lifs \subseteq Nat \ {0} /\ LifCard \in [Lifs -> Cards]
                         /\ MaxLoads \in Nat /\ MaxFaults \in Nat

VARIABLES pc,               \* where the main thread is
          at,               \* the card or interface a loop of main is at
          opts,             \* -F and PW_BACKEND
          os, cards,        \* registry and kernel; card -> backend
          alive,            \* backends not closed yet (close leaves cards[].open set)
          engine,           \* cards whose C2H channel runs
          programmed,       \* the initial programming succeeded
          hps, taps,        \* cards with a host plane, interfaces with a TAP
          socket,           \* what is at the control socket's path
          worker, stop,     \* per card: thread state, stop flag
          servo, sfp,       \* thread states
          walked, probed,   \* the program the servo walks, the card being probed
          prog, progs, new, \* current program, the ones allocated, the one being loaded
          lock,             \* holder of g_servo_lock
          g_stop, loads, faults
threads == <<worker, stop, servo, sfp, walked, probed>>
program == <<prog, progs, new, lock, loads>>
device == <<os, cards, alive, engine, programmed>>
plane == <<hps, taps, socket>>
vars == <<pc, at, opts, device, plane, threads, program, g_stop, faults>>

OpenCards == {c \in Cards : cards[c].open}
Off == "off"                \* a thread that was never started

Init ==
  /\ IF Cards = {} THEN pc = "opened" /\ at = 0 ELSE pc = "open" /\ at = Min(Cards)
  /\ opts \in [allow_fake : BOOLEAN, force : {"auto", "vfio", "sysfs"}]
  /\ os = NothingHeld /\ cards = [c \in Cards |-> Closed] /\ alive = {} /\ engine = {}
  /\ programmed = FALSE
  /\ hps = {} /\ taps = {} /\ socket \in {"absent", "stale", "file"}
  /\ worker = [c \in Cards |-> Off] /\ stop = {} /\ servo = Off /\ sfp = Off
  /\ walked = 0 /\ probed = 0
  /\ prog = 1 /\ progs = {1} /\ new = 0 /\ lock = "free" /\ loads = 0
  /\ g_stop = FALSE /\ faults = 0

Spend(n) == faults + n <= MaxFaults /\ faults' = faults + n
Cost(fails) == IF fails THEN 1 ELSE 0
Goto(p, i) == pc' = p /\ at' = i
\* A loop over S at label, in order, and on to p: its first round, its next one.
Loop(S, label, p) == IF S = {} THEN Goto(p, 0) ELSE Goto(label, Min(S))
Step(S, label, p) == Loop({i \in S : i > at}, label, p)
-----------------------------------------------------------------------------
\* Start-up.  open_all_backends tries every card, then main decides.
OpenCard ==
  /\ pc = "open"
  /\ \E sysfs \in BOOLEAN, fault \in Faults :
       /\ Spend(Cost(fault # "none"))
       /\ \E r \in pw_bar_backend_open(os, at, opts.force, sysfs, fault) :
            LET b == IF ~r.b.open /\ opts.allow_fake THEN Fake ELSE r.b
            IN  /\ os' = r.s /\ cards' = [cards EXCEPT ![at] = b]
                /\ alive' = IF b.open THEN alive \union {at} ELSE alive
  /\ Step(Cards, "open", "opened")
  /\ UNCHANGED <<opts, engine, programmed, plane, threads, program, g_stop>>

\* A refusal to run: close_all_backends and exit 1.
Abandon == Loop(Cards, "close", "exit")
Opened ==
  /\ pc = "opened"
  /\ IF OpenCards # Cards /\ ~opts.allow_fake THEN Abandon ELSE Goto("program", 0)
  /\ UNCHANGED <<opts, device, plane, threads, program, g_stop, faults>>

MutProgram ==               \* a failed programming is only a warning
  /\ pc = "program"
  /\ \E ok \in BOOLEAN :
       /\ Spend(Cost(~ok)) /\ programmed' = ok
       /\ Loop(Lifs, "taps", "tapped")
  /\ UNCHANGED <<opts, os, cards, alive, engine, plane, threads, program, g_stop>>

Program ==
  /\ pc = "program"
  /\ \E ok \in BOOLEAN :
       /\ Spend(Cost(~ok)) /\ programmed' = ok
       /\ IF ~ok /\ ~opts.allow_fake THEN Abandon ELSE Loop(Lifs, "taps", "tapped")
  /\ UNCHANGED <<opts, os, cards, alive, engine, plane, threads, program, g_stop>>

\* setup_taps, one interface: no backend, no TAP, a TAP that cannot be set up
\* (tolerated with -F), no host plane or no binding left.
TapFaults == {"none", "tap", "config", "bind"}
Rewind == taps' = {} /\ hps' = {}   \* the fail path of setup_taps
SetupTap ==
  /\ pc = "taps"
  /\ \E fault \in TapFaults :
       LET c == LifCard[at]
           ok == cards[c].open /\ (fault = "none" \/ (fault = "config" /\ opts.allow_fake))
       IN  /\ Spend(Cost(fault # "none"))
           /\ IF ok THEN /\ taps' = taps \union {at} /\ hps' = hps \union {c}
                         /\ Step(Lifs, "taps", "tapped")
              ELSE IF opts.allow_fake
                   THEN /\ Step(Lifs, "taps", "tapped")
                        /\ hps' \in IF fault = "bind" /\ cards[c].open
                                    THEN {hps, hps \union {c}} ELSE {hps}
                        /\ UNCHANGED taps
              ELSE Rewind /\ Abandon
  /\ UNCHANGED <<opts, device, socket, threads, program, g_stop>>
Tapped ==
  /\ pc = "tapped"
  /\ IF taps = {} /\ Lifs # {} /\ ~opts.allow_fake THEN Abandon ELSE Goto("listen", 0)
  /\ UNCHANGED <<opts, device, plane, threads, program, g_stop, faults>>

\* pw_ipc_listen: replaces a socket, never another kind of file.  A failed
\* listen() leaves the bound name behind, a failed chmod removes it.
Listen ==
  /\ pc = "listen"
  /\ \/ /\ socket # "file" /\ socket' = "ours" /\ Loop(Cards, "workers", "servo")
        /\ UNCHANGED faults
     \/ /\ socket # "file" /\ socket' \in {"absent", "stale"} /\ Spend(1) /\ Abandon
     \/ /\ socket = "file" /\ UNCHANGED <<socket, faults>> /\ Abandon
  /\ UNCHANGED <<opts, device, hps, taps, threads, program, g_stop>>
-----------------------------------------------------------------------------
\* Threads start; one that cannot be created is only reported.
StartWorker ==
  /\ pc = "workers"
  /\ \E ok \in BOOLEAN :
       /\ at \in hps \/ ok
       /\ Spend(Cost(~ok))
       /\ worker' = IF at \in hps /\ ok THEN [worker EXCEPT ![at] = "idle"] ELSE worker
  /\ Step(Cards, "workers", "servo")
  /\ UNCHANGED <<opts, device, plane, stop, servo, sfp, walked, probed, program, g_stop>>

StartServo ==
  /\ pc = "servo"
  /\ \E ok \in BOOLEAN : Spend(Cost(~ok)) /\ servo' = IF ok THEN "idle" ELSE Off
  /\ Goto("sfp", 0)
  /\ UNCHANGED <<opts, device, plane, worker, stop, sfp, walked, probed, program, g_stop>>

StartSfp ==
  /\ pc = "sfp"
  /\ \E ok \in BOOLEAN : Spend(Cost(~ok)) /\ sfp' = IF ok THEN "idle" ELSE Off
  /\ Goto("loop", 0)
  /\ UNCHANGED <<opts, device, plane, worker, stop, servo, walked, probed, program, g_stop>>

\* card_worker_main: a host_plane_step arms the C2H ring of a DMA card.
WorkerLook(c) ==
  /\ worker[c] = "idle"
  /\ worker' = [worker EXCEPT ![c] = IF c \in stop THEN "done" ELSE "use"]
  /\ UNCHANGED <<pc, at, opts, device, plane, stop, servo, sfp, walked, probed, program,
                 g_stop, faults>>
WorkerStep(c) ==
  /\ worker[c] = "use"
  /\ worker' = [worker EXCEPT ![c] = "idle"]
  /\ engine' = IF cards[c].pool THEN engine \union {c} ELSE engine
  /\ UNCHANGED <<pc, at, opts, os, cards, alive, programmed, plane, stop, servo, sfp,
                 walked, probed, program, g_stop, faults>>

\* servo_thread_fn: the walk of cfg and prog is under the lock; whether to go
\* on is decided before it waits for the lock.
ServoLook ==
  /\ servo = "idle"
  /\ servo' = IF g_stop THEN "done" ELSE "want"
  /\ UNCHANGED <<pc, at, opts, device, plane, worker, stop, sfp, walked, probed, program,
                 g_stop, faults>>
ServoLock ==
  /\ servo = "want" /\ lock = "free"
  /\ servo' = "use" /\ lock' = "servo" /\ walked' = prog
  /\ UNCHANGED <<pc, at, opts, device, plane, worker, stop, sfp, probed, prog, progs, new,
                 loads, g_stop, faults>>
ServoDone ==
  /\ servo = "use"
  /\ servo' = "idle" /\ lock' = "free" /\ walked' = 0
  /\ UNCHANGED <<pc, at, opts, device, plane, worker, stop, sfp, probed, prog, progs, new,
                 loads, g_stop, faults>>

\* sfp_refresh_thread_fn: a pass over the open cards, then the pause; g_stop
\* is looked at between two passes only.
SfpLook ==
  /\ sfp = "idle"
  /\ IF g_stop THEN sfp' = "done" /\ UNCHANGED probed
     ELSE IF OpenCards = {} THEN UNCHANGED <<sfp, probed>>
     ELSE sfp' = "use" /\ probed' = Min(OpenCards)
  /\ UNCHANGED <<pc, at, opts, device, plane, worker, stop, servo, walked, program,
                 g_stop, faults>>
SfpProbed ==
  /\ sfp = "use"
  /\ LET later == {c \in OpenCards : c > probed}
     IN  IF later = {} THEN sfp' = "idle" /\ probed' = 0
         ELSE probed' = Min(later) /\ UNCHANGED sfp
  /\ UNCHANGED <<pc, at, opts, device, plane, worker, stop, servo, walked, program,
                 g_stop, faults>>
-----------------------------------------------------------------------------
\* The main loop: config.load is the RPC that replaces shared objects.  The
\* new program is compiled first; the lock covers programming and swap.
LoadCompiled ==
  /\ pc = "loop" /\ ~g_stop /\ loads < MaxLoads
  /\ new' = Max(progs) + 1 /\ progs' = progs \union {Max(progs) + 1}
  /\ loads' = loads + 1 /\ Goto("want", at)
  /\ UNCHANGED <<opts, device, plane, threads, prog, lock, g_stop, faults>>
LoadLock ==
  /\ pc = "want" /\ lock = "free"
  /\ lock' = "main" /\ Goto("load", at)
  /\ UNCHANGED <<opts, device, plane, threads, prog, progs, new, loads, g_stop, faults>>

MutLoadSwap ==              \* the lock is given up before the old program is freed
  /\ pc = "load" /\ new # 0
  /\ IF lock = "main" THEN lock' = "free" /\ UNCHANGED <<pc, at, prog, progs, new>>
     ELSE /\ progs' = progs \ {prog} /\ prog' = new /\ new' = 0 /\ Goto("loop", at)
          /\ UNCHANGED lock
  /\ UNCHANGED <<opts, device, plane, threads, loads, g_stop, faults>>

LoadSwap ==
  /\ pc = "load"
  /\ progs' = progs \ {prog} /\ prog' = new /\ new' = 0
  /\ lock' = "free" /\ Goto("loop", at)
  /\ UNCHANGED <<opts, device, plane, threads, loads, g_stop, faults>>

MutLoadRollBack ==          \* the error path returns with the lock held
  /\ pc = "load" /\ Spend(1)
  /\ progs' = progs \ {new} /\ new' = 0 /\ Goto("loop", at)
  /\ UNCHANGED <<opts, device, plane, threads, prog, lock, loads, g_stop>>

LoadRollBack ==
  /\ pc = "load" /\ Spend(1)
  /\ progs' = progs \ {new} /\ new' = 0 /\ lock' = "free" /\ Goto("loop", at)
  /\ UNCHANGED <<opts, device, plane, threads, prog, loads, g_stop>>

\* SIGINT or SIGTERM, once the handlers are installed.
Signal ==
  /\ pc \in {"workers", "servo", "sfp", "loop", "want", "load"} /\ ~g_stop
  /\ g_stop' = TRUE
  /\ UNCHANGED <<pc, at, opts, device, plane, threads, program, faults>>
-----------------------------------------------------------------------------
\* Shut-down: join the servo and the SFP thread, stop and join the workers,
\* then the socket, the TAPs, the host planes, the cards and the program.
LeaveLoop ==
  /\ pc = "loop" /\ g_stop /\ Goto("join", at)
  /\ UNCHANGED <<opts, device, plane, threads, program, g_stop, faults>>
JoinServoSfp ==
  /\ pc = "join" /\ servo \in {Off, "done"} /\ sfp \in {Off, "done"}
  /\ stop' = {c \in Cards : worker[c] # Off} /\ Goto("joinw", at)
  /\ UNCHANGED <<opts, device, plane, worker, servo, sfp, walked, probed, program, g_stop,
                 faults>>

JoinWorkers ==
  /\ pc = "joinw" /\ \A c \in Cards : worker[c] \in {Off, "done"}
  /\ Goto("release", at)
  /\ UNCHANGED <<opts, device, plane, threads, program, g_stop, faults>>
Release ==
  /\ pc = "release"
  /\ socket' = "absent" /\ taps' = {} /\ hps' = {}
  /\ Loop(Cards, "close", "free")
  /\ UNCHANGED <<opts, device, threads, program, g_stop, faults>>

MutCloseCard ==             \* the channels are not stopped
  /\ pc = "close"
  /\ IF cards[at].open
     THEN \E s \in bar_close(os, at, cards[at]) :
            os' = s /\ alive' = alive \ {at} /\ UNCHANGED engine
     ELSE UNCHANGED <<os, alive, engine>>
  /\ Step(Cards, "close", IF g_stop THEN "free" ELSE "exit")
  /\ UNCHANGED <<opts, cards, programmed, plane, threads, program, g_stop, faults>>

\* close_all_backends, one card; dma_teardown stops its channels first.
CloseCard ==
  /\ pc = "close"
  /\ IF cards[at].open
     THEN \E s \in bar_close(os, at, cards[at]) :
            os' = s /\ alive' = alive \ {at} /\ engine' = engine \ {at}
     ELSE UNCHANGED <<os, alive, engine>>
  /\ Step(Cards, "close", IF g_stop THEN "free" ELSE "exit")
  /\ UNCHANGED <<opts, cards, programmed, plane, threads, program, g_stop, faults>>
FreeProgram ==
  /\ pc = "free"
  /\ progs' = progs \ {prog} /\ Goto("exit", at)
  /\ UNCHANGED <<opts, device, plane, threads, prog, new, lock, loads, g_stop, faults>>

Main ==
  \/ OpenCard \/ Opened \/ Program \/ SetupTap \/ Tapped \/ Listen
  \/ StartWorker \/ StartServo \/ StartSfp
  \/ LoadLock \/ LoadSwap \/ LoadRollBack
  \/ LeaveLoop \/ JoinServoSfp \/ JoinWorkers \/ Release \/ CloseCard \/ FreeProgram
Worker(c) == WorkerLook(c) \/ WorkerStep(c)
Servo == ServoLook \/ ServoLock \/ ServoDone
Sfp == SfpLook \/ SfpProbed

Next == Main \/ LoadCompiled \/ Signal \/ Servo \/ Sfp \/ \E c \in Cards : Worker(c)

Fairness == WF_vars(Main) /\ WF_vars(Servo) /\ WF_vars(Sfp) /\ \A c \in Cards : WF_vars(Worker(c))
Spec == Init /\ [][Next]_vars /\ Fairness
-----------------------------------------------------------------------------
(* No thread works on an object that main has released: a worker's card,   *)
(* host plane and TAPs, the cards and the program the servo walks, the     *)
(* card being probed, through config.load (main.c:802-856) and through the *)
(* shut-down (main.c:3070-3094).                                           *)
NoUseAfterRelease ==
  /\ \A c \in Cards : worker[c] = "use" =>
       c \in alive /\ c \in hps
  /\ servo = "use" => walked \in progs /\ OpenCards \subseteq alive
  /\ sfp = "use" => probed \in alive

(* A running C2H channel writes into a pool that is still mapped and still *)
(* allocated (dma_teardown, backend_bar.c:334-343).                        *)
DmaIntoLivePool == \A c \in engine : c \in alive /\ Mapped(os, c)

(* The kernel never refuses the daemon a group or a DMA address because of *)
(* what the daemon itself still holds: cards that share an IOMMU group all *)
(* open, also after one of them failed half way (vfio.c:16-24).            *)
NoSelfConflict == ~os.conflict

(* Whenever no open is under way the registry counts each group's open     *)
(* cards and the process holds exactly the groups in use; at exit it holds *)
(* nothing and no dead socket is left under the configured name.           *)
RegistryExact ==
  /\ \A i \in Slots : os.groups[i].refcount =
       Cardinality({c \in alive : cards[c].path = "vfio" /\ cards[c].slot = i})
  /\ os.held = {GroupOf[c] : c \in {d \in alive : cards[d].path = "vfio"}}
  /\ pc = "exit" => os.held = {} /\ os.maps = {} /\ socket # "ours"

(* Without -F a daemon that serves its socket has every card open on real  *)
(* hardware, programmed, and a TAP for every logical interface: it never   *)
(* comes up "alive but not transmitting" (main.c:133-141, 2853-2896).      *)
ServesWhole ==
  pc = "loop" /\ ~opts.allow_fake =>
    /\ \A c \in Cards : cards[c].path \in {"sysfs", "vfio"} /\ c \in alive
    /\ programmed /\ taps = Lifs /\ socket = "ours"

(* A signal ends the daemon: every join returns, also when the signal      *)
(* comes while config.load waits for the servo's lock.                     *)
ShutdownCompletes == g_stop ~> pc = "exit"
=============================================================================
