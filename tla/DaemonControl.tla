---------------------------- MODULE DaemonControl ---------------------------
(***************************************************************************)
(* The control RPCs of packetwyrmd that change what the cards do: test.arm,*)
(* test.start, test.stop, flow.start, flow.stop, stats.clear, config.load  *)
(* (sw/packetwyrmd/src/main.c).  The main thread handles one RPC at a time *)
(* as a sequence of backend operations on the open cards, while the        *)
(* generators keep sending: an RPC is a script (ops), one step executes    *)
(* its first operation, and frames are sent between any two of them.       *)
(*                                                                         *)
(* A flow row is known by its slot, which is also the generator's and the  *)
(* checker's slot; prog names the program whose rows the daemon reports    *)
(* and en its staged run state.  The other tables of a card are the        *)
(* subject of CardTables.  A commit fails only while a card is being       *)
(* programmed (BAR backend: never after the open checked the window; fake  *)
(* backend: armed by the soft reset).  Frames do not get lost here.        *)
(***************************************************************************)
EXTENDS Integers, FiniteSets, Sequences

CONSTANTS NumCards,
          FlowsOf,       \* program -> the slots of its flows, in order
          TxCard, RxCard,\* slot -> card
          NUM_ROWS,      \* num_local_flows of a card
          MaxSeq         \* bound: frames per generator and soft reset

Cards == 0..(NumCards - 1)
Slots == DOMAIN TxCard
Programs == DOMAIN FlowsOf
SlotsOf(p) == {FlowsOf[p][i] : i \in 1..Len(FlowsOf[p])}

ASSUME CardsAssumption == NumCards \in Nat \ {0}
ASSUME SlotAssumption == /\ TxCard \in [Slots -> Cards] /\ RxCard \in [Slots -> Cards]
                         /\ FlowsOf \in [Programs -> Seq(Slots)]

VARIABLES open,          \* cards whose backend is open
          prog, en,      \* the daemon's view
          stg, live,     \* per card: staged and live flow rows
          seq,           \* per slot: the generator's sequence_q
          chk,           \* per slot: what the RX checker expects and found
          ops, rpc, new, \* the RPC being handled; new: program of config.load
          worst, failed, \* status of the programming, failed set_flow_enable
          oos,           \* history: the last programming failed
          clean          \* history: measurement baseline since the last reset
rows == <<stg, live>>
handler == <<ops, rpc, new, worst, failed>>
vars == <<open, prog, en, rows, seq, chk, handler, oos, clean>>

Row(p, on) == [p |-> p, on |-> on]
RowsOf(p, run, c) == [s \in {x \in SlotsOf(p) : TxCard[x] = c} |-> Row(p, run[s])]
AllOff == [s \in Slots |-> FALSE]
Unseen == [seen |-> FALSE, exp |-> 0, bogus |-> FALSE]
Running(s) == TxCard[s] \in open /\ s \in DOMAIN live[TxCard[s]] /\ live[TxCard[s]][s].on

\* Backend operations: fields an operation does not use have a fixed value.
CardOp(name, c) == [op |-> name, card |-> c, slot |-> 0, on |-> FALSE, keep |-> FALSE]
SetEnable(s, on, keep) == [op |-> "set", card |-> 0, slot |-> s, on |-> on, keep |-> keep]

EachCard(name) == [i \in 1..NumCards |-> CardOp(name, i - 1)]
EnableAll(p, on, keep) == [i \in 1..Len(FlowsOf[p]) |-> SetEnable(FlowsOf[p][i], on, keep)]

\* Per card a soft reset, which its tables follow; then prime.
program_backends == EachCard("DP_RESET") \o EachCard("prime")
-----------------------------------------------------------------------------
\* The daemon starts with a programmed configuration, all flows idle unless -a.
Init ==
  /\ open \in SUBSET Cards \ {{}}      \* all of them, unless --allow-fake
  /\ prog \in {p \in Programs : \A c \in Cards : Cardinality(DOMAIN RowsOf(p, AllOff, c)) <= NUM_ROWS}
  /\ en \in {AllOff, [s \in Slots |-> s \in SlotsOf(prog)]}      \* g_gen_autostart
  /\ live = [c \in Cards |-> IF c \in open THEN RowsOf(prog, en, c) ELSE <<>>] /\ stg = live
  /\ seq = [s \in Slots |-> 0] /\ chk = [s \in Slots |-> Unseen]
  /\ ops = <<>> /\ rpc = "none" /\ new = prog /\ worst = "OK" /\ failed = FALSE
  /\ oos = FALSE /\ clean = FALSE

\* A generator sends a frame; the checker of its receiving card looks at it.
\* Every frame arrives, so whatever is not in sequence is a false alarm.
Send(s) ==
  /\ Running(s) /\ seq[s] < MaxSeq
  /\ seq' = [seq EXCEPT ![s] = @ + 1]
  /\ chk' = IF RxCard[s] \in open
            THEN [chk EXCEPT ![s] = [seen |-> TRUE, exp |-> IF @.seen /\ seq[s] < @.exp
                                                            THEN @.exp ELSE seq[s] + 1,
                                     bogus |-> @.bogus \/ (@.seen /\ seq[s] # @.exp)]]
            ELSE chk
  /\ UNCHANGED <<open, prog, en, rows, handler, oos, clean>>
-----------------------------------------------------------------------------
\* The start of an RPC.
Handle(name, p, script) ==
  /\ rpc = "none"
  /\ rpc' = name /\ new' = p /\ ops' = script /\ worst' = "OK" /\ failed' = FALSE
  /\ UNCHANGED <<open, prog, en, rows, seq, chk, oos, clean>>

TestArm == Handle("test.arm", prog, program_backends)
TestStart == Handle("test.start", prog, EnableAll(prog, TRUE, TRUE))
TestStop == Handle("test.stop", prog, EnableAll(prog, FALSE, TRUE))
FlowStart(s) == Handle("flow.start", prog, <<SetEnable(s, TRUE, TRUE)>>)
FlowStop(s) == Handle("flow.stop", prog, <<SetEnable(s, FALSE, TRUE)>>)
StatsClearRpc == Handle("stats.clear", prog, EachCard("STATS_CLEAR"))

\* config.load first stops the running flows on the cards only.  A body that
\* does not parse, validate or compile changes nothing.
ConfigLoad(p) == Handle("quiesce", p, EnableAll(prog, FALSE, FALSE))
-----------------------------------------------------------------------------
\* One backend operation of the current RPC.
At == Head(ops).card
Operation(name) == ops # <<>> /\ Head(ops).op = name /\ (name = "set" \/ At \in open)

\* A card whose backend did not open is passed over.
PassOver ==
  /\ ops # <<>> /\ Head(ops).op # "set" /\ At \notin open
  /\ ops' = Tail(ops)
  /\ UNCHANGED <<open, prog, en, rows, seq, chk, rpc, new, worst, failed, oos, clean>>

\* Soft reset of the data plane: the generators restart at sequence 0, the
\* flow table, the records and the staged rows survive.
DoReset ==
  /\ Operation("DP_RESET") /\ ops' = <<CardOp("tables", At)>> \o Tail(ops)
  /\ seq' = [s \in Slots |-> IF TxCard[s] = At THEN 0 ELSE seq[s]]
  /\ clean' = FALSE
  /\ UNCHANGED <<open, prog, en, rows, chk, rpc, new, worst, failed, oos>>

MutStaged == IF rpc = "config.load" THEN RowsOf(new, [s \in Slots |-> TRUE], At)
             ELSE RowsOf(prog, en, At)

\* The rows to write: those of the new program, forced idle, or the view's.
Staged == IF rpc = "config.load" THEN RowsOf(new, AllOff, At) ELSE RowsOf(prog, en, At)
Fits == Cardinality(DOMAIN Staged) <= NUM_ROWS
Worst(status) == worst' = IF worst = "OK" THEN status ELSE worst

TablesRejected ==
  /\ Operation("tables") /\ ~Fits /\ ops' = Tail(ops)
  /\ Worst("NO_RESOURCES")
  /\ UNCHANGED <<open, prog, en, rows, seq, chk, rpc, new, failed, oos, clean>>

TablesCommitted ==
  /\ Operation("tables") /\ Fits /\ ops' = Tail(ops)
  /\ stg' = [stg EXCEPT ![At] = Staged] /\ live' = [live EXCEPT ![At] = Staged]
  /\ UNCHANGED <<open, prog, en, seq, chk, rpc, new, worst, failed, oos, clean>>

CommitFails ==
  /\ Operation("tables") /\ Fits /\ ops' = Tail(ops)
  /\ stg' = [stg EXCEPT ![At] = Staged] /\ Worst("IO")
  /\ UNCHANGED <<open, prog, en, live, seq, chk, rpc, new, failed, oos, clean>>

\* set_flow_enable: the row goes to the card first; only then, and only if
\* asked to, the view follows.
SetFlowEnable ==
  LET s == Head(ops).slot
      c == TxCard[s]
      rowset == [x \in DOMAIN stg[c] \cup {s} |-> IF x = s THEN Row(prog, Head(ops).on)
                                                  ELSE stg[c][x]]
  IN  /\ Operation("set") /\ ops' = Tail(ops)
      /\ IF s \notin SlotsOf(prog) \/ c \notin open
         THEN failed' = TRUE /\ UNCHANGED <<rows, en>>
         ELSE /\ stg' = [stg EXCEPT ![c] = rowset] /\ live' = [live EXCEPT ![c] = rowset]
              /\ en' = IF Head(ops).keep THEN [en EXCEPT ![s] = Head(ops).on] ELSE en
              /\ UNCHANGED failed
      /\ UNCHANGED <<open, prog, seq, chk, rpc, new, worst, oos, clean>>

ClearCard(c) == chk' = [s \in Slots |-> IF RxCard[s] = c THEN Unseen ELSE chk[s]]

DoStatsClear ==
  /\ Operation("STATS_CLEAR") /\ ClearCard(At) /\ ops' = Tail(ops)
  /\ UNCHANGED <<open, prog, en, rows, seq, rpc, new, worst, failed, oos, clean>>

\* prime_lat_correction clears a card that receives cross-card flows, and only
\* when each of their slots got its correction.
Loaded == IF rpc = "config.load" THEN new ELSE prog
HasCross(p, c) == \E s \in SlotsOf(p) : RxCard[s] = c /\ TxCard[s] \in open \ {c}

DoPrime ==
  /\ Operation("prime") /\ ops' = Tail(ops)
  /\ (HasCross(Loaded, At) /\ ClearCard(At)) \/ UNCHANGED chk
  /\ UNCHANGED <<open, prog, en, rows, seq, rpc, new, worst, failed, oos, clean>>
-----------------------------------------------------------------------------
\* What follows when the operations of a phase are done.
Done(name) == rpc = name /\ ops = <<>>
Answer == rpc' = "none" /\ UNCHANGED <<open, rows, seq, chk, ops, new, worst, failed>>
Continue(name, script) ==
  /\ rpc' = name /\ ops' = script /\ worst' = "OK"
  /\ UNCHANGED <<open, prog, en, rows, seq, chk, new, failed, clean>>

\* test.arm: counters are cleared only behind a successful programming.
ArmProgrammed ==
  /\ Done("test.arm") /\ worst = "OK"
  /\ Continue("baseline", EachCard("STATS_CLEAR")) /\ oos' = FALSE
ArmFailed ==
  /\ Done("test.arm") /\ worst # "OK"
  /\ Answer /\ oos' = TRUE /\ UNCHANGED <<prog, en, clean>>

MutStartEnabled ==       \* the counters are cleared by prime only
  /\ Done("test.start") /\ ~failed
  /\ Continue("baseline", EachCard("prime")) /\ UNCHANGED oos

StartEnabled ==
  /\ Done("test.start") /\ ~failed
  /\ Continue("baseline", EachCard("prime") \o EachCard("STATS_CLEAR")) /\ UNCHANGED oos
StartFailed ==
  /\ Done("test.start") /\ failed
  /\ Answer /\ UNCHANGED <<prog, en, oos, clean>>
Baseline ==
  /\ Done("baseline")
  /\ Answer /\ clean' = TRUE /\ UNCHANGED <<prog, en, oos>>

\* config.load: with the flows quiet, the new program goes to the cards.
Stage ==
  /\ Done("quiesce")
  /\ Continue("config.load", program_backends) /\ UNCHANGED oos

Swap ==
  /\ Done("config.load") /\ worst = "OK"
  /\ prog' = new /\ en' = AllOff
  /\ Answer /\ oos' = FALSE /\ UNCHANGED clean

MutRollBack ==           \* the failed load is only reported
  /\ Done("config.load") /\ worst # "OK"
  /\ Answer /\ UNCHANGED <<prog, en, oos, clean>>

RollBack ==
  /\ Done("config.load") /\ worst # "OK"
  /\ Continue("rollback", program_backends) /\ UNCHANGED oos
RolledBack ==
  /\ Done("rollback")
  /\ Answer /\ oos' = (worst # "OK") /\ UNCHANGED <<prog, en, clean>>
Finished ==
  /\ \E name \in {"test.stop", "flow.start", "flow.stop", "stats.clear"} : Done(name)
  /\ Answer /\ UNCHANGED <<prog, en, oos, clean>>

Next ==
  \/ \E s \in Slots : Send(s) \/ FlowStart(s) \/ FlowStop(s)
  \/ TestArm \/ TestStart \/ TestStop \/ StatsClearRpc \/ \E p \in Programs : ConfigLoad(p)
  \/ PassOver \/ DoReset \/ TablesRejected \/ TablesCommitted \/ CommitFails \/ SetFlowEnable
  \/ DoStatsClear \/ DoPrime
  \/ ArmProgrammed \/ ArmFailed \/ StartEnabled \/ StartFailed \/ Baseline
  \/ Stage \/ Swap \/ RollBack \/ RolledBack \/ Finished

Spec == Init /\ [][Next]_vars
-----------------------------------------------------------------------------

(* Between two RPCs, unless the daemon has reported that the device may be *)
(* out of sync, each card runs exactly the rows the daemon reports: same   *)
(* program, same run state, also after a load that failed half way and was *)
(* rolled back (main.c:818-851).                                           *)
ViewMatches ==
  rpc = "none" /\ ~oos => \A c \in open : live[c] = RowsOf(prog, en, c)

(* A generator that sends is always one the daemon reports as enabled, in  *)
(* the middle of an RPC and after failed programmings too: "starting the   *)
(* daemon or loading a config never puts traffic on the wire by surprise"  *)
(* (main.c:360).                                                           *)
RunningIsReported ==
  \A s \in Slots : Running(s) => /\ live[TxCard[s]][s].p = prog /\ en[s]

(* From a test.start or test.arm that succeeded until the next soft reset  *)
(* the checkers report no frame lost, repeated or out of order when none   *)
(* is, whatever was loaded, started and stopped before (main.c:2254-2268). *)
TruthfulBaseline == clean => \A s \in Slots : ~chk[s].bogus
=============================================================================
