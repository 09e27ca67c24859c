------------------------ MODULE DaemonControl_proofs ------------------------
(***************************************************************************)
(* Proofs about the control RPCs, for every number of cards, every         *)
(* capacity and all programs: the daemon's view matches the cards between  *)
(* RPCs, nothing transmits that the daemon does not report as enabled, and *)
(* a measurement baseline shows no false loss.                             *)
(***************************************************************************)
EXTENDS DaemonControl, TLAPS

(* A leaf goes to SMT, then to Zenon, and to Z3 with a fresh translation last. *)
USE SMTT(30), Zenon, Z3T(30)

-----------------------------------------------------------------------------
(* The inductive invariant. *)

\* The operations that remain of the current phase.
Elems(q) == {q[i] : i \in 1..Len(q)}
Rem == Elems(ops)

\* The phases of the RPCs by what they execute.
Programming == {"test.arm", "config.load", "rollback"}
Switching == {"test.start", "test.stop", "flow.start", "flow.stop"}
Settled == Switching \cup {"none", "stats.clear", "baseline"}

CardOps == {"DP_RESET", "tables", "STATS_CLEAR", "prime"}
TableRows == UNION {[d -> [p : Programs, on : BOOLEAN]] : d \in SUBSET Slots}
Operations == [op : CardOps \cup {"set"}, card : Int, slot : Slots \cup {0},
               on : BOOLEAN, keep : BOOLEAN]

TypeOK ==
  /\ open \subseteq Cards /\ prog \in Programs /\ new \in Programs
  /\ en \in [Slots -> BOOLEAN] /\ seq \in [Slots -> Nat]
  /\ chk \in [Slots -> [seen : BOOLEAN, exp : Nat, bogus : BOOLEAN]]
  /\ ops \in Seq(Operations)
  /\ rpc \in Settled \cup Programming \cup {"quiesce"}
  /\ oos \in BOOLEAN
  /\ stg \in [Cards -> TableRows] /\ live \in [Cards -> TableRows]

\* An open card's tables hold rows of the slots it transmits, and a row that is on
\* is one the daemon reports: the staged rows too, for they go live with the
\* next commit.
Reported(rowset, c, p, run) ==
  \A s \in DOMAIN rowset :
    /\ s \in Slots /\ TxCard[s] = c
    /\ rowset[s].on => rowset[s].p = p /\ run[s]
RowsReported == \A c \in open : Reported(stg[c], c, prog, en) /\ Reported(live[c], c, prog, en)

\* What the operations of a phase can be.
Suits(o, phase) ==
  \/ phase \in Programming /\ o.op \in {"DP_RESET", "tables", "prime"}
  \/ phase \in Switching /\ o.op = "set" /\ o.slot \in Slots /\ o.keep
  \/ phase = "quiesce" /\ o.op = "set" /\ o.slot \in Slots /\ ~o.keep /\ ~o.on
  \/ phase = "stats.clear" /\ o.op = "STATS_CLEAR"
  \/ phase = "baseline" /\ o.op \in {"STATS_CLEAR", "prime"}
OpsSuit == \A o \in Rem : Suits(o, rpc)

\* While a program is written, a card has its rows or they are still to come.
Written(c, p, run) == stg[c] = RowsOf(p, run, c) /\ live[c] = RowsOf(p, run, c)
Pending(c) == \E o \in Rem : o.card = c /\ o.op \in {"DP_RESET", "tables"}
CardsFollow ==
  \A c \in open :
    /\ rpc \in Settled /\ ~oos => Written(c, prog, en)
    /\ rpc \in {"test.arm", "rollback"} /\ worst = "OK" => Pending(c) \/ Written(c, prog, en)
    /\ rpc = "config.load" /\ worst = "OK" => Pending(c) \/ Written(c, new, AllOff)

\* A checker that expects what its generator sends next; during the baseline
\* the others are still to be cleared.
Aligned(s) == ~chk[s].bogus /\ (chk[s].seen => chk[s].exp = seq[s])
ToClear(s) == \E o \in Rem : o.op = "STATS_CLEAR" /\ o.card = RxCard[s]
CheckersFollow ==
  /\ \A s \in Slots : RxCard[s] \notin open => chk[s] = Unseen
  /\ clean => \A s \in Slots : Aligned(s)
  /\ rpc = "baseline" => \A s \in Slots : Aligned(s) \/ ToClear(s)

IInv == TypeOK /\ RowsReported /\ OpsSuit /\ CardsFollow /\ CheckersFollow

-----------------------------------------------------------------------------
(* Scripts. *)

LEMMA TakeHead ==
  ASSUME NEW S, NEW q \in Seq(S), q # <<>>
  PROVE  /\ Head(q) \in S /\ Tail(q) \in Seq(S)
         /\ Elems(q) = {Head(q)} \cup Elems(Tail(q))
<1>1. Len(q) \in Nat \ {0} /\ Head(q) = q[1] /\ q[1] \in S /\ Tail(q) \in Seq(S)
  OBVIOUS
<1>2. Len(Tail(q)) = Len(q) - 1 /\ \A i \in 1..(Len(q) - 1) : Tail(q)[i] = q[i + 1]
  OBVIOUS
<1>3. ASSUME NEW x \in Elems(q) PROVE x = Head(q) \/ x \in Elems(Tail(q))
  <2>1. PICK i \in 1..Len(q) : x = q[i]
    BY <1>3 DEF Elems
  <2>2. CASE i = 1
    BY <1>1, <2>1, <2>2
  <2>3. CASE i # 1
    <3>1. i - 1 \in 1..Len(Tail(q)) /\ Tail(q)[i - 1] = x
      BY <1>1, <1>2, <2>1, <2>3
    <3> QED  BY Zenon, <3>1 DEF Elems
  <2> QED  BY <2>2, <2>3
<1>4. ASSUME NEW x \in Elems(Tail(q)) PROVE x \in Elems(q)
  <2>1. PICK i \in 1..Len(Tail(q)) : x = Tail(q)[i]
    BY <1>4 DEF Elems
  <2>2. i + 1 \in 1..Len(q) /\ q[i + 1] = x
    BY <1>1, <1>2, <2>1
  <2> QED  BY Zenon, <2>2 DEF Elems
<1>5. Head(q) \in Elems(q)
  BY <1>1 DEF Elems
<1> QED  BY <1>1, <1>3, <1>4, <1>5

LEMMA EmptyScript == Elems(<<>>) = {}
BY DEF Elems

LEMMA JoinScripts ==
  ASSUME NEW S, NEW q \in Seq(S), NEW r \in Seq(S)
  PROVE  q \o r \in Seq(S) /\ Elems(q \o r) = Elems(q) \cup Elems(r)
<1>1. /\ q \o r \in Seq(S) /\ Len(q) \in Nat /\ Len(r) \in Nat
      /\ Len(q \o r) = Len(q) + Len(r)
      /\ \A i \in 1..(Len(q) + Len(r)) :
           (q \o r)[i] = IF i <= Len(q) THEN q[i] ELSE r[i - Len(q)]
  OBVIOUS
<1>2. ASSUME NEW x \in Elems(q \o r) PROVE x \in Elems(q) \/ x \in Elems(r)
  <2>1. PICK i \in 1..(Len(q) + Len(r)) : x = (q \o r)[i]
    BY <1>1, <1>2 DEF Elems
  <2>2. CASE i <= Len(q)
    <3>1. i \in 1..Len(q) /\ x = q[i]
      BY <1>1, <2>1, <2>2
    <3> QED  BY Zenon, <3>1 DEF Elems
  <2>3. CASE ~(i <= Len(q))
    <3>1. i - Len(q) \in 1..Len(r) /\ x = r[i - Len(q)]
      BY <1>1, <2>1, <2>3
    <3> QED  BY Zenon, <3>1 DEF Elems
  <2> QED  BY <2>2, <2>3
<1>3. ASSUME NEW x \in Elems(q) PROVE x \in Elems(q \o r)
  <2>1. PICK i \in 1..Len(q) : x = q[i]
    BY <1>3 DEF Elems
  <2>2. i \in 1..Len(q \o r) /\ (q \o r)[i] = x
    BY <1>1, <2>1
  <2> QED  BY Zenon, <2>2 DEF Elems
<1>4. ASSUME NEW x \in Elems(r) PROVE x \in Elems(q \o r)
  <2>1. PICK i \in 1..Len(r) : x = r[i]
    BY <1>4 DEF Elems
  <2>2. Len(q) + i \in 1..Len(q \o r) /\ (q \o r)[Len(q) + i] = x
    BY <1>1, <2>1
  <2> QED  BY Zenon, <2>2 DEF Elems
<1> QED  BY <1>1, <1>2, <1>3, <1>4

LEMMA OneScript ==
  ASSUME NEW S, NEW x \in S PROVE <<x>> \in Seq(S) /\ Elems(<<x>>) = {x}
<1>1. <<x>> \in Seq(S) /\ Len(<<x>>) = 1 /\ <<x>>[1] = x
  OBVIOUS
<1> QED  BY <1>1 DEF Elems

\* An operation put in front of the others.
LEMMA PushScript ==
  ASSUME NEW S, NEW x \in S, NEW q \in Seq(S)
  PROVE  <<x>> \o q \in Seq(S) /\ Elems(<<x>> \o q) = {x} \cup Elems(q)
<1> DEFINE one == <<x>>
<1>1. one \in Seq(S) /\ Elems(one) = {x}
  BY OneScript
<1> HIDE DEF one
<1>2. one \o q \in Seq(S) /\ Elems(one \o q) = Elems(one) \cup Elems(q)
  BY <1>1, JoinScripts
<1> QED  BY Zenon, <1>1, <1>2 DEF one

LEMMA CardOpType ==
  ASSUME NEW name \in CardOps, NEW c \in Int
  PROVE  /\ CardOp(name, c) \in Operations
         /\ CardOp(name, c).op = name /\ CardOp(name, c).card = c
BY DEF CardOp, Operations

LEMMA EachCardScript ==
  ASSUME NEW name \in CardOps
  PROVE  /\ EachCard(name) \in Seq(Operations)
         /\ \A o \in Elems(EachCard(name)) : o \in Operations /\ o.op = name
         /\ \A c \in Cards : \E o \in Elems(EachCard(name)) : o.op = name /\ o.card = c
<1>1. NumCards \in Nat /\ NumCards >= 1
  BY CardsAssumption
<1>2. \A i \in 1..NumCards : CardOp(name, i - 1) \in Operations /\ CardOp(name, i - 1).op = name
  BY <1>1, CardOpType
<1>3. EachCard(name) \in Seq(Operations) /\ Len(EachCard(name)) = NumCards
  BY <1>1, <1>2 DEF EachCard
<1>4. \A i \in 1..NumCards : EachCard(name)[i] = CardOp(name, i - 1)
  BY <1>1 DEF EachCard
<1>5. ASSUME NEW c \in Cards PROVE \E o \in Elems(EachCard(name)) : o.op = name /\ o.card = c
  <2>1. c + 1 \in 1..NumCards /\ c \in Int /\ (c + 1) - 1 = c
    BY <1>1 DEF Cards
  <2>2. EachCard(name)[c + 1] = CardOp(name, c)
    BY <1>4, <2>1
  <2>3. CardOp(name, c) \in Elems(EachCard(name))
    BY <1>3, <2>1, <2>2, Zenon DEF Elems
  <2> QED  BY Zenon, <2>1, <2>3, CardOpType
<1>6. ASSUME NEW o \in Elems(EachCard(name)) PROVE o \in Operations /\ o.op = name
  <2>1. PICK i \in 1..NumCards : o = EachCard(name)[i]
    BY <1>3, <1>6 DEF Elems
  <2> QED  BY Zenon, <1>2, <1>4, <2>1
<1> QED  BY Zenon, <1>3, <1>5, <1>6

LEMMA FlowSlots ==
  ASSUME NEW p \in Programs PROVE FlowsOf[p] \in Seq(Slots) /\ SlotsOf(p) \subseteq Slots
BY SlotAssumption DEF SlotsOf

LEMMA SetEnableType ==
  ASSUME NEW s \in Slots, NEW on \in BOOLEAN, NEW keep \in BOOLEAN
  PROVE  LET o == SetEnable(s, on, keep)
         IN  o \in Operations /\ o.op = "set" /\ o.slot = s /\ o.on = on /\ o.keep = keep
BY DEF SetEnable, Operations

LEMMA EnableScript ==
  ASSUME NEW p \in Programs, NEW on \in BOOLEAN, NEW keep \in BOOLEAN
  PROVE  /\ EnableAll(p, on, keep) \in Seq(Operations)
         /\ \A o \in Elems(EnableAll(p, on, keep)) :
              o \in Operations /\ o.op = "set" /\ o.slot \in Slots /\ o.on = on /\ o.keep = keep
<1> DEFINE n == Len(FlowsOf[p])
           q == EnableAll(p, on, keep)
<1>1. n \in Nat /\ \A i \in 1..n : FlowsOf[p][i] \in Slots
  BY FlowSlots
<1> HIDE DEF n
<1>2. q = [i \in 1..n |-> SetEnable(FlowsOf[p][i], on, keep)]
  BY DEF EnableAll, n
<1>3. \A i \in 1..n : SetEnable(FlowsOf[p][i], on, keep) \in Operations
  BY Zenon, <1>1, SetEnableType
<1>4. q \in Seq(Operations) /\ Len(q) = n
  BY <1>1, <1>2, <1>3
<1>5. ASSUME NEW o \in Elems(q)
      PROVE  o \in Operations /\ o.op = "set" /\ o.slot \in Slots /\ o.on = on /\ o.keep = keep
  <2>1. PICK i \in 1..n : o = q[i]
    BY <1>4, <1>5, Zenon DEF Elems
  <2>2. o = SetEnable(FlowsOf[p][i], on, keep) /\ FlowsOf[p][i] \in Slots
    BY Zenon, <1>1, <1>2, <2>1
  <2> QED  BY <2>2, SetEnableType
<1> QED  BY <1>4, <1>5

LEMMA ProgramScript ==
  /\ program_backends \in Seq(Operations)
  /\ \A name \in Programming : \A o \in Elems(program_backends) : Suits(o, name)
  /\ \A c \in Cards : \E o \in Elems(program_backends) :
       o.card = c /\ o.op \in {"DP_RESET", "tables"}
<1>1. "DP_RESET" \in CardOps /\ "prime" \in CardOps
  BY DEF CardOps
<1>2. /\ program_backends \in Seq(Operations)
      /\ Elems(program_backends) = Elems(EachCard("DP_RESET")) \cup Elems(EachCard("prime"))
  <2>1. EachCard("DP_RESET") \in Seq(Operations) /\ EachCard("prime") \in Seq(Operations)
    BY Zenon, <1>1, EachCardScript
  <2> QED  BY Zenon, <2>1, JoinScripts DEF program_backends
<1>3. \A o \in Elems(program_backends) : o.op = "DP_RESET" \/ o.op = "prime"
  BY Zenon, <1>1, <1>2, EachCardScript
<1>4. ASSUME NEW c \in Cards
      PROVE  \E o \in Elems(program_backends) : o.card = c /\ o.op \in {"DP_RESET", "tables"}
  BY Zenon, <1>1, <1>2, EachCardScript
<1> QED  BY Zenon, <1>2, <1>3, <1>4 DEF Suits

-----------------------------------------------------------------------------
(* Tables. *)

LEMMA CardsType == open \subseteq Cards => \A c \in open : c \in Cards /\ c \in Int
BY CardsAssumption DEF Cards

SlotsAt(p, c) == {s \in SlotsOf(p) : TxCard[s] = c}

LEMMA RowsOfRows ==
  ASSUME NEW p, NEW run, NEW c
  PROVE  /\ DOMAIN RowsOf(p, run, c) = SlotsAt(p, c)
         /\ \A s \in SlotsAt(p, c) : RowsOf(p, run, c)[s] = Row(p, run[s])
BY DEF RowsOf, SlotsAt

LEMMA SlotsAtType ==
  ASSUME NEW p \in Programs, NEW c
  PROVE  \A s \in SlotsAt(p, c) : s \in Slots /\ TxCard[s] = c
BY Zenon, FlowSlots DEF SlotsAt

LEMMA RowsOfType ==
  ASSUME NEW p \in Programs, NEW run \in [Slots -> BOOLEAN], NEW c
  PROVE  RowsOf(p, run, c) \in TableRows
<1> DEFINE d == SlotsAt(p, c)
<1>1. d \subseteq Slots
  BY Zenon, SlotsAtType
<1>2. \A s \in d : Row(p, run[s]) \in [p : Programs, on : BOOLEAN]
  BY <1>1 DEF Row
<1>3. RowsOf(p, run, c) = [s \in d |-> Row(p, run[s])]
  BY DEF RowsOf, SlotsAt
<1> HIDE DEF d
<1>4. RowsOf(p, run, c) \in [d -> [p : Programs, on : BOOLEAN]]
  BY <1>2, <1>3
<1> QED  BY Zenon, <1>1, <1>4 DEF TableRows

\* The rows of a program that the daemon reports, or that are all off.
LEMMA RowsOfReported ==
  ASSUME NEW p \in Programs, NEW run, NEW c, NEW q, NEW view,
         (p = q /\ run = view) \/ run = AllOff
  PROVE  Reported(RowsOf(p, run, c), c, q, view)
<1> DEFINE t == RowsOf(p, run, c)
<1>0. DOMAIN t = SlotsAt(p, c) /\ \A s \in SlotsAt(p, c) : t[s] = Row(p, run[s])
  BY RowsOfRows
<1> HIDE DEF t
<1> SUFFICES ASSUME NEW s \in DOMAIN t
             PROVE  s \in Slots /\ TxCard[s] = c /\ (t[s].on => t[s].p = q /\ view[s])
  BY Zenon DEF Reported, t
<1>1. s \in SlotsAt(p, c) /\ TxCard[s] = c /\ s \in Slots
  BY Zenon, <1>0, SlotsAtType
<1>2. t[s].p = p /\ t[s].on = run[s]
  BY <1>0, <1>1 DEF Row
<1>3. ~AllOff[s]
  BY <1>1 DEF AllOff
<1> QED  BY Zenon, <1>1, <1>2, <1>3

LEMMA AllOffType == AllOff \in [Slots -> BOOLEAN]
BY DEF AllOff

\* One row of a table rewritten.
Rewrite(t, s, row) == [x \in DOMAIN t \cup {s} |-> IF x = s THEN row ELSE t[x]]

LEMMA RewriteType ==
  ASSUME NEW t \in TableRows, NEW s \in Slots, NEW row \in [p : Programs, on : BOOLEAN]
  PROVE  Rewrite(t, s, row) \in TableRows
<1>1. PICK d \in SUBSET Slots : t \in [d -> [p : Programs, on : BOOLEAN]]
  BY Zenon DEF TableRows
<1>2. Rewrite(t, s, row) \in [d \cup {s} -> [p : Programs, on : BOOLEAN]]
  BY <1>1 DEF Rewrite
<1>3. d \cup {s} \in SUBSET Slots
  OBVIOUS
<1> QED  BY Zenon, <1>2, <1>3 DEF TableRows

\* Rewriting a row of the program with a new run state gives the program's
\* rows in the new run state.
LEMMA RewriteRows ==
  ASSUME NEW p \in Programs, NEW run, NEW view, NEW s \in SlotsOf(p), NEW c, c = TxCard[s],
         \A x \in Slots \ {s} : view[x] = run[x]
  PROVE  Rewrite(RowsOf(p, run, c), s, Row(p, view[s])) = RowsOf(p, view, c)
<1>1. s \in Slots /\ SlotsOf(p) \subseteq Slots
  BY FlowSlots
<1> QED  BY <1>1 DEF Rewrite, RowsOf

LEMMA RowsElsewhere ==
  ASSUME NEW p \in Programs, NEW run, NEW view, NEW s, NEW d, d # TxCard[s],
         \A x \in Slots \ {s} : view[x] = run[x]
  PROVE  RowsOf(p, view, d) = RowsOf(p, run, d)
<1>1. SlotsOf(p) \subseteq Slots
  BY FlowSlots
<1> QED  BY <1>1 DEF RowsOf

LEMMA RewriteReported ==
  ASSUME NEW t, NEW p, NEW run \in [Slots -> BOOLEAN], NEW s \in Slots, NEW on \in BOOLEAN,
         NEW view \in [Slots -> BOOLEAN], Reported(t, TxCard[s], p, run),
         \A x \in Slots \ {s} : view[x] = run[x], on => view[s]
  PROVE  Reported(Rewrite(t, s, Row(p, on)), TxCard[s], p, view)
<1> DEFINE w == Rewrite(t, s, Row(p, on))
<1>1. DOMAIN w = DOMAIN t \cup {s}
  BY DEF Rewrite
<1>2. w[s] = Row(p, on) /\ \A x \in DOMAIN t : x # s => w[x] = t[x]
  BY DEF Rewrite
<1>3. Row(p, on).p = p /\ Row(p, on).on = on
  BY DEF Row
<1> HIDE DEF w
<1>4. ASSUME NEW x \in DOMAIN w
      PROVE  x \in Slots /\ TxCard[x] = TxCard[s] /\ (w[x].on => w[x].p = p /\ view[x])
  <2>1. CASE x = s
    BY Zenon, <1>2, <1>3, <2>1
  <2>2. CASE x # s
    <3>1. x \in DOMAIN t /\ w[x] = t[x]
      BY Zenon, <1>1, <1>2, <1>4, <2>2
    <3>2. x \in Slots /\ TxCard[x] = TxCard[s] /\ (t[x].on => t[x].p = p /\ run[x])
      BY Zenon, <3>1 DEF Reported
    <3>3. view[x] = run[x]
      BY Zenon, <3>2, <2>2
    <3> QED  BY Zenon, <3>1, <3>2, <3>3
  <2> QED  BY Zenon, <2>1, <2>2
<1> QED  BY Zenon, <1>4 DEF Reported, w

-----------------------------------------------------------------------------
(* The initial state. *)

LEMMA NoRowsType == <<>> \in TableRows /\ DOMAIN <<>> = {}
<1>1. DOMAIN <<>> = {}
  OBVIOUS
<1>2. <<>> \in [{} -> [p : Programs, on : BOOLEAN]]
  OBVIOUS
<1>3. {} \in SUBSET Slots
  OBVIOUS
<1> QED  BY <1>1, <1>2, <1>3 DEF TableRows

LEMMA UnseenType == Unseen \in [seen : BOOLEAN, exp : Nat, bogus : BOOLEAN]
BY DEF Unseen

LEMMA InitIInv == Init => IInv
<1> SUFFICES ASSUME Init PROVE IInv
  OBVIOUS
<1>1. open \subseteq Cards /\ prog \in Programs /\ new = prog /\ ops = <<>> /\ rpc = "none"
      /\ clean = FALSE /\ oos = FALSE
  BY DEF Init
<1>2. en \in [Slots -> BOOLEAN]
  <2>1. [s \in Slots |-> s \in SlotsOf(prog)] \in [Slots -> BOOLEAN]
    OBVIOUS
  <2> QED  BY Zenon, <2>1, AllOffType DEF Init
<1>3. ASSUME NEW c \in Cards
      PROVE  /\ live[c] = IF c \in open THEN RowsOf(prog, en, c) ELSE <<>>
             /\ stg[c] = live[c] /\ live[c] \in TableRows /\ Reported(live[c], c, prog, en)
  <2>1. live[c] = (IF c \in open THEN RowsOf(prog, en, c) ELSE <<>>) /\ stg[c] = live[c]
    BY DEF Init
  <2>2. Reported(<<>>, c, prog, en)
    BY Zenon, NoRowsType DEF Reported
  <2>3. RowsOf(prog, en, c) \in TableRows /\ Reported(RowsOf(prog, en, c), c, prog, en)
    BY <1>1, <1>2, RowsOfType, RowsOfReported
  <2> QED  BY Zenon, <2>1, <2>2, <2>3, NoRowsType
<1>4. live = [c \in Cards |-> live[c]] /\ stg = live
  BY DEF Init
<1>5. live \in [Cards -> TableRows] /\ stg \in [Cards -> TableRows]
  BY <1>3, <1>4
<1>6. \A s \in Slots : seq[s] = 0 /\ chk[s] = Unseen
  BY DEF Init
<1>7. seq \in [Slots -> Nat] /\ chk \in [Slots -> [seen : BOOLEAN, exp : Nat, bogus : BOOLEAN]]
  BY UnseenType DEF Init
<1>8. ops \in Seq(Operations) /\ Rem = {} /\ rpc \in Settled
  BY <1>1, EmptyScript DEF Rem, Settled
<1>9. TypeOK
  BY <1>1, <1>2, <1>5, <1>7, <1>8 DEF TypeOK
<1>10. RowsReported
  BY Zenon, <1>1, <1>3 DEF RowsReported
<1>11. CardsFollow
  <2>1. rpc \notin {"test.arm", "rollback", "config.load"}
    BY <1>1
  <2> QED  BY Zenon, <1>1, <1>3, <2>1 DEF CardsFollow, Written
<1>12. CheckersFollow
  <2>1. rpc # "baseline"
    BY <1>1
  <2> QED  BY Zenon, <1>1, <1>6, <2>1 DEF CheckersFollow
<1> QED  BY Zenon, <1>8, <1>9, <1>10, <1>11, <1>12 DEF IInv, OpsSuit

-----------------------------------------------------------------------------
(* The start of an RPC or of its next phase, and its answer. *)

\* A card that did not open has no checker to disturb.
LEMMA ClosedAligned ==
  ASSUME CheckersFollow, NEW s \in Slots, RxCard[s] \notin open PROVE Aligned(s)
<1>1. chk[s] = Unseen
  BY Zenon DEF CheckersFollow
<1> QED  BY <1>1 DEF Aligned, Unseen

LEMMA HandleIInv ==
  ASSUME IInv, NEW name \in Switching \cup {"test.arm", "quiesce", "stats.clear"},
         NEW p \in Programs, NEW script \in Seq(Operations),
         \A o \in Elems(script) : Suits(o, name),
         name = "test.arm" => \A c \in Cards : \E o \in Elems(script) :
                                o.card = c /\ o.op \in {"DP_RESET", "tables"},
         Handle(name, p, script)
  PROVE  IInv'
<1>1. /\ rpc = "none" /\ rpc' = name /\ new' = p /\ ops' = script
      /\ open' = open /\ prog' = prog /\ en' = en /\ stg' = stg /\ live' = live
      /\ seq' = seq /\ chk' = chk /\ oos' = oos /\ clean' = clean
  BY Zenon DEF Handle, rows
<1>2. /\ name \in Settled \cup Programming \cup {"quiesce"}
      /\ name # "config.load" /\ name # "rollback" /\ name # "baseline"
      /\ rpc \in Settled
      /\ "test.arm" \notin Settled /\ "quiesce" \notin Settled
  BY <1>1 DEF Settled, Programming, Switching
<1>3. TypeOK'
  BY Zenon, <1>1, <1>2 DEF IInv, TypeOK
<1>4. RowsReported'
  BY Zenon, <1>1 DEF IInv, RowsReported
<1>5. OpsSuit'
  BY Zenon, <1>1 DEF OpsSuit, Rem
<1>6. CardsFollow'
  <2>1. \A c \in open : c \in Cards
    BY DEF IInv, TypeOK
  <2>2. ASSUME NEW c \in open, name = "test.arm" PROVE Pending(c)'
    BY Zenon, <1>1, <2>1, <2>2 DEF Pending, Rem
  <2>3. ASSUME NEW c \in open, ~oos PROVE Written(c, prog, en)'
    BY Zenon, <1>1, <1>2, <2>3 DEF IInv, CardsFollow, Written
  <2> QED  BY Zenon, <1>1, <1>2, <2>2, <2>3 DEF CardsFollow
<1>7. CheckersFollow'
  BY Zenon, <1>1, <1>2 DEF IInv, CheckersFollow, Aligned
<1> QED  BY Zenon, <1>3, <1>4, <1>5, <1>6, <1>7 DEF IInv

LEMMA ContinueIInv ==
  ASSUME IInv, NEW name \in {"baseline", "config.load", "rollback"},
         NEW script \in Seq(Operations), \A o \in Elems(script) : Suits(o, name),
         name # "baseline" => \A c \in Cards : \E o \in Elems(script) :
                                o.card = c /\ o.op \in {"DP_RESET", "tables"},
         name = "baseline" => /\ \A c \in Cards : \E o \in Elems(script) :
                                   o.card = c /\ o.op = "STATS_CLEAR"
                              /\ \A c \in open : oos' \/ Written(c, prog, en),
         Continue(name, script), oos' \in BOOLEAN
  PROVE  IInv'
<1>1. /\ rpc' = name /\ new' = new /\ ops' = script
      /\ open' = open /\ prog' = prog /\ en' = en /\ stg' = stg /\ live' = live
      /\ seq' = seq /\ chk' = chk /\ clean' = clean
  BY Zenon DEF Continue, rows
<1>2. /\ name \in Settled \cup Programming \cup {"quiesce"}
      /\ name # "baseline" => name \notin Settled
      /\ name # "test.arm"
  BY DEF Settled, Programming, Switching
<1>3. TypeOK'
  BY Zenon, <1>1, <1>2 DEF IInv, TypeOK
<1>4. RowsReported'
  BY Zenon, <1>1 DEF IInv, RowsReported
<1>5. OpsSuit'
  BY Zenon, <1>1 DEF OpsSuit, Rem
<1>6. CardsFollow'
  <2>1. \A c \in open : c \in Cards
    BY DEF IInv, TypeOK
  <2>2. ASSUME NEW c \in open, name # "baseline" PROVE Pending(c)'
    BY Zenon, <1>1, <2>1, <2>2 DEF Pending, Rem
  <2>3. ASSUME NEW c \in open, name = "baseline", ~oos' PROVE Written(c, prog, en)'
    BY Zenon, <1>1, <2>3 DEF Written
  <2> QED  BY Zenon, <1>1, <1>2, <2>2, <2>3 DEF CardsFollow
<1>7. CheckersFollow'
  <2>1. ASSUME NEW s \in Slots, name = "baseline" PROVE Aligned(s) \/ ToClear(s)'
    <3>1. CASE RxCard[s] \in open
      <4>1. RxCard[s] \in Cards
        BY <3>1 DEF IInv, TypeOK
      <4> QED  BY Zenon, <1>1, <2>1, <4>1 DEF ToClear, Rem
    <3> QED  BY Zenon, <3>1, ClosedAligned DEF IInv
  <2> QED  BY Zenon, <1>1, <2>1 DEF IInv, CheckersFollow, Aligned
<1> QED  BY Zenon, <1>3, <1>4, <1>5, <1>6, <1>7 DEF IInv

LEMMA AnswerIInv ==
  ASSUME IInv, Answer, ops = <<>>, UNCHANGED <<prog, en>>, oos' \in BOOLEAN,
         \A c \in open : oos' \/ Written(c, prog, en),
         clean' => \A s \in Slots : Aligned(s)
  PROVE  IInv'
<1>1. /\ rpc' = "none" /\ new' = new /\ ops' = ops
      /\ open' = open /\ prog' = prog /\ en' = en /\ stg' = stg /\ live' = live
      /\ seq' = seq /\ chk' = chk
  BY Zenon DEF Answer, rows
<1>2. /\ "none" \in Settled
      /\ "none" # "test.arm" /\ "none" # "rollback" /\ "none" # "config.load"
      /\ "none" # "baseline"
  BY DEF Settled
<1>3. TypeOK'
  BY Zenon, <1>1, <1>2 DEF IInv, TypeOK
<1>4. RowsReported'
  BY Zenon, <1>1 DEF IInv, RowsReported
<1>5. OpsSuit'
  BY Zenon, <1>1, EmptyScript DEF OpsSuit, Rem
<1>6. CardsFollow'
  BY Zenon, <1>1, <1>2 DEF CardsFollow, Written
<1>7. CheckersFollow'
  BY Zenon, <1>1, <1>2 DEF IInv, CheckersFollow, Aligned
<1> QED  BY Zenon, <1>3, <1>4, <1>5, <1>6, <1>7 DEF IInv

-----------------------------------------------------------------------------
(* The RPCs. *)

LEMMA RpcsStart ==
  ASSUME IInv, \/ TestArm \/ TestStart \/ TestStop \/ StatsClearRpc
               \/ \E s \in Slots : FlowStart(s) \/ FlowStop(s)
               \/ \E p \in Programs : ConfigLoad(p)
  PROVE  IInv'
<1>0. prog \in Programs
  BY Zenon DEF IInv, TypeOK
<1>1. CASE TestArm
  <2>1. "test.arm" \in Switching \cup {"test.arm", "quiesce", "stats.clear"}
        /\ "test.arm" \in Programming
    BY DEF Programming
  <2> QED  BY Zenon, <1>0, <1>1, <2>1, HandleIInv, ProgramScript DEF TestArm
<1>2. ASSUME NEW name \in Switching, NEW on \in BOOLEAN,
             Handle(name, prog, EnableAll(prog, on, TRUE))
      PROVE  IInv'
  <2>1. name # "test.arm" /\ name \in Switching \cup {"test.arm", "quiesce", "stats.clear"}
    BY DEF Switching
  <2>2. TRUE \in BOOLEAN
    OBVIOUS
  <2>3. /\ EnableAll(prog, on, TRUE) \in Seq(Operations)
        /\ \A o \in Elems(EnableAll(prog, on, TRUE)) : o.op = "set" /\ o.slot \in Slots /\ o.keep
    BY <1>0, <2>2, EnableScript
  <2>4. \A o \in Elems(EnableAll(prog, on, TRUE)) : Suits(o, name)
    BY Zenon, <2>3 DEF Suits
  <2> QED  BY Zenon, <1>0, <1>2, <2>1, <2>3, <2>4, HandleIInv
<1>3. ASSUME NEW s \in Slots, NEW name \in Switching, NEW on \in BOOLEAN,
             Handle(name, prog, <<SetEnable(s, on, TRUE)>>)
      PROVE  IInv'
  <2> DEFINE q == <<SetEnable(s, on, TRUE)>>
  <2>1. name # "test.arm" /\ name \in Switching \cup {"test.arm", "quiesce", "stats.clear"}
    BY DEF Switching
  <2>2. LET o == SetEnable(s, on, TRUE)
        IN  o \in Operations /\ o.op = "set" /\ o.slot \in Slots /\ o.keep
    BY SetEnableType
  <2>3. q \in Seq(Operations) /\ Elems(q) = {SetEnable(s, on, TRUE)}
    <3> DEFINE o == SetEnable(s, on, TRUE)
    <3>1. o \in Operations
      BY <2>2
    <3> HIDE DEF o
    <3>2. <<o>> \in Seq(Operations) /\ Elems(<<o>>) = {o}
      BY <3>1, OneScript
    <3> QED  BY Zenon, <3>2 DEF o
  <2>4. \A o \in Elems(q) : Suits(o, name)
    BY Zenon, <2>2, <2>3 DEF Suits
  <2>5. Handle(name, prog, q)
    BY Zenon, <1>3
  <2> HIDE DEF q
  <2> QED  BY Zenon, <1>0, <2>1, <2>3, <2>4, <2>5, HandleIInv
<1>4. CASE StatsClearRpc
  <2>1. /\ "stats.clear" # "test.arm" /\ "STATS_CLEAR" \in CardOps
        /\ "stats.clear" \in Switching \cup {"test.arm", "quiesce", "stats.clear"}
    BY DEF CardOps
  <2>2. /\ EachCard("STATS_CLEAR") \in Seq(Operations)
        /\ \A o \in Elems(EachCard("STATS_CLEAR")) : Suits(o, "stats.clear")
    <3>1. /\ EachCard("STATS_CLEAR") \in Seq(Operations)
          /\ \A o \in Elems(EachCard("STATS_CLEAR")) : o.op = "STATS_CLEAR"
      BY <2>1, EachCardScript
    <3> QED  BY Zenon, <3>1 DEF Suits
  <2> QED  BY Zenon, <1>0, <1>4, <2>1, <2>2, HandleIInv DEF StatsClearRpc
<1>5. ASSUME NEW p \in Programs, ConfigLoad(p) PROVE IInv'
  <2>1. /\ "quiesce" # "test.arm"
        /\ "quiesce" \in Switching \cup {"test.arm", "quiesce", "stats.clear"}
    OBVIOUS
  <2>2. /\ EnableAll(prog, FALSE, FALSE) \in Seq(Operations)
        /\ \A o \in Elems(EnableAll(prog, FALSE, FALSE)) :
             o.op = "set" /\ o.slot \in Slots /\ ~o.on /\ ~o.keep
    BY <1>0, EnableScript
  <2>3. \A o \in Elems(EnableAll(prog, FALSE, FALSE)) : Suits(o, "quiesce")
    BY Zenon, <2>2 DEF Suits
  <2> QED  BY Zenon, <1>5, <2>1, <2>2, <2>3, HandleIInv DEF ConfigLoad
<1>6. /\ "test.start" \in Switching /\ "test.stop" \in Switching
      /\ "flow.start" \in Switching /\ "flow.stop" \in Switching
      /\ TRUE \in BOOLEAN /\ FALSE \in BOOLEAN
  BY DEF Switching
<1> QED  BY Zenon, <1>1, <1>2, <1>3, <1>4, <1>5, <1>6
         DEF TestStart, TestStop, FlowStart, FlowStop

LEMMA NothingLeft == ASSUME ops = <<>> PROVE \A c : ~Pending(c) /\ \A s : ~ToClear(s)
BY Zenon, EmptyScript DEF Pending, ToClear, Rem

LEMMA PhasesEnd ==
  ASSUME IInv, ArmFailed \/ StartFailed \/ Baseline \/ RolledBack \/ Finished PROVE IInv'
<1>1. /\ Answer /\ ops = <<>> /\ UNCHANGED <<prog, en>>
  BY Zenon DEF ArmFailed, StartFailed, Baseline, RolledBack, Finished, Done
<1>2. CASE ArmFailed \/ (RolledBack /\ worst # "OK")
  <2>1. oos' = TRUE /\ clean' = clean
    BY Zenon, <1>2 DEF ArmFailed, RolledBack
  <2> QED  BY Zenon, <1>1, <2>1, AnswerIInv DEF IInv, CheckersFollow
<1>3. CASE RolledBack /\ worst = "OK"
  <2>1. oos' = FALSE /\ clean' = clean /\ rpc = "rollback"
    BY Zenon, <1>3 DEF RolledBack, Done
  <2>2. \A c \in open : Written(c, prog, en)
    BY Zenon, <1>1, <1>3, <2>1, NothingLeft DEF IInv, CardsFollow
  <2> QED  BY Zenon, <1>1, <2>1, <2>2, AnswerIInv DEF IInv, CheckersFollow
<1>4. CASE StartFailed \/ Finished
  <2>1. oos' = oos /\ clean' = clean /\ oos' \in BOOLEAN
    BY Zenon, <1>4 DEF StartFailed, Finished, IInv, TypeOK
  <2>2. rpc \in Settled
    BY <1>4 DEF StartFailed, Finished, Done, Settled, Switching
  <2>3. \A c \in open : oos \/ Written(c, prog, en)
    BY Zenon, <2>2 DEF IInv, CardsFollow
  <2> QED  BY Zenon, <1>1, <2>1, <2>3, AnswerIInv DEF IInv, CheckersFollow
<1>5. CASE Baseline
  <2>1. oos' = oos /\ rpc = "baseline" /\ oos' \in BOOLEAN
    BY Zenon, <1>5 DEF Baseline, Done, IInv, TypeOK
  <2>2. rpc \in Settled
    BY <2>1 DEF Settled
  <2>3. \A c \in open : oos \/ Written(c, prog, en)
    BY Zenon, <2>2 DEF IInv, CardsFollow
  <2>4. \A s \in Slots : Aligned(s)
    BY Zenon, <1>1, <2>1, NothingLeft DEF IInv, CheckersFollow
  <2> QED  BY Zenon, <1>1, <2>1, <2>3, <2>4, AnswerIInv
<1> QED  BY Zenon, <1>2, <1>3, <1>4, <1>5

LEMMA PhasesContinue ==
  ASSUME IInv, ArmProgrammed \/ StartEnabled \/ Stage \/ RollBack PROVE IInv'
<1>0. /\ "STATS_CLEAR" \in CardOps /\ "prime" \in CardOps
      /\ "config.load" \in Programming /\ "rollback" \in Programming
      /\ "baseline" # "config.load" /\ "baseline" # "rollback"
  BY DEF CardOps, Programming
<1>1. ASSUME NEW script \in Seq(Operations),
             \A o \in Elems(script) : o.op = "STATS_CLEAR" \/ o.op = "prime",
             \A o \in Elems(EachCard("STATS_CLEAR")) : o \in Elems(script),
             Continue("baseline", script), oos' \in BOOLEAN,
             \A c \in open : oos' \/ Written(c, prog, en)
      PROVE  IInv'
  <2>1. \A o \in Elems(script) : Suits(o, "baseline")
    BY Zenon, <1>1 DEF Suits
  <2>2. \A c \in Cards : \E o \in Elems(script) : o.card = c /\ o.op = "STATS_CLEAR"
    <3>1. \A c \in Cards : \E o \in Elems(EachCard("STATS_CLEAR")) :
            o.op = "STATS_CLEAR" /\ o.card = c
      BY <1>0, EachCardScript
    <3> QED  BY Zenon, <1>1, <3>1
  <2> QED  BY Zenon, <1>1, <2>1, <2>2, ContinueIInv
<1>2. /\ EachCard("STATS_CLEAR") \in Seq(Operations) /\ EachCard("prime") \in Seq(Operations)
      /\ \A o \in Elems(EachCard("STATS_CLEAR")) : o.op = "STATS_CLEAR"
      /\ \A o \in Elems(EachCard("prime")) : o.op = "prime"
  BY <1>0, EachCardScript
<1>3. CASE ArmProgrammed
  <2>1. /\ Continue("baseline", EachCard("STATS_CLEAR")) /\ oos' = FALSE
        /\ rpc = "test.arm" /\ ops = <<>> /\ worst = "OK"
    BY Zenon, <1>3 DEF ArmProgrammed, Done
  <2>2. \A c \in open : Written(c, prog, en)
    BY Zenon, <2>1, NothingLeft DEF IInv, CardsFollow
  <2> QED  BY Zenon, <1>1, <1>2, <2>1, <2>2
<1>4. CASE StartEnabled
  <2>1. /\ Continue("baseline", EachCard("prime") \o EachCard("STATS_CLEAR")) /\ oos' = oos
        /\ rpc = "test.start"
    BY Zenon, <1>4 DEF StartEnabled, Done
  <2>2. rpc \in Settled
    BY <2>1 DEF Settled, Switching
  <2>3. oos' \in BOOLEAN /\ \A c \in open : oos' \/ Written(c, prog, en)
    BY Zenon, <2>1, <2>2 DEF IInv, CardsFollow, TypeOK
  <2> DEFINE q == EachCard("prime") \o EachCard("STATS_CLEAR")
  <2>4. q \in Seq(Operations) /\ Elems(q) = Elems(EachCard("prime")) \cup Elems(EachCard("STATS_CLEAR"))
    BY <1>2, JoinScripts
  <2> HIDE DEF q
  <2>5. Continue("baseline", q)
    BY Zenon, <2>1 DEF q
  <2>6. /\ \A o \in Elems(q) : o.op = "STATS_CLEAR" \/ o.op = "prime"
        /\ \A o \in Elems(EachCard("STATS_CLEAR")) : o \in Elems(q)
    BY Zenon, <1>2, <2>4
  <2> QED  BY Zenon, <1>1, <2>3, <2>4, <2>5, <2>6
<1>5. ASSUME NEW name \in {"config.load", "rollback"}, Continue(name, program_backends), oos' = oos
      PROVE  IInv'
  <2>1. /\ oos' \in BOOLEAN /\ name # "baseline" /\ name \in {"baseline", "config.load", "rollback"}
        /\ name \in Programming
    BY Zenon, <1>0, <1>5 DEF IInv, TypeOK
  <2> QED  BY Zenon, <1>5, <2>1, ProgramScript, ContinueIInv
<1>6. CASE Stage
  BY Zenon, <1>5, <1>6 DEF Stage
<1>7. CASE RollBack
  BY Zenon, <1>5, <1>7 DEF RollBack
<1> QED  BY Zenon, <1>3, <1>4, <1>6, <1>7

\* The view follows the cards, which all run the new program, idle.
LEMMA SwapIInv == ASSUME IInv, Swap PROVE IInv'
<1>1. /\ rpc = "config.load" /\ ops = <<>> /\ worst = "OK"
      /\ rpc' = "none" /\ new' = new /\ ops' = ops /\ prog' = new /\ en' = AllOff
      /\ open' = open /\ stg' = stg /\ live' = live /\ seq' = seq /\ chk' = chk
      /\ oos' = FALSE /\ clean' = clean
  BY Zenon DEF Swap, Done, Answer, rows
<1>2. \A c \in open : Written(c, new, AllOff)
  BY Zenon, <1>1, NothingLeft DEF IInv, CardsFollow
<1>3. /\ "none" \in Settled
      /\ "none" # "test.arm" /\ "none" # "rollback" /\ "none" # "config.load"
      /\ "none" # "baseline"
  BY DEF Settled
<1>4. TypeOK'
  BY Zenon, <1>1, <1>3, AllOffType DEF IInv, TypeOK
<1>5. RowsReported'
  <2>1. new \in Programs
    BY Zenon DEF IInv, TypeOK
  <2>2. ASSUME NEW c \in open PROVE Reported(stg[c], c, new, AllOff) /\ Reported(live[c], c, new, AllOff)
    <3>1. Reported(RowsOf(new, AllOff, c), c, new, AllOff)
      BY <2>1, RowsOfReported
    <3> QED  BY Zenon, <1>2, <3>1 DEF Written
  <2> QED  BY Zenon, <1>1, <2>2 DEF RowsReported
<1>6. OpsSuit'
  BY Zenon, <1>1, EmptyScript DEF OpsSuit, Rem
<1>7. CardsFollow'
  BY Zenon, <1>1, <1>2, <1>3 DEF CardsFollow, Written
<1>8. CheckersFollow'
  BY Zenon, <1>1, <1>3 DEF IInv, CheckersFollow, Aligned
<1> QED  BY Zenon, <1>4, <1>5, <1>6, <1>7, <1>8 DEF IInv

-----------------------------------------------------------------------------
(* The frames and the backend operations. *)

Check == [seen : BOOLEAN, exp : Nat, bogus : BOOLEAN]

\* What a frame with number n does to an aligned record.
LEMMA FrameCheck ==
  ASSUME NEW r \in Check, NEW n \in Nat
  PROVE  LET w == [seen |-> TRUE, exp |-> IF r.seen /\ n < r.exp THEN r.exp ELSE n + 1,
                   bogus |-> r.bogus \/ (r.seen /\ n # r.exp)]
         IN  /\ w \in Check
             /\ ~r.bogus /\ (r.seen => r.exp = n) => ~w.bogus /\ w.exp = n + 1
BY DEF Check

LEMMA SendIInv == ASSUME IInv, NEW s \in Slots, Send(s) PROVE IInv'
<1>1. /\ open' = open /\ prog' = prog /\ en' = en /\ stg' = stg /\ live' = live
      /\ ops' = ops /\ rpc' = rpc /\ new' = new /\ worst' = worst
      /\ oos' = oos /\ clean' = clean
  BY Zenon DEF Send, rows, handler
<1>2. seq \in [Slots -> Nat] /\ chk \in [Slots -> Check]
  BY Zenon DEF IInv, TypeOK, Check
<1> DEFINE r == chk[s]
           w == [seen |-> TRUE, exp |-> IF r.seen /\ seq[s] < r.exp THEN r.exp ELSE seq[s] + 1,
                 bogus |-> r.bogus \/ (r.seen /\ seq[s] # r.exp)]
<1>3. w \in Check /\ (Aligned(s) => ~w.bogus /\ w.exp = seq[s] + 1)
  BY <1>2, FrameCheck DEF Aligned
<1>4. seq' = [seq EXCEPT ![s] = seq[s] + 1]
  BY DEF Send
<1>5. chk' = IF RxCard[s] \in open THEN [chk EXCEPT ![s] = w] ELSE chk
  BY DEF Send
<1> HIDE DEF w
<1>6. seq' \in [Slots -> Nat] /\ chk' \in [Slots -> Check]
  BY <1>2, <1>3, <1>4, <1>5
<1>7. \A x \in Slots \ {s} : seq'[x] = seq[x] /\ chk'[x] = chk[x]
  BY <1>2, <1>4, <1>5
<1>8. seq'[s] = seq[s] + 1 /\ chk'[s] = IF RxCard[s] \in open THEN w ELSE chk[s]
  BY <1>2, <1>4, <1>5
<1>9. RxCard[s] \notin open => chk'[s] = Unseen
  BY Zenon, <1>8 DEF IInv, CheckersFollow
<1>10. ASSUME NEW x \in Slots, Aligned(x) PROVE Aligned(x)'
  <2>1. CASE x # s
    BY Zenon, <1>7, <1>10, <2>1 DEF Aligned
  <2>2. CASE x = s /\ RxCard[s] \in open
    BY Zenon, <1>3, <1>8, <1>10, <2>2 DEF Aligned
  <2>3. CASE x = s /\ RxCard[s] \notin open
    <3>1. ~chk'[s].bogus /\ ~chk'[s].seen
      BY <1>9, <2>3 DEF Unseen
    <3> QED  BY Zenon, <2>3, <3>1 DEF Aligned
  <2> QED  BY Zenon, <2>1, <2>2, <2>3
<1>11. TypeOK'
  BY Zenon, <1>1, <1>6 DEF IInv, TypeOK, Check
<1>12. RowsReported' /\ OpsSuit' /\ CardsFollow'
  <2>1. RowsReported'
    BY Zenon, <1>1 DEF IInv, RowsReported
  <2>2. OpsSuit'
    BY Zenon, <1>1 DEF IInv, OpsSuit, Rem
  <2>3. CardsFollow'
    BY Zenon, <1>1 DEF IInv, CardsFollow, Written, Pending, Rem
  <2> QED  BY Zenon, <2>1, <2>2, <2>3
<1>13. CheckersFollow'
  <2>1. \A x \in Slots : RxCard[x] \notin open' => chk'[x] = Unseen
    BY Zenon, <1>1, <1>7, <1>9 DEF IInv, CheckersFollow
  <2>2. \A x \in Slots : ToClear(x) => ToClear(x)'
    BY Zenon, <1>1 DEF ToClear, Rem
  <2> QED  BY Zenon, <1>1, <1>10, <2>1, <2>2 DEF IInv, CheckersFollow
<1> QED  BY Zenon, <1>11, <1>12, <1>13 DEF IInv

\* An operation is taken off the script.
LEMMA Executed ==
  ASSUME IInv, ops # <<>>, ops' = Tail(ops), rpc' = rpc
  PROVE  /\ Head(ops) \in Operations /\ Suits(Head(ops), rpc)
         /\ ops' \in Seq(Operations) /\ OpsSuit'
         /\ \A o \in Rem' : o \in Rem
         /\ \A o \in Rem : o = Head(ops) \/ o \in Rem'
<1>1. ops \in Seq(Operations) /\ \A o \in Rem : Suits(o, rpc)
  BY Zenon DEF IInv, TypeOK, OpsSuit
<1>2. /\ Head(ops) \in Operations /\ Tail(ops) \in Seq(Operations)
      /\ Elems(ops) = {Head(ops)} \cup Elems(Tail(ops))
  BY <1>1, TakeHead
<1>3. Rem' = Elems(Tail(ops))
  BY Zenon DEF Rem
<1>4. /\ \A o \in Rem' : o \in Rem
      /\ \A o \in Rem : o = Head(ops) \/ o \in Rem'
      /\ Head(ops) \in Rem
  BY Zenon, <1>2, <1>3 DEF Rem
<1> QED  BY Zenon, <1>1, <1>2, <1>4 DEF OpsSuit

\* An operation that leaves rows, view and run state alone, and only clears
\* checkers: the programming of no card is done by it, no card needs its clear.
LEMMA CheckersOnly ==
  ASSUME IInv, ops # <<>>, ops' = Tail(ops), UNCHANGED <<open, prog, en, rows, seq, rpc, new, oos>>,
         worst' = "OK" => worst = "OK", clean' = clean,
         NEW c, \A s \in Slots : chk'[s] = IF RxCard[s] = c THEN Unseen ELSE chk[s],
         chk' \in [Slots -> Check],
         worst' = "OK" /\ Head(ops).card \in open => Head(ops).op \notin {"DP_RESET", "tables"},
         Head(ops).op = "STATS_CLEAR" /\ Head(ops).card \in open => c = Head(ops).card
  PROVE  IInv'
<1>1. /\ open' = open /\ prog' = prog /\ en' = en /\ stg' = stg /\ live' = live
      /\ seq' = seq /\ rpc' = rpc /\ new' = new /\ oos' = oos
  BY Zenon DEF rows
<1>2. /\ ops' \in Seq(Operations) /\ OpsSuit'
      /\ \A o \in Rem : o = Head(ops) \/ o \in Rem'
  BY Zenon, <1>1, Executed
<1>3. TypeOK'
  BY Zenon, <1>1, <1>2 DEF IInv, TypeOK, Check
<1>4. RowsReported'
  BY Zenon, <1>1 DEF IInv, RowsReported
<1>5. CardsFollow'
  <2>1. ASSUME NEW d \in open, Pending(d), worst' = "OK" PROVE Pending(d)'
    BY Zenon, <1>2, <2>1 DEF Pending
  <2>2. \A d : /\ Written(d, prog, en) => Written(d, prog, en)'
               /\ Written(d, new, AllOff) => Written(d, new, AllOff)'
    BY Zenon, <1>1 DEF Written
  <2>3. ASSUME NEW d \in open
        PROVE  /\ rpc \in Settled /\ ~oos => Written(d, prog, en)'
               /\ rpc \in {"test.arm", "rollback"} /\ worst' = "OK"
                    => Pending(d)' \/ Written(d, prog, en)'
               /\ rpc = "config.load" /\ worst' = "OK"
                    => Pending(d)' \/ Written(d, new, AllOff)'
    BY Zenon, <2>1, <2>2 DEF IInv, CardsFollow
  <2> QED  BY <1>1, <2>3 DEF CardsFollow
<1>6. CheckersFollow'
  <2>1. ASSUME NEW s \in Slots, Aligned(s) PROVE Aligned(s)'
    <3>1. CASE RxCard[s] = c
      BY <1>1, <3>1 DEF Aligned, Unseen
    <3>2. CASE RxCard[s] # c
      BY Zenon, <1>1, <2>1, <3>2 DEF Aligned
    <3> QED  BY Zenon, <3>1, <3>2
  <2>2. ASSUME NEW s \in Slots, ToClear(s) PROVE Aligned(s)' \/ ToClear(s)'
    <3>1. CASE RxCard[s] = c
      BY <1>1, <3>1 DEF Aligned, Unseen
    <3>2. CASE RxCard[s] \notin open
      BY Zenon, <2>1, <3>2, ClosedAligned DEF IInv
    <3>3. CASE RxCard[s] \in open /\ RxCard[s] # c
      BY Zenon, <1>2, <2>2, <3>3 DEF ToClear
    <3> QED  BY Zenon, <3>1, <3>2, <3>3
  <2>3. \A s \in Slots : RxCard[s] \notin open' => chk'[s] = Unseen
    BY Zenon, <1>1 DEF IInv, CheckersFollow
  <2> QED  BY Zenon, <1>1, <2>1, <2>2, <2>3 DEF IInv, CheckersFollow
<1> QED  BY Zenon, <1>2, <1>3, <1>4, <1>5, <1>6 DEF IInv

LEMMA ClearCardChecks ==
  ASSUME IInv, NEW c, ClearCard(c)
  PROVE  /\ chk' \in [Slots -> Check]
         /\ \A s \in Slots : chk'[s] = IF RxCard[s] = c THEN Unseen ELSE chk[s]
<1>1. chk \in [Slots -> Check] /\ Unseen \in Check
  BY Zenon, UnseenType DEF IInv, TypeOK, Check
<1> QED  BY <1>1 DEF ClearCard

LEMMA NoClear ==
  ASSUME IInv, ops # <<>>, ops' = Tail(ops), UNCHANGED <<open, prog, en, rows, seq, rpc, new, oos>>,
         worst' = "OK" => worst = "OK", clean' = clean, UNCHANGED chk,
         worst' = "OK" /\ Head(ops).card \in open => Head(ops).op \notin {"DP_RESET", "tables"},
         Head(ops).card \in open => Head(ops).op # "STATS_CLEAR"
  PROVE  IInv'
<1>1. \A s \in Slots : RxCard[s] # NumCards
  BY SlotAssumption, CardsAssumption DEF Cards
<1>2. \A s \in Slots : chk'[s] = IF RxCard[s] = NumCards THEN Unseen ELSE chk[s]
  BY Zenon, <1>1
<1>3. chk' \in [Slots -> Check]
  BY Zenon DEF IInv, TypeOK, Check
<1> QED  BY Zenon, <1>2, <1>3, CheckersOnly

LEMMA DoStatsClearIInv == ASSUME IInv, DoStatsClear PROVE IInv'
<1>1. /\ ops # <<>> /\ ops' = Tail(ops) /\ Head(ops).op = "STATS_CLEAR"
      /\ ClearCard(Head(ops).card)
      /\ UNCHANGED <<open, prog, en, rows, seq, rpc, new, oos>>
      /\ worst' = worst /\ clean' = clean
  BY Zenon DEF DoStatsClear, Operation, At
<1>2. Head(ops).op \notin {"DP_RESET", "tables"}
  BY <1>1
<1>3. /\ chk' \in [Slots -> Check]
      /\ \A s \in Slots : chk'[s] = IF RxCard[s] = Head(ops).card THEN Unseen ELSE chk[s]
  BY Zenon, <1>1, ClearCardChecks
<1> QED  BY Zenon, <1>1, <1>2, <1>3, CheckersOnly

LEMMA DoPrimeIInv == ASSUME IInv, DoPrime PROVE IInv'
<1>1. /\ ops # <<>> /\ ops' = Tail(ops) /\ Head(ops).op = "prime"
      /\ ClearCard(Head(ops).card) \/ UNCHANGED chk
      /\ UNCHANGED <<open, prog, en, rows, seq, rpc, new, oos>>
      /\ worst' = worst /\ clean' = clean
  BY Zenon DEF DoPrime, Operation, At
<1>2. Head(ops).op \notin {"DP_RESET", "tables"} /\ Head(ops).op # "STATS_CLEAR"
  BY <1>1
<1>3. CASE ClearCard(Head(ops).card)
  <2>1. /\ chk' \in [Slots -> Check]
        /\ \A s \in Slots : chk'[s] = IF RxCard[s] = Head(ops).card THEN Unseen ELSE chk[s]
    BY Zenon, <1>3, ClearCardChecks
  <2> QED  BY Zenon, <1>1, <1>2, <2>1, CheckersOnly
<1>4. CASE UNCHANGED chk
  BY Zenon, <1>1, <1>2, <1>4, NoClear
<1> QED  BY Zenon, <1>1, <1>3, <1>4

LEMMA PassOverIInv == ASSUME IInv, PassOver PROVE IInv'
<1>1. /\ ops # <<>> /\ ops' = Tail(ops) /\ Head(ops).card \notin open
      /\ UNCHANGED <<open, prog, en, rows, seq, rpc, new, oos>>
      /\ worst' = worst /\ clean' = clean /\ UNCHANGED chk
  BY Zenon DEF PassOver, At
<1> QED  BY Zenon, <1>1, NoClear

LEMMA TablesRejectedIInv == ASSUME IInv, TablesRejected PROVE IInv'
<1>1. /\ ops # <<>> /\ ops' = Tail(ops) /\ Head(ops).op = "tables"
      /\ UNCHANGED <<open, prog, en, rows, seq, rpc, new, oos>>
      /\ clean' = clean /\ UNCHANGED chk
  BY Zenon DEF TablesRejected, Operation, At
<1>2. worst' # "OK"
  BY DEF TablesRejected, Worst
<1>3. Head(ops).op # "STATS_CLEAR"
  BY <1>1
<1> QED  BY Zenon, <1>1, <1>2, <1>3, NoClear

\* The checkers when an operation leaves them alone outside the baseline.
LEMMA CheckersSame ==
  ASSUME IInv, UNCHANGED <<open, seq, rpc, chk>>, clean' => clean, rpc # "baseline"
  PROVE  CheckersFollow'
BY Zenon DEF IInv, CheckersFollow, Aligned

\* The soft reset of a card, which its tables follow.
LEMMA DoResetIInv == ASSUME IInv, DoReset PROVE IInv'
<1> DEFINE c == Head(ops).card
           tab == CardOp("tables", c)
<1>1. /\ ops # <<>> /\ ops' = <<tab>> \o Tail(ops) /\ Head(ops).op = "DP_RESET"
      /\ open' = open /\ prog' = prog /\ en' = en /\ stg' = stg /\ live' = live
      /\ chk' = chk /\ rpc' = rpc /\ new' = new /\ worst' = worst /\ oos' = oos
      /\ clean' = FALSE
  BY Zenon DEF DoReset, Operation, At, rows
<1>2. /\ Head(ops) \in Operations /\ Tail(ops) \in Seq(Operations)
      /\ Elems(ops) = {Head(ops)} \cup Elems(Tail(ops))
  BY <1>1, TakeHead DEF IInv, TypeOK
<1>3. Suits(Head(ops), rpc) /\ \A o \in Elems(Tail(ops)) : Suits(o, rpc)
  BY Zenon, <1>2 DEF IInv, OpsSuit, Rem
<1>4. rpc \in Programming
  BY <1>1, <1>3 DEF Suits
<1>5. tab \in Operations /\ tab.op = "tables" /\ tab.card = c
  <2>1. c \in Int /\ "tables" \in CardOps
    BY <1>2 DEF Operations, CardOps
  <2> QED  BY Zenon, <2>1, CardOpType
<1> HIDE DEF tab
<1>6. /\ ops' \in Seq(Operations)
      /\ Rem' = {tab} \cup Elems(Tail(ops))
  <2> DEFINE q == Tail(ops)
             q2 == <<tab>> \o q
  <2>1. q \in Seq(Operations)
    BY Zenon, <1>2
  <2> HIDE DEF q
  <2>2. q2 \in Seq(Operations) /\ Elems(q2) = {tab} \cup Elems(q)
    BY <1>5, <2>1, PushScript
  <2>3. ops' = q2
    BY Zenon, <1>1 DEF q
  <2> HIDE DEF q2
  <2> QED  BY Zenon, <2>2, <2>3 DEF Rem, q
<1>7. Suits(tab, rpc)
  BY Zenon, <1>4, <1>5 DEF Suits
<1>8. OpsSuit'
  BY Zenon, <1>1, <1>3, <1>6, <1>7 DEF OpsSuit
<1>9. TypeOK'
  <2>1. seq' \in [Slots -> Nat]
    BY DEF DoReset, IInv, TypeOK
  <2> QED  BY Zenon, <1>1, <1>6, <2>1 DEF IInv, TypeOK
<1>10. RowsReported'
  BY Zenon, <1>1 DEF IInv, RowsReported
<1>11. CardsFollow'
  <2>1. ASSUME NEW d, Pending(d) PROVE Pending(d)'
    <3>1. PICK o \in Rem : o.card = d /\ o.op \in {"DP_RESET", "tables"}
      BY Zenon, <2>1 DEF Pending
    <3>2. CASE o = Head(ops)
      BY Zenon, <1>5, <1>6, <3>1, <3>2 DEF Pending
    <3>3. CASE o # Head(ops)
      <4>1. o \in Rem'
        BY Zenon, <1>2, <1>6, <3>1, <3>3 DEF Rem
      <4> QED  BY Zenon, <3>1, <4>1 DEF Pending
    <3> QED  BY Zenon, <3>2, <3>3
  <2>2. \A d : /\ Written(d, prog, en) => Written(d, prog, en)'
               /\ Written(d, new, AllOff) => Written(d, new, AllOff)'
    BY Zenon, <1>1 DEF Written
  <2>3. ASSUME NEW d \in open
        PROVE  /\ rpc \in Settled /\ ~oos => Written(d, prog, en)'
               /\ rpc \in {"test.arm", "rollback"} /\ worst = "OK"
                    => Pending(d)' \/ Written(d, prog, en)'
               /\ rpc = "config.load" /\ worst = "OK"
                    => Pending(d)' \/ Written(d, new, AllOff)'
    BY Zenon, <2>1, <2>2 DEF IInv, CardsFollow
  <2> QED  BY <1>1, <2>3 DEF CardsFollow
<1>12. CheckersFollow'
  <2>1. rpc # "baseline"
    BY <1>4 DEF Programming
  <2> QED  BY Zenon, <1>1, <2>1 DEF IInv, CheckersFollow
<1> QED  BY Zenon, <1>8, <1>9, <1>10, <1>11, <1>12 DEF IInv

\* The rows that are staged are reported, or all off.
LEMMA StagedRows ==
  ASSUME IInv, rpc \in Programming
  PROVE  /\ Staged \in TableRows /\ Reported(Staged, At, prog, en)
         /\ rpc = "config.load" => Staged = RowsOf(new, AllOff, At)
         /\ rpc # "config.load" => Staged = RowsOf(prog, en, At)
<1>1. /\ rpc = "config.load" => Staged = RowsOf(new, AllOff, At)
      /\ rpc # "config.load" => Staged = RowsOf(prog, en, At)
  BY Zenon DEF Staged
<1>2. prog \in Programs /\ new \in Programs /\ en \in [Slots -> BOOLEAN]
  BY Zenon DEF IInv, TypeOK
<1>3. RowsOf(prog, en, At) \in TableRows /\ RowsOf(new, AllOff, At) \in TableRows
  BY <1>2, AllOffType, RowsOfType
<1>4. /\ Reported(RowsOf(prog, en, At), At, prog, en)
      /\ Reported(RowsOf(new, AllOff, At), At, prog, en)
  BY <1>2, RowsOfReported
<1> QED  BY Zenon, <1>1, <1>3, <1>4

\* The tables of a card are staged, and committed unless the commit fails.
LEMMA TablesIInv == ASSUME IInv, TablesCommitted \/ CommitFails PROVE IInv'
<1> DEFINE c == At
<1>1. /\ ops # <<>> /\ ops' = Tail(ops) /\ Head(ops).op = "tables" /\ c \in open
      /\ stg' = [stg EXCEPT ![c] = Staged]
      /\ (live' = [live EXCEPT ![c] = Staged] /\ worst' = worst) \/ (live' = live /\ worst' # "OK")
      /\ UNCHANGED <<open, prog, en, seq, chk, rpc, new, oos, clean>>
  <2>1. CASE TablesCommitted
    <3>1. "tables" # "set"
      OBVIOUS
    <3> QED  BY Zenon, <2>1, <3>1 DEF TablesCommitted, Operation
  <2>2. CASE CommitFails
    <3>1. "tables" # "set" /\ worst' # "OK"
      BY <2>2 DEF CommitFails, Worst
    <3> QED  BY Zenon, <2>2, <3>1 DEF CommitFails, Operation
  <2> QED  BY Zenon, <2>1, <2>2
<1>2. /\ Suits(Head(ops), rpc) /\ ops' \in Seq(Operations) /\ OpsSuit'
      /\ \A o \in Rem : o = Head(ops) \/ o \in Rem'
  BY Zenon, <1>1, Executed
<1>3. rpc \in Programming
  BY <1>1, <1>2 DEF Suits
<1>4. /\ Staged \in TableRows /\ Reported(Staged, c, prog, en)
      /\ rpc = "config.load" => Staged = RowsOf(new, AllOff, c)
      /\ rpc # "config.load" => Staged = RowsOf(prog, en, c)
  BY Zenon, <1>3, StagedRows
<1>5. stg \in [Cards -> TableRows] /\ live \in [Cards -> TableRows] /\ c \in Cards
  BY <1>1 DEF IInv, TypeOK
<1> DEFINE rowset == Staged
<1> HIDE DEF c, rowset
<1>6. /\ stg' = [stg EXCEPT ![c] = rowset] /\ rowset \in TableRows
      /\ (live' = [live EXCEPT ![c] = rowset] /\ worst' = worst) \/ (live' = live /\ worst' # "OK")
  BY Zenon, <1>1, <1>4 DEF rowset
<1>7. stg' \in [Cards -> TableRows] /\ live' \in [Cards -> TableRows]
  BY <1>5, <1>6
<1>8. /\ stg'[c] = rowset
      /\ (live'[c] = rowset /\ worst' = worst) \/ (live'[c] = live[c] /\ worst' # "OK")
      /\ \A d \in Cards \ {c} : stg'[d] = stg[d] /\ live'[d] = live[d]
  BY <1>5, <1>6
<1>9. \A d \in open : d \in Cards
  BY DEF IInv, TypeOK
<1>10. TypeOK'
  BY Zenon, <1>1, <1>2, <1>7 DEF IInv, TypeOK
<1>11. RowsReported'
  <2>1. ASSUME NEW d \in open PROVE Reported(stg'[d], d, prog, en) /\ Reported(live'[d], d, prog, en)
    <3>1. CASE d = c
      BY Zenon, <1>4, <1>8, <3>1 DEF IInv, RowsReported, rowset
    <3>2. CASE d # c
      BY Zenon, <1>8, <1>9, <3>2 DEF IInv, RowsReported
    <3> QED  BY Zenon, <3>1, <3>2
  <2> QED  BY Zenon, <1>1, <2>1 DEF RowsReported
<1>12. CardsFollow'
  <2>1. rpc \notin Settled
    BY <1>3 DEF Programming, Settled, Switching
  <2>2. ASSUME NEW d \in open, d # c, Pending(d) PROVE Pending(d)'
    BY Zenon, <1>2, <2>2 DEF Pending, c, At
  <2>3. ASSUME NEW d \in open, d # c
        PROVE  /\ Written(d, prog, en) => Written(d, prog, en)'
               /\ Written(d, new, AllOff) => Written(d, new, AllOff)'
    BY Zenon, <1>1, <1>8, <1>9, <2>3 DEF Written
  <2>4. ASSUME worst' = "OK"
        PROVE  /\ worst = "OK" /\ stg'[c] = Staged /\ live'[c] = Staged
    BY Zenon, <1>8, <2>4 DEF rowset
  <2>5. ASSUME NEW d \in open
        PROVE  /\ rpc \in {"test.arm", "rollback"} /\ worst' = "OK"
                    => Pending(d)' \/ Written(d, prog, en)'
               /\ rpc = "config.load" /\ worst' = "OK"
                    => Pending(d)' \/ Written(d, new, AllOff)'
    <3>1. CASE d = c
      <4>1. rpc \in {"test.arm", "rollback"} => rpc # "config.load"
        OBVIOUS
      <4> QED  BY Zenon, <1>1, <1>4, <2>4, <3>1, <4>1 DEF Written
    <3>2. CASE d # c
      BY Zenon, <2>2, <2>3, <2>4, <3>2 DEF IInv, CardsFollow
    <3> QED  BY Zenon, <3>1, <3>2
  <2> QED  BY <1>1, <2>1, <2>5 DEF CardsFollow
<1>13. CheckersFollow'
  <2>1. rpc # "baseline"
    BY <1>3 DEF Programming
  <2> QED  BY Zenon, <1>1, <2>1, CheckersSame
<1> QED  BY Zenon, <1>2, <1>10, <1>11, <1>12, <1>13 DEF IInv

\* The run state of one slot does not matter to the other cards' rows.
LEMMA ReportedElsewhere ==
  ASSUME NEW t, NEW d, NEW p, NEW run, NEW view, NEW s, Reported(t, d, p, run),
         d # TxCard[s], \A x \in Slots \ {s} : view[x] = run[x]
  PROVE  Reported(t, d, p, view)
BY Zenon DEF Reported

LEMMA SetFlowEnableIInv == ASSUME IInv, SetFlowEnable PROVE IInv'
<1> DEFINE s == Head(ops).slot
           on == Head(ops).on
           c == TxCard[s]
           rowset == Rewrite(stg[c], s, Row(prog, on))
<1>1. /\ ops # <<>> /\ ops' = Tail(ops) /\ Head(ops).op = "set"
      /\ open' = open /\ prog' = prog /\ seq' = seq /\ chk' = chk /\ rpc' = rpc /\ new' = new
      /\ worst' = worst /\ oos' = oos /\ clean' = clean
  BY Zenon DEF SetFlowEnable, Operation
<1>2. \/ stg' = stg /\ live' = live /\ en' = en
      \/ /\ s \in SlotsOf(prog) /\ c \in open
         /\ stg' = [stg EXCEPT ![c] = rowset] /\ live' = [live EXCEPT ![c] = rowset]
         /\ en' = IF Head(ops).keep THEN [en EXCEPT ![s] = on] ELSE en
  BY Zenon DEF SetFlowEnable, rows, Rewrite
<1>3. /\ Head(ops) \in Operations /\ Suits(Head(ops), rpc)
      /\ ops' \in Seq(Operations) /\ OpsSuit'
  BY Zenon, <1>1, Executed
<1>4. /\ s \in Slots /\ on \in BOOLEAN /\ Head(ops).keep \in BOOLEAN
      /\ (rpc \in Switching /\ Head(ops).keep) \/ (rpc = "quiesce" /\ ~Head(ops).keep /\ ~on)
  <2>1. on \in BOOLEAN /\ Head(ops).keep \in BOOLEAN
    BY <1>3 DEF Operations
  <2> QED  BY <1>1, <1>3, <2>1 DEF Suits
<1>5. rpc # "baseline" /\ rpc \notin {"test.arm", "rollback"} /\ rpc # "config.load"
  BY <1>4 DEF Switching
<1>6. CheckersFollow'
  BY Zenon, <1>1, <1>5, CheckersSame
<1>7. CASE stg' = stg /\ live' = live /\ en' = en
  <2>1. TypeOK'
    BY Zenon, <1>1, <1>3, <1>7 DEF IInv, TypeOK
  <2>2. RowsReported'
    BY Zenon, <1>1, <1>7 DEF IInv, RowsReported
  <2>3. \A d : Written(d, prog, en) => Written(d, prog, en)'
    BY Zenon, <1>1, <1>7 DEF Written
  <2>4. \A d \in open : rpc \in Settled /\ ~oos => Written(d, prog, en)'
    BY Zenon, <2>3 DEF IInv, CardsFollow
  <2>5. CardsFollow'
    BY <1>1, <1>5, <2>4 DEF CardsFollow
  <2> QED  BY Zenon, <1>3, <1>6, <2>1, <2>2, <2>5 DEF IInv
<1>8. CASE /\ s \in SlotsOf(prog) /\ c \in open
           /\ stg' = [stg EXCEPT ![c] = rowset] /\ live' = [live EXCEPT ![c] = rowset]
           /\ en' = IF Head(ops).keep THEN [en EXCEPT ![s] = on] ELSE en
  <2>1. /\ prog \in Programs /\ en \in [Slots -> BOOLEAN] /\ c \in Cards
        /\ stg \in [Cards -> TableRows] /\ live \in [Cards -> TableRows]
        /\ \A d \in open : d \in Cards
    BY <1>8 DEF IInv, TypeOK
  <2>2. rowset \in TableRows
    <3>1. stg[c] \in TableRows
      BY <2>1
    <3>2. Row(prog, on) \in [p : Programs, on : BOOLEAN]
      BY <1>4, <2>1 DEF Row
    <3> QED  BY Zenon, <1>4, <3>1, <3>2, RewriteType
  <2>3. Reported(stg[c], c, prog, en)
    BY Zenon, <1>8 DEF IInv, RowsReported
  <2>4. /\ en' \in [Slots -> BOOLEAN] /\ (on => en'[s])
        /\ \A x \in Slots \ {s} : en'[x] = en[x]
    BY <1>4, <1>8, <2>1
  <2>5. Reported(rowset, c, prog, en')
    BY <1>4, <2>1, <2>3, <2>4, RewriteReported
  <2>6. rpc \in Settled /\ ~oos => rowset = RowsOf(prog, en', c)
    <3> SUFFICES ASSUME rpc \in Settled, ~oos PROVE rowset = RowsOf(prog, en', c)
      OBVIOUS
    <3>1. stg[c] = RowsOf(prog, en, c)
      BY Zenon, <1>8 DEF IInv, CardsFollow, Written
    <3>2. en'[s] = on
      <4>1. rpc # "quiesce"
        BY DEF Settled, Switching
      <4> QED  BY <1>4, <1>8, <2>1, <4>1
    <3>3. Rewrite(RowsOf(prog, en, c), s, Row(prog, en'[s])) = RowsOf(prog, en', c)
      <4>1. /\ prog \in Programs /\ s \in SlotsOf(prog) /\ c = TxCard[s]
            /\ \A x \in Slots \ {s} : en'[x] = en[x]
        BY Zenon, <1>8, <2>1, <2>4
      <4> HIDE DEF s, c, on, rowset
      <4> QED  BY <4>1, RewriteRows
    <3> QED  BY Zenon, <3>1, <3>2, <3>3
  <2>7. \A d : d # c => RowsOf(prog, en', d) = RowsOf(prog, en, d)
    BY <2>1, <2>4, RowsElsewhere
  <2> HIDE DEF rowset, c, s, on
  <2>8. /\ stg' \in [Cards -> TableRows] /\ live' \in [Cards -> TableRows]
        /\ stg'[c] = rowset /\ live'[c] = rowset
        /\ \A d \in Cards \ {c} : stg'[d] = stg[d] /\ live'[d] = live[d]
    BY <1>8, <2>1, <2>2
  <2>9. TypeOK'
    BY Zenon, <1>1, <1>3, <2>4, <2>8 DEF IInv, TypeOK
  <2>10. RowsReported'
    <3>1. ASSUME NEW d \in open
          PROVE  Reported(stg'[d], d, prog, en') /\ Reported(live'[d], d, prog, en')
      <4>1. CASE d = c
        BY Zenon, <2>5, <2>8, <4>1
      <4>2. CASE d # c
        <5>1. Reported(stg[d], d, prog, en) /\ Reported(live[d], d, prog, en)
          BY Zenon DEF IInv, RowsReported
        <5>2. Reported(stg[d], d, prog, en') /\ Reported(live[d], d, prog, en')
          BY Zenon, <2>4, <4>2, <5>1, ReportedElsewhere DEF c
        <5> QED  BY Zenon, <2>1, <2>8, <4>2, <5>2
      <4> QED  BY Zenon, <4>1, <4>2
    <3> QED  BY Zenon, <1>1, <3>1 DEF RowsReported
  <2>11. CardsFollow'
    <3>1. ASSUME NEW d \in open, rpc \in Settled, ~oos
          PROVE  stg'[d] = RowsOf(prog, en', d) /\ live'[d] = RowsOf(prog, en', d)
      <4>1. CASE d = c
        BY Zenon, <2>6, <2>8, <3>1, <4>1
      <4>2. CASE d # c
        <5>1. stg[d] = RowsOf(prog, en, d) /\ live[d] = RowsOf(prog, en, d)
          BY Zenon, <3>1 DEF IInv, CardsFollow, Written
        <5> QED  BY Zenon, <2>1, <2>7, <2>8, <3>1, <4>2, <5>1
      <4> QED  BY Zenon, <4>1, <4>2
    <3>2. \A d \in open : rpc \in Settled /\ ~oos => Written(d, prog, en)'
      BY Zenon, <1>1, <3>1 DEF Written
    <3> QED  BY <1>1, <1>5, <3>2 DEF CardsFollow
  <2> QED  BY Zenon, <1>3, <1>6, <2>9, <2>10, <2>11 DEF IInv
<1> QED  BY Zenon, <1>2, <1>7, <1>8

LEMMA StutterIInv == ASSUME IInv, UNCHANGED vars PROVE IInv'
<1>1. /\ open' = open /\ prog' = prog /\ en' = en /\ stg' = stg /\ live' = live
      /\ seq' = seq /\ chk' = chk /\ ops' = ops /\ rpc' = rpc /\ new' = new /\ worst' = worst
      /\ oos' = oos /\ clean' = clean
  BY Zenon DEF vars, rows, handler
<1>2. TypeOK'
  BY Zenon, <1>1 DEF IInv, TypeOK
<1>3. RowsReported' /\ OpsSuit'
  BY Zenon, <1>1 DEF IInv, RowsReported, OpsSuit, Rem
<1>4. CardsFollow'
  BY Zenon, <1>1 DEF IInv, CardsFollow, Written, Pending, Rem
<1>5. CheckersFollow'
  BY Zenon, <1>1 DEF IInv, CheckersFollow, Aligned, ToClear, Rem
<1> QED  BY Zenon, <1>2, <1>3, <1>4, <1>5 DEF IInv

LEMMA NextIInv == IInv /\ [Next]_vars => IInv'
<1> SUFFICES ASSUME IInv, [Next]_vars PROVE IInv'
  OBVIOUS
<1>1. ASSUME NEW s \in Slots, Send(s) \/ FlowStart(s) \/ FlowStop(s) PROVE IInv'
  BY Zenon, <1>1, SendIInv, RpcsStart
<1>2. CASE TestArm \/ TestStart \/ TestStop \/ StatsClearRpc \/ \E p \in Programs : ConfigLoad(p)
  BY Zenon, <1>2, RpcsStart
<1>3. CASE \/ DoReset \/ TablesRejected \/ TablesCommitted \/ CommitFails \/ SetFlowEnable
           \/ PassOver \/ DoStatsClear \/ DoPrime
  BY Zenon, <1>3, DoResetIInv, TablesRejectedIInv, TablesIInv, SetFlowEnableIInv,
     PassOverIInv, DoStatsClearIInv, DoPrimeIInv
<1>4. CASE ArmProgrammed \/ ArmFailed \/ StartEnabled \/ StartFailed \/ Baseline
           \/ Stage \/ Swap \/ RollBack \/ RolledBack \/ Finished
  BY Zenon, <1>4, PhasesEnd, PhasesContinue, SwapIInv
<1>5. CASE UNCHANGED vars
  BY Zenon, <1>5, StutterIInv
<1> QED  BY Zenon, <1>1, <1>2, <1>3, <1>4, <1>5 DEF Next

LEMMA AlwaysIInv == Spec => []IInv
BY InitIInv, NextIInv, PTL DEF Spec

-----------------------------------------------------------------------------
(* Between two RPCs, unless the daemon has reported that the device may be *)
(* out of sync, each open card runs exactly the rows the daemon reports    *)
(* (main.c:818-851).                                                       *)
THEOREM ViewAlwaysMatches == Spec => []ViewMatches
<1>1. "none" \in Settled
  BY DEF Settled
<1>2. IInv => ViewMatches
  BY Zenon, <1>1 DEF IInv, CardsFollow, Written, ViewMatches
<1> QED  BY <1>2, AlwaysIInv, PTL

(* A generator that sends is one the daemon reports as enabled, also in    *)
(* the middle of an RPC and after failed programmings (main.c:360).        *)
THEOREM RunningAlwaysReported == Spec => []RunningIsReported
<1>1. IInv => RunningIsReported
  BY Zenon DEF IInv, RowsReported, Reported, Running, RunningIsReported
<1> QED  BY <1>1, AlwaysIInv, PTL

(* From a test.start or test.arm that succeeded until the next soft reset  *)
(* the checkers report no false loss (main.c:2254-2268).                   *)
THEOREM BaselineTruthful == Spec => []TruthfulBaseline
<1>1. IInv => TruthfulBaseline
  BY Zenon DEF IInv, CheckersFollow, Aligned, TruthfulBaseline
<1> QED  BY <1>1, AlwaysIInv, PTL
=============================================================================
