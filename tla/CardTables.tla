----------------------------- MODULE CardTables -----------------------------
(***************************************************************************)
(* Programming the tables of one card: the sequence of CSR writes of       *)
(* pw_program_card_tables_diag (sw/libpacketwyrm/src/programming.c) and    *)
(* what each write does behind pw_csr_full.sv.  Entries wider than a word  *)
(* are staged in an accumulator that all entries of a table share, and the *)
(* write of the entry's last word copies it to the table: pw_field_        *)
(* classifier.sv (comparators, rules), pw_hash_classifier.sv (buckets),    *)
(* pw_flowid_map.sv and the staged flow rows of pw_flow_table_bram.sv.     *)
(*                                                                         *)
(* A word is abstracted to the part of the entry it carries; the words of  *)
(* a comparator before its last one are one part, and so are the key words *)
(* of a bucket.  User-defined fields are programmed like comparators.      *)
(***************************************************************************)
EXTENDS Integers, Sequences, SequencesExt

CONSTANTS NUM_CMP, NUM_RULE, MAP_DEPTH, HASH_DEPTH,
          NUM_ROWS,     \* flow rows the card implements
          Programs,     \* compiled card programs
          MaxFaults     \* bound: backend writes that fail

ASSUME SizesAssumption == {NUM_CMP, NUM_RULE, MAP_DEPTH, HASH_DEPTH, NUM_ROWS, MaxFaults} \subseteq Nat

Off == "off"            \* an invalid or disabled entry
Stale == "power-up"     \* an accumulator nothing was written to

VARIABLES rows_stg, rows,              \* flow rows: staged, live
          flowid_map, cmps, rules, hash, hash_mask,
          cmp_acc, rule_acc, hash_acc, \* the staging accumulators
          cp,                          \* program being written, or last one
          step,                        \* writes done so far
          busy, worst,
          faults
live == <<rows, flowid_map, cmps, rules, hash, hash_mask>>
csr == <<rows_stg, live, cmp_acc, rule_acc, hash_acc>>
vars == <<csr, cp, step, busy, worst, faults>>

W(win, idx, sub, val) == [win |-> win, idx |-> idx, sub |-> sub, val |-> val]
For(n, Word(_)) == [i \in 1..n |-> Word(i - 1)]
-----------------------------------------------------------------------------
\* The writes of one program, table by table.
RowWrites(p) ==
  For(NUM_ROWS, LAMBDA r : W("row", r, 0, IF r < Len(p.rows) THEN p.rows[r + 1] ELSE Off))
  \o <<W("commit", 0, 0, Off)>>

MapWrites(p) ==
  For(MAP_DEPTH, LAMBDA i : W("map", i, 0, Off))
  \o [k \in 1..Len(p.map) |-> W("map", p.map[k].flow_id, 0, p.map[k].lfid)]

CmpWrites(p) ==
  FlattenSeq([k \in 1..Len(p.cmps) |-> <<W("cmp", k - 1, 0, p.cmps[k].src),
                                         W("cmp", k - 1, 8, p.cmps[k].value)>>])

MutRuleWrites(p) ==     \* the word that commits is not the last one
  FlattenSeq([k \in 1..NUM_RULE |->
    IF k <= Len(p.rules)
    THEN <<W("rule", k - 1, 8, p.rules[k].lif), W("rule", k - 1, 0, p.rules[k].care),
           W("rule", k - 1, 4, p.rules[k].lfid)>>
    ELSE <<W("rule", k - 1, 0, Off)>>])

\* A configured rule takes three words, a disabled one only the first.
RuleWrites(p) ==
  FlattenSeq([k \in 1..NUM_RULE |->
    IF k <= Len(p.rules)
    THEN <<W("rule", k - 1, 0, p.rules[k].care), W("rule", k - 1, 4, p.rules[k].lfid),
           W("rule", k - 1, 8, p.rules[k].lif)>>
    ELSE <<W("rule", k - 1, 0, Off)>>])

MutHashWrites(p) ==     \* only the buckets of the new program are written
  IF Len(p.hash) = 0 THEN <<>>
  ELSE <<W("mask", 0, 0, p.mask)>>
       \o FlattenSeq([k \in 1..Len(p.hash) |->
            <<W("hash", p.hash[k].index, 0, p.hash[k].key),
              W("hash", p.hash[k].index, 44, p.hash[k].lfid)>>])

\* Every bucket is invalidated before the mask may change.
HashWrites(p) ==
  For(HASH_DEPTH, LAMBDA b : W("hash", b, 44, Off))
  \o IF Len(p.hash) = 0 THEN <<>>
     ELSE <<W("mask", 0, 0, p.mask)>>
          \o FlattenSeq([k \in 1..Len(p.hash) |->
               <<W("hash", p.hash[k].index, 0, p.hash[k].key),
                 W("hash", p.hash[k].index, 44, p.hash[k].lfid)>>])

Script(p) == RowWrites(p) \o MapWrites(p) \o CmpWrites(p) \o RuleWrites(p) \o HashWrites(p)
-----------------------------------------------------------------------------
\* What the card does with a write.
RowWrite(w) ==
  /\ IF w.win = "commit" THEN rows' = rows_stg /\ UNCHANGED rows_stg
                         ELSE rows_stg' = [rows_stg EXCEPT ![w.idx] = w.val] /\ UNCHANGED rows
  /\ UNCHANGED <<flowid_map, cmps, rules, hash, hash_mask, cmp_acc, rule_acc, hash_acc>>

MapWrite(w) ==
  /\ flowid_map' = [flowid_map EXCEPT ![w.idx] = w.val]
  /\ UNCHANGED <<rows_stg, rows, cmps, rules, hash, hash_mask, cmp_acc, rule_acc, hash_acc>>

CmpWrite(w) ==
  /\ IF w.sub = 8
     THEN /\ cmps' = [cmps EXCEPT ![w.idx] = [src |-> cmp_acc, value |-> w.val]]
          /\ UNCHANGED cmp_acc
     ELSE cmp_acc' = w.val /\ UNCHANGED cmps
  /\ UNCHANGED <<rows_stg, rows, flowid_map, rules, hash, hash_mask, rule_acc, hash_acc>>

\* The enable bit is part of word 0: care = Off stands for enable = 0, as
\* lfid = Off stands for valid = 0 in a bucket.
RuleWrite(w) ==
  /\ IF w.sub = 8
     THEN /\ rules' = [rules EXCEPT ![w.idx] = [care |-> rule_acc.care, lfid |-> rule_acc.lfid,
                                                lif |-> w.val]]
          /\ UNCHANGED rule_acc
     ELSE /\ rule_acc' = IF w.sub = 0 THEN [rule_acc EXCEPT !.care = w.val]
                                      ELSE [rule_acc EXCEPT !.lfid = w.val]
          /\ UNCHANGED rules
  /\ UNCHANGED <<rows_stg, rows, flowid_map, cmps, hash, hash_mask, cmp_acc, hash_acc>>

HashWrite(w) ==
  /\ IF w.win = "mask" THEN hash_mask' = w.val /\ UNCHANGED <<hash, hash_acc>>
     ELSE IF w.sub = 44
          THEN /\ hash' = [hash EXCEPT ![w.idx] = [key |-> hash_acc, lfid |-> w.val]]
               /\ UNCHANGED <<hash_acc, hash_mask>>
          ELSE hash_acc' = w.val /\ UNCHANGED <<hash, hash_mask>>
  /\ UNCHANGED <<rows_stg, rows, flowid_map, cmps, rules, cmp_acc, rule_acc>>

CsrWrite(w) ==
  \/ w.win \in {"row", "commit"} /\ RowWrite(w)
  \/ w.win = "map" /\ MapWrite(w)
  \/ w.win = "cmp" /\ CmpWrite(w)
  \/ w.win = "rule" /\ RuleWrite(w)
  \/ w.win \in {"hash", "mask"} /\ HashWrite(w)
-----------------------------------------------------------------------------
NoProgram == [rows |-> <<>>, map |-> <<>>, cmps |-> <<>>, rules |-> <<>>, hash |-> <<>>,
              mask |-> Off]

Init ==
  /\ rows_stg = [r \in 0..(NUM_ROWS - 1) |-> Off] /\ rows = rows_stg
  /\ flowid_map = [i \in 0..(MAP_DEPTH - 1) |-> Off]
  /\ cmps = [i \in 0..(NUM_CMP - 1) |-> [src |-> Off, value |-> Off]]
  /\ rules = [i \in 0..(NUM_RULE - 1) |-> [care |-> Off, lfid |-> Off, lif |-> Off]]
  /\ hash = [b \in 0..(HASH_DEPTH - 1) |-> [key |-> Off, lfid |-> Off]] /\ hash_mask = Off
  /\ cmp_acc = Stale /\ rule_acc = [care |-> Stale, lfid |-> Stale] /\ hash_acc = Stale
  /\ cp = NoProgram /\ step = 0 /\ busy = FALSE /\ worst = "OK" /\ faults = 0

\* A program is checked against the windows and then against the rows the
\* card implements before any write.
Rejection(p) ==
  IF \/ Len(p.cmps) > NUM_CMP \/ Len(p.rules) > NUM_RULE \/ Len(p.hash) > HASH_DEPTH
     \/ \E k \in 1..Len(p.map) : p.map[k].flow_id >= MAP_DEPTH
     \/ \E k \in 1..Len(p.hash) : p.hash[k].index >= HASH_DEPTH
  THEN "INVAL"
  ELSE IF Len(p.rows) > NUM_ROWS THEN "NO_RESOURCES" ELSE "OK"

Begin(p) ==
  /\ ~busy
  /\ worst' = Rejection(p)
  /\ IF worst' = "OK" THEN cp' = p /\ step' = 0 /\ busy' = TRUE
                      ELSE UNCHANGED <<cp, step, busy>>
  /\ UNCHANGED <<csr, faults>>

Current == Script(cp)[step + 1]

WriteOk ==
  /\ busy /\ step < Len(Script(cp))
  /\ CsrWrite(Current)
  /\ step' = step + 1
  /\ UNCHANGED <<cp, busy, worst, faults>>

MutWriteFails ==        \* the last status wins: an error is not kept
  /\ busy /\ step < Len(Script(cp)) /\ faults < MaxFaults
  /\ step' = step + 1 /\ faults' = faults + 1
  /\ UNCHANGED <<csr, cp, busy, worst>>

\* CHK: the first hard status is kept and the sequence goes on.
WriteFails ==
  /\ busy /\ step < Len(Script(cp)) /\ faults < MaxFaults
  /\ worst' = IF worst = "OK" THEN "IO" ELSE worst
  /\ step' = step + 1 /\ faults' = faults + 1
  /\ UNCHANGED <<csr, cp, busy>>

Return ==
  /\ busy /\ step = Len(Script(cp))
  /\ busy' = FALSE
  /\ UNCHANGED <<csr, cp, step, worst, faults>>

Next == WriteOk \/ WriteFails \/ Return \/ \E p \in Programs : Begin(p)

Spec == Init /\ [][Next]_vars
-----------------------------------------------------------------------------
Programmed == ~busy /\ worst = "OK" /\ cp # NoProgram

MapOf(p) == [i \in 0..(MAP_DEPTH - 1) |->
               IF \E k \in 1..Len(p.map) : p.map[k].flow_id = i
               THEN p.map[CHOOSE k \in 1..Len(p.map) : p.map[k].flow_id = i].lfid ELSE Off]

\* The valid buckets, and those a program asks for.
Buckets == {[index |-> b, key |-> hash[b].key, lfid |-> hash[b].lfid] :
              b \in {i \in DOMAIN hash : hash[i].lfid # Off}}
BucketsOf(p) == {p.hash[k] : k \in 1..Len(p.hash)}
RowsOf(p) == [r \in 0..(NUM_ROWS - 1) |-> IF r < Len(p.rows) THEN p.rows[r + 1] ELSE Off]

(* A programming that reports success has put every configured entry in    *)
(* place, whole, and has removed every flow row, map entry and bucket of   *)
(* the program before it, also after a programming that failed half way    *)
(* and left partial entries in the accumulators (programming.c:111-185).   *)
ConfiguredEntriesLive ==
  Programmed =>
    /\ rows = RowsOf(cp) /\ flowid_map = MapOf(cp) /\ Buckets = BucketsOf(cp)
    /\ \A i \in 1..Len(cp.cmps) : cmps[i - 1] = cp.cmps[i]
    /\ \A i \in 1..Len(cp.rules) : rules[i - 1] = cp.rules[i]

(* No entry a frame can hit is a mixture of words of two entries: as long  *)
(* as no write has failed, each rule and bucket in the tables is one that  *)
(* some program has at that place, although the words of an entry arrive   *)
(* one by one while traffic is classified (pw_csr_full.sv:347-349).        *)
EntriesWhole ==
  faults = 0 =>
    /\ \A i \in DOMAIN rules : rules[i].care # Off =>
         \E p \in Programs : i < Len(p.rules) /\ p.rules[i + 1] = rules[i]
    /\ \A b \in Buckets : \E p \in Programs : b \in BucketsOf(p)

(* A valid bucket is only ever looked up with the key mask it was compiled *)
(* for: buckets are invalidated before the mask changes and written after  *)
(* it (programming.c:170-185).                                             *)
BucketsMatchMask ==
  faults = 0 => \A b \in Buckets : \E p \in Programs : p.mask = hash_mask /\ b \in BucketsOf(p)

(* "all others invalidated (... rules enable=0 ...)" (programming.c:8-9):  *)
(* after a successful programming no rule but the configured ones is       *)
(* enabled.                                                                *)
OtherRulesDisabled ==
  Programmed => \A i \in Len(cp.rules)..(NUM_RULE - 1) : rules[i].care = Off
=============================================================================
