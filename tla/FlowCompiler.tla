---------------------------- MODULE FlowCompiler ----------------------------
(***************************************************************************)
(* pw_flow_compile (flow_compiler.c): a validated configuration into one   *)
(* program per card.  A program under construction is carried with the     *)
(* status of the steps so far, [st |-> status, cp |-> the card's program]  *)
(* or, for several cards, [st |-> status, out |-> the whole program]; after*)
(* an error nothing more is appended.  A 32-bit word is the set of its one *)
(* bits; the bucket hash is computed on bytes, low byte first.             *)
(***************************************************************************)
EXTENDS ConfigValidate, SequencesExt

CONSTANTS
    FLOW_TABLE_ROWS,    \* flow-table rows of a card
    FLOWID_MAP_DEPTH,   \* test flow ids the map can index
    NUM_CMP, NUM_UDF, NUM_RULE,   \* field classifier capacities
    HASH_BITS,          \* log2 of the hash table's buckets
    SEED_ATTEMPTS,      \* seeds the search tries
    TOKEN_ONE,          \* one byte in the token bucket's fixed point
    CLOCK_HZ,           \* data-plane clock
    TOKENS_MAX,         \* largest tokens_per_tick_fp
    RATE_MAX,           \* where rate_pps x bytes x 8 saturates
    BURST_MAX           \* largest burst_bytes

HASH_DEPTH == 2^HASH_BITS
NoSeed == [i \in 0..3 |-> 0]

\* pw_card_program and pw_program as calloc leaves them.
EmptyCard == [ flow_rows |-> <<>>, map |-> <<>>, cmps |-> <<>>, udfs |-> <<>>,
               rules |-> <<>>, hash |-> <<>>, hash_seed |-> NoSeed,
               hash_mask |-> [w \in 0..10 |-> {}] ]
EmptyProgram(cfg) ==
    [ per_card |-> [c \in {cfg.cards[i].id : i \in DOMAIN cfg.cards} |-> EmptyCard],
      flow_meta |-> <<>> ]

-----------------------------------------------------------------------------
\* Field classifier tables.

\* The comparators of one rule: one already in the table, by source, mask and
\* value, is shared; the rest are appended in order.  The comparators of a rule
\* have different sources.
append_fc_cmp(acc, cmps) ==
    LET all == acc.cp.cmps \o SelectSeq(cmps, LAMBDA c : c \notin Range(acc.cp.cmps))
        care == {i - 1 : i \in {j \in DOMAIN all : all[j] \in Range(cmps)}}
    IN  IF acc.st # OK THEN acc
        ELSE IF Len(all) > NUM_CMP THEN [acc EXCEPT !.st = "NO_RESOURCES"]
        ELSE [acc EXCEPT !.cp.cmps = all, !.care = care]

\* User-defined-field comparators: their care bits follow the NUM_CMP others.
append_fc_udf(acc, udfs) ==
    LET all == acc.cp.udfs \o SelectSeq(udfs, LAMBDA u : u \notin Range(acc.cp.udfs))
        care == {NUM_CMP + i - 1 : i \in {j \in DOMAIN all : all[j] \in Range(udfs)}}
    IN  IF acc.st # OK THEN acc
        ELSE IF Len(all) > NUM_UDF THEN [acc EXCEPT !.st = "NO_RESOURCES"]
        ELSE [acc EXCEPT !.cp.udfs = all, !.care = @ \cup care]

append_fc_rule(acc, rule) ==
    IF acc.st # OK THEN acc
    ELSE IF Len(acc.cp.rules) >= NUM_RULE THEN [acc EXCEPT !.st = "NO_RESOURCES"]
    ELSE [acc EXCEPT !.cp.rules = Append(@, rule)]

Cmp(src, mask, value) == [src |-> src, mask |-> mask, value |-> value]
When(cond, cmp) == IF cond THEN << cmp >> ELSE <<>>

\* The comparators of an address match, from the high word down; a word the
\* mask leaves out has none, and the value is masked before the comparison.
ipv6_cmps(lanes, cidr) ==
    LET mask == pw_v6_prefix_mask(cidr.prefix)
    IN  FoldLeft(LAMBDA s, w : s \o When(mask[w] # {},
                     Cmp(lanes[w], mask[w], cidr.addr[w] \cap mask[w])),
                 <<>>, << 3, 2, 1, 0 >>)
DstLanes == [w \in 0..3 |-> <<"IPV6_DST_0", "IPV6_DST_1", "IPV6_DST_2", "IPV6_DST_3">>[w + 1]]
SrcLanes == [w \in 0..3 |-> <<"IPV6_SRC_0", "IPV6_SRC_1", "IPV6_SRC_2", "IPV6_SRC_3">>[w + 1]]

\* The number n as the set of its one bits.
BitsOf(n) == {b \in 0..15 : (n \div 2^b) % 2 = 1}
ETH_IPV4 == BitsOf(2048)
ETH_IPV6 == BitsOf(34525)

\* One rule: its comparators, its UDF comparators, then the rule itself with
\* the care bits they were given.
add_rule(acc, cmps, udfs, result) ==
    LET matched == append_fc_udf(append_fc_cmp(acc, cmps), udfs)
    IN  append_fc_rule(matched, [care |-> matched.care] @@ result)

\* A PUNT rule of logical interface l; eth, l3p and port 0 are not matched on.
add_punt_rule(acc, local_port, l, eth, l3p, l4lane, port, udf, prio) ==
    add_rule(acc,
        << Cmp("INGRESS", 0..3, BitsOf(local_port)) >>
        \o When(l.vlan # {}, Cmp("VLAN", 0..11, l.vlan))
        \o When(eth # 0, Cmp("ETHERTYPE", 0..15, BitsOf(eth)))
        \o When(l3p # 0, Cmp("L3_PROTO", 0..7, BitsOf(l3p)))
        \o When(port # 0, Cmp(l4lane, 0..15, BitsOf(port))),
        When(udf # {}, [offset |-> 0, mask |-> 16..31, value |-> udf]),
        [ action |-> "PUNT_TO_HOST", egress |-> 0, logical_if_id |-> l.id,
          priority |-> prio ])

\* DSAP = SSAP = 0xFE in the high half of the lane.
ISIS_UDF == {b + 16 : b \in BitsOf(65278)}

\* The PUNT lines of compile_punt_rules: <<flags that must be set, ethertype,
\* protocol, port lane, port, UDF, priority>>.
PuntTable ==
    << << {"arp"}, 2054, 0, "L4_DST", 0, {}, 20 >>,
       << {"ipv6_nd"}, 34525, 58, "L4_DST", 0, {}, 20 >>,
       << {"lldp"}, 35020, 0, "L4_DST", 0, {}, 20 >>,
       << {"icmp"}, 2048, 1, "L4_DST", 0, {}, 25 >>,
       << {"bgp"}, 2048, 6, "L4_DST", 179, {}, 30 >>,
       << {"bgp"}, 2048, 6, "L4_SRC", 179, {}, 30 >>,
       << {"ospf"}, 2048, 89, "L4_DST", 0, {}, 30 >>,
       << {"ospf", "ipv6_nd"}, 34525, 89, "L4_DST", 0, {}, 30 >>,
       << {"bgp", "ipv6_nd"}, 34525, 6, "L4_DST", 179, {}, 30 >>,
       << {"bgp", "ipv6_nd"}, 34525, 6, "L4_SRC", 179, {}, 30 >>,
       << {"is_is"}, 0, 0, "L4_DST", 0, ISIS_UDF, 30 >> >>

\* Apply Step to the program of one card of out.
OnCard(out, card, Step(_)) ==
    LET r == Step([st |-> OK, cp |-> out.per_card[card], care |-> {}])
    IN  [st |-> r.st, out |-> [out EXCEPT !.per_card[card] = r.cp]]

compile_punt_rules(out, cfg, i) ==
    LET l == cfg.logical_if[i]
        ref == pw_config_resolve_port(cfg, l.global_port)
        rows == SelectSeq(PuntTable, LAMBDA p : p[1] \subseteq l.punt)
        step(acc) == FoldLeft(LAMBDA a, p : add_punt_rule(a, ref.local_port, l, p[2], p[3],
                                                         p[4], p[5], p[6], p[7]),
                              acc, rows)
    IN  OnCard(out, ref.card_id, step)

MutForwardCmps(fr, local_port) ==
    << Cmp("INGRESS", 0..3, BitsOf(local_port)) >>
    \o When(fr.ethertype # {}, Cmp("ETHERTYPE", 0..15, fr.ethertype))
    \o When(fr.ip_proto # {}, Cmp("L3_PROTO", 0..7, fr.ip_proto))
    \o When(fr.udp_dst # {}, Cmp("L4_DST", 0..15, fr.udp_dst))
    \o When(fr.ipv6_dst_set \/ fr.ipv6_src_set, Cmp("FLAGS", {3}, {3}))
    \o (IF fr.ipv6_dst_set THEN ipv6_cmps(DstLanes, fr.ipv6_dst) ELSE <<>>)
    \o (IF fr.ipv6_src_set THEN ipv6_cmps(SrcLanes, fr.ipv6_src) ELSE <<>>)

\* What a forward rule matches on; an address match also requires is_ipv6.
forward_cmps(fr, local_port) ==
    << Cmp("INGRESS", 0..3, BitsOf(local_port)) >>
    \o When(fr.vlan # {}, Cmp("VLAN", 0..11, fr.vlan))
    \o When(fr.ethertype # {}, Cmp("ETHERTYPE", 0..15, fr.ethertype))
    \o When(fr.ip_proto # {}, Cmp("L3_PROTO", 0..7, fr.ip_proto))
    \o When(fr.udp_dst # {}, Cmp("L4_DST", 0..15, fr.udp_dst))
    \o When(fr.ipv6_dst_set \/ fr.ipv6_src_set, Cmp("FLAGS", {3}, {3}))
    \o (IF fr.ipv6_dst_set THEN ipv6_cmps(DstLanes, fr.ipv6_dst) ELSE <<>>)
    \o (IF fr.ipv6_src_set THEN ipv6_cmps(SrcLanes, fr.ipv6_src) ELSE <<>>)

compile_forward_rules(out, cfg, i) ==
    LET fr == cfg.forwards[i]
        ing == pw_config_resolve_port(cfg, fr.ingress_port)
        egr == pw_config_resolve_port(cfg, fr.egress_port)
        step(acc) == add_rule(acc, forward_cmps(fr, ing.local_port), <<>>,
            [ action |-> "FORWARD_PORT", egress |-> egr.local_port,
              logical_if_id |-> 0, priority |-> fr.priority ])
    IN  IF ing.card_id # egr.card_id THEN [st |-> "INVAL", out |-> out]
        ELSE OnCard(out, ing.card_id, step)

-----------------------------------------------------------------------------
\* Hash exact table.

\* A 16-bit field in the high half of a word.
High(bits) == {b + 16 : b \in bits}
EtherType(v6) == IF v6 THEN ETH_IPV6 ELSE ETH_IPV4

\* The key of a flow's header: l3_dst words 0..3, l3_src 4..7, the ports in 8,
\* VLAN and EtherType in 9, the protocol in 10.
pw_fc_hash_words(f) ==
    LET vlan == IF f.vlan_set THEN f.vlan ELSE {}
        l2 == f.template = "eth"
        et == IF l2 /\ f.ethertype # {} THEN f.ethertype ELSE EtherType(f.v6)
        word(w) == CASE l2 /\ w # 9 -> {}
                     [] w \in 0..3  -> f.dst[w]
                     [] w \in 4..7  -> f.src[w - 4]
                     [] w = 8       -> IF f.template = "ip" THEN {}
                                       ELSE High(f.src_port) \cup f.dst_port
                     [] w = 9       -> High(vlan) \cup et
                     [] w = 10      -> BitsOf(f.l4_proto)
    IN  [w \in 0..10 |-> word(w)]

\* Bytes of a word and the low 32 bits of a product.
Byte(word, i) == MapThenSumSet(LAMBDA b : 2^b, {b \in 0..7 : 8 * i + b \in word})
Mul32(a, s) ==
    LET r0 == a[0] * s[0]
        r1 == a[1] * s[0] + a[0] * s[1] + r0 \div 256
        r2 == a[2] * s[0] + a[1] * s[1] + a[0] * s[2] + r1 \div 256
        r3 == a[3] * s[0] + a[2] * s[1] + a[1] * s[2] + a[0] * s[3] + r2 \div 256
    IN  [i \in 0..3 |-> <<r0, r1, r2, r3>>[i + 1] % 256]

\* XOR-fold and multiply-shift: bit b of the fold is the parity of the words
\* that have it; the bucket is the top HASH_BITS bits of the product.
pw_fc_hash_index(key, seed) ==
    LET fold == {b \in Word : Cardinality({w \in 0..10 : b \in key[w]}) % 2 = 1}
        odd == [seed EXCEPT ![0] = IF @ % 2 = 0 THEN @ + 1 ELSE @]
    IN  Mul32([i \in 0..3 |-> Byte(fold, i)], odd)[3] \div 2^(8 - HASH_BITS)

append_hash_entry(acc, key, lfid) ==
    IF Len(acc.cp.hash) >= HASH_DEPTH THEN [acc EXCEPT !.st = "NO_RESOURCES"]
    ELSE [acc EXCEPT !.cp.hash = Append(@, [index |-> 0, key |-> key, lfid |-> lfid])]

\* The bits of word w of the key that flow f's modifiers rotate.
Rotated(mod, width) == IF mod.mode = "static" THEN {} ELSE mod.mask \cap (0..(width - 1))
RotatedWord(mod, w) == IF mod.mode = "static" THEN {} ELSE mod.mask[w] \cap Word

MutRelax(mask, f) ==
    [w \in 0..10 |->
        CASE w = 0      -> ((mask[0] \ RotatedWord(f.mod.dst, 0)) \cap f.match_ipv4_dst)
                               \cap f.match_ipv6_dst[0]
          [] w \in 1..3 -> mask[w] \cap f.match_ipv6_dst[w]
          [] w \in 4..7 -> (mask[w] \ RotatedWord(f.mod.src, w - 4))
                               \cap f.match_ipv6_src[w - 4]
          [] w = 8      -> ((mask[8] \ Rotated(f.mod.udp_dst, 16))
                               \cap (High(0..15) \cup f.match_udp_dst))
                               \ High(Rotated(f.mod.udp_src, 16))
          [] w = 9      -> mask[9] \ High(Rotated(f.mod.vlan, 12))
          [] w = 10     -> mask[10]]

\* Modifiers clear the bits they rotate, match masks narrow.  The high address
\* words of an IPv4 flow have no modifier bits, so one case serves both families.
pw_fc_relax_mask(mask, f) ==
    [w \in 0..10 |->
        CASE w = 0      -> ((mask[0] \ RotatedWord(f.mod.dst, 0)) \cap f.match_ipv4_dst)
                               \cap f.match_ipv6_dst[0]
          [] w \in 1..3 -> (mask[w] \ RotatedWord(f.mod.dst, w)) \cap f.match_ipv6_dst[w]
          [] w \in 4..7 -> (mask[w] \ RotatedWord(f.mod.src, w - 4))
                               \cap f.match_ipv6_src[w - 4]
          [] w = 8      -> ((mask[8] \ Rotated(f.mod.udp_dst, 16))
                               \cap (High(0..15) \cup f.match_udp_dst))
                               \ High(Rotated(f.mod.udp_src, 16))
          [] w = 9      -> mask[9] \ High(Rotated(f.mod.vlan, 12))
          [] w = 10     -> mask[10]]

\* The mask of a card: every bit, relaxed by each header-classified flow that
\* is received there, background flows included.
hash_mask(cfg, card) ==
    FoldLeft(LAMBDA m, f :
                 IF f.classify_header /\ pw_config_resolve_port(cfg, f.rx).card_id = card
                 THEN pw_fc_relax_mask(m, f) ELSE m,
             [w \in 0..10 |-> Word], cfg.flows)

\* seed(attempt) = 0x9E3779B1 * (attempt + 1) + 1.
Seed(attempt) ==
    LET k == attempt + 1
        r0 == 177 * k + 1
        r1 == 121 * k + r0 \div 256
        r2 == 55 * k + r1 \div 256
        r3 == 158 * k + r2 \div 256
    IN  [i \in 0..3 |-> <<r0, r1, r2, r3>>[i + 1] % 256]

\* The first seed that puts every key in a bucket of its own.
seed_search(keys) ==
    LET collides(s) == \E i, j \in DOMAIN keys :
            i < j /\ pw_fc_hash_index(keys[i], s) = pw_fc_hash_index(keys[j], s)
        good == {a \in 0..(SEED_ATTEMPTS - 1) : ~collides(Seed(a))}
    IN  IF good = {} THEN [found |-> FALSE, seed |-> NoSeed]
        ELSE [found |-> TRUE, seed |-> Seed(Min(good))]

\* The per-card pass over the hash table.
place_hash(out, cfg, card) ==
    LET cp == out.per_card[card]
        mask == hash_mask(cfg, card)
        keys == [i \in DOMAIN cp.hash |->
                    [w \in 0..10 |-> cp.hash[i].key[w] \cap mask[w]]]
        search == seed_search(keys)
        placed == [i \in DOMAIN cp.hash |->
                    [ cp.hash[i] EXCEPT !.key = keys[i],
                          !.index = pw_fc_hash_index(keys[i], search.seed) ]]
    IN  IF cp.hash = <<>> THEN [st |-> OK, out |-> out]
        ELSE IF \E i, j \in DOMAIN keys : i # j /\ keys[i] = keys[j]
        THEN [st |-> "INVAL", out |-> out]
        ELSE IF ~search.found THEN [st |-> "NO_RESOURCES", out |-> out]
        ELSE [ st |-> OK,
               out |-> [out EXCEPT !.per_card[card].hash = placed,
                                   !.per_card[card].hash_mask = mask,
                                   !.per_card[card].hash_seed = search.seed] ]

-----------------------------------------------------------------------------
\* Flow rows.

MutMinFrame(f) ==
    14 + (IF f.vlan_set THEN 4 ELSE 0) + (IF f.v6 THEN 40 ELSE 20)
       + (IF f.l4_proto = 6 THEN 20 ELSE 8) + 32

\* The shortest frame the generator builds for f, in bytes.
pw_flow_min_legal_frame(f) ==
    LET l2 == 14 + (IF f.vlan_set THEN 4 ELSE 0)
        ip(v6) == IF v6 THEN 40 ELSE 20
        tunnel == CASE f.encap = "none"    -> 0
                    [] f.encap = "ipip"    -> ip(f.outer_v6)
                    [] f.encap = "gre"     -> ip(f.outer_v6) + 4
                    [] f.encap = "etherip" -> ip(f.outer_v6) + 16
    IN  CASE f.template = "eth" -> l2
          [] f.template = "ip"  -> l2 + ip(f.v6)
          [] OTHER -> l2 + tunnel + ip(f.v6) + (IF f.l4_proto = 6 THEN 20 ELSE 8)
                         + (IF f.template = "test" THEN 32 ELSE 0)

\* Header fields of the TX row; a modifier mask is cut to the field's width.
tx_header(f) ==
    LET cut(mod, width) == [mod EXCEPT !.mask = @ \cap (0..(width - 1))]
        cut128(mod) == [mod EXCEPT !.mask = [w \in 0..3 |-> @[w] \cap Word]]
    IN  [ vlan_enable |-> f.vlan_set, vlan_id |-> f.vlan, v6 |-> f.v6,
          src |-> f.src, dst |-> f.dst, encap_type |-> f.encap,
          outer_v6 |-> f.outer_v6, udp_src_port |-> f.src_port,
          udp_dst_port |-> f.dst_port, l4_proto |-> f.l4_proto,
          frame_template |-> f.template, l2_ethertype |-> f.ethertype,
          mod |-> [ src |-> cut128(f.mod.src), dst |-> cut128(f.mod.dst),
                    udp_src |-> cut(f.mod.udp_src, 16),
                    udp_dst |-> cut(f.mod.udp_dst, 16), vlan |-> cut(f.mod.vlan, 12) ] ]

\* Fixed length or range.
tx_lengths(f) ==
    IF f.fixed_set
    THEN [min |-> f.frame_len_fixed, max |-> f.frame_len_fixed, step |-> 1]
    ELSE [ min |-> f.frame_len_min, max |-> f.frame_len_max,
           step |-> IF f.frame_len_step = 0 THEN 1 ELSE f.frame_len_step ]

\* Bytes per cycle in fixed point, from the bit rate or from the frame rate
\* times the metered frame.
tokens_per_tick_fp(f) ==
    LET flen == Max({tx_lengths(f).min, pw_flow_min_legal_frame(f)})
        rate == IF f.rate_bps # 0 THEN f.rate_bps
                ELSE Min({f.rate_pps * flen * 8, RATE_MAX})
    IN  Min({(rate * TOKEN_ONE) \div (CLOCK_HZ * 8), TOKENS_MAX})

\* The bucket's capacity in bytes: burst_size frames, at least one.
burst_bytes(f) ==
    LET flen == Max({IF tx_lengths(f).max = 0 THEN 1518 ELSE tx_lengths(f).max,
                     pw_flow_min_legal_frame(f)})
        frames == IF f.burst_size = 0 THEN 1 ELSE f.burst_size
    IN  Min({Max({frames * flen, flen}), BURST_MAX})

MutCompileSlots(out, cfg, f) ==
    LET tx == pw_config_resolve_port(cfg, f.tx)
        rx == pw_config_resolve_port(cfg, f.rx)
    IN  [ tx |-> tx, rx |-> rx, same_card |-> tx.card_id = rx.card_id,
          tx_lfid |-> Len(out.per_card[tx.card_id].flow_rows),
          rx_lfid |-> Len(out.per_card[tx.card_id].flow_rows) ]

\* The flow's ports and the rows it takes: background flows take no RX row.
flow_slots(out, cfg, f) ==
    LET tx == pw_config_resolve_port(cfg, f.tx)
        rx == pw_config_resolve_port(cfg, f.rx)
        same_card == tx.card_id = rx.card_id
        tx_lfid == Len(out.per_card[tx.card_id].flow_rows)
    IN  [ tx |-> tx, rx |-> rx, same_card |-> same_card, tx_lfid |-> tx_lfid,
          rx_lfid |-> IF same_card \/ f.background THEN tx_lfid
                      ELSE Len(out.per_card[rx.card_id].flow_rows) ]

flow_capacity(out, f, s) ==
    LET full(card) == Len(out.per_card[card].flow_rows) >= FLOW_TABLE_ROWS
    IN  Check(/\ ~full(s.tx.card_id)
              /\ (~s.same_card /\ ~f.background) => ~full(s.rx.card_id), "NO_RESOURCES")

tx_row(f, s) ==
    [ egress_local_port |-> s.tx.local_port, global_flow_id |-> f.id,
      local_flow_id |-> s.tx_lfid, header |-> tx_header(f), len |-> tx_lengths(f),
      tokens |-> tokens_per_tick_fp(f), burst_bytes |-> burst_bytes(f),
      tx_enable |-> TRUE, rx_check_enable |-> s.same_card /\ ~f.background ]

rx_row(f, s) ==
    [ tx_row(f, s) EXCEPT !.local_flow_id = s.rx_lfid,
          !.egress_local_port = s.rx.local_port, !.tx_enable = FALSE,
          !.rx_check_enable = TRUE ]

flow_meta(f, s) ==
    [ global_flow_id |-> f.id, tx_card_id |-> s.tx.card_id,
      rx_card_id |-> s.rx.card_id, tx_local_flow_id |-> s.tx_lfid,
      rx_local_flow_id |-> s.rx_lfid, latency_valid |-> s.same_card /\ ~f.background,
      rx_slot_valid |-> ~f.background ]

\* RX identification: the hash key of the header, or the flow-id map.
rx_classify(acc, f, lfid) ==
    IF f.classify_header THEN append_hash_entry(acc, pw_fc_hash_words(f), lfid)
    ELSE IF f.id >= FLOWID_MAP_DEPTH THEN [acc EXCEPT !.st = "INVAL"]
    ELSE [acc EXCEPT !.cp.map = Append(@, [flow_id |-> f.id, lfid |-> lfid])]

compile_one_flow(out, cfg, i) ==
    LET f == cfg.flows[i]
        s == flow_slots(out, cfg, f)
        add(card, row) == [out EXCEPT !.per_card[card].flow_rows = Append(@, row),
                                      !.flow_meta = Append(@, flow_meta(f, s))]
        sent == add(s.tx.card_id, tx_row(f, s))
        both == IF s.same_card THEN sent
                ELSE [sent EXCEPT !.per_card[s.rx.card_id].flow_rows =
                                      Append(@, rx_row(f, s))]
        step(acc) == rx_classify(acc, f, s.rx_lfid)
    IN  CASE flow_capacity(out, f, s) # OK -> [st |-> "NO_RESOURCES", out |-> out]
          [] f.background -> [st |-> OK, out |-> sent]
          [] OTHER -> OnCard(both, s.rx.card_id, step)
=============================================================================
