----------------------------- MODULE ConfigLoad -----------------------------
(***************************************************************************)
(* From a text to a running program: the start of packetwyrmd (environment *)
(* file, optional test file) and the config.load RPC, with the parser, the *)
(* validator and the compiler they share.  A compilation is one step per   *)
(* loop iteration of pw_flow_compile.  The lower part is the card that runs*)
(* the program: the frames the generator builds from a flow row and how    *)
(* the receiving card classifies a frame.  Properties compare the two ends.*)
(***************************************************************************)
EXTENDS FlowCompiler

CONSTANTS
    EnvTexts,    \* texts the environment file may hold
    TestTexts,   \* texts a test file or a config.load may hold
    MaxLoads,    \* bound: config.load requests
    Rotations,   \* words a field modifier may rotate in
    FrameKeys    \* keys of received frames the rules are compared on

ASSUME LoadAssumption ==
    /\ PW_PORTS_PER_CARD \in 1..16 /\ PW_MAX_CARDS \in Nat \ {0}
    /\ HASH_BITS \in 1..8 /\ SEED_ATTEMPTS \in 1..4096
    /\ CLOCK_HZ \in Nat \ {0} /\ BURST_MAX \in Nat /\ MaxLoads \in Nat

VARIABLES
    stage,     \* where the daemon is: boot, test, validate, flows, punt, forward, hash, idle, stopped
    booting,   \* the compilation under way is the one at start
    status,    \* pw_status of the last parse, validation or compilation
    work,      \* the configuration and program being built, and the loop index
    running,   \* the configuration and program in force
    loads      \* config.load requests so far

vars == <<stage, booting, status, work, running, loads>>

NoConfig == [cards |-> <<>>, logical_if |-> <<>>, flows |-> <<>>, forwards |-> <<>>]
Build(cfg) == [cfg |-> cfg, out |-> EmptyProgram(cfg), i |-> 1]
Nothing == [cfg |-> NoConfig, out |-> EmptyProgram(NoConfig)]

Init ==
    /\ stage = "boot" /\ booting = TRUE /\ status = OK
    /\ work = Build(NoConfig) /\ running = Nothing /\ loads = 0

\* An error ends the start of the daemon; a load it only refuses.
Refused(st) ==
    /\ status' = st
    /\ stage' = IF booting THEN "stopped" ELSE "idle"
    /\ work' = Build(NoConfig)
    /\ UNCHANGED <<booting, running>>

Proceed(next, w) ==
    /\ status' = OK /\ stage' = next /\ work' = w
    /\ UNCHANGED <<booting, running>>

\* main: the environment file.
BootEnv(text) ==
    LET st == pw_config_parse_string_ex(text, FALSE)
    IN  /\ stage = "boot"
        /\ IF st # OK THEN Refused(st)
           ELSE Proceed("test", Build(pw_config(pw_yaml_parse(text).root)))
        /\ UNCHANGED loads

\* main: -t replaces the flows and forwards of the environment file.
BootTest(text) ==
    LET st == pw_config_parse_string_ex(text, TRUE)
        test == pw_config(pw_yaml_parse(text).root)
    IN  /\ stage = "test"
        /\ IF st # OK THEN Refused(st)
           ELSE Proceed("validate", [work EXCEPT !.cfg.flows = test.flows,
                                                 !.cfg.forwards = test.forwards])
        /\ UNCHANGED loads
BootPlain == stage = "test" /\ Proceed("validate", work) /\ UNCHANGED loads

\* The fields that bind cards and TAPs.
same_topology(a, b) ==
    LET lif(l) == [id |-> l.id, port |-> l.global_port, vlan |-> l.vlan,
                   name |-> l.name, mac |-> l.mac]
        ports(c) == [p \in DOMAIN c.ports |->
                        <<c.ports[p].local_port, c.ports[p].global_port>>]
        card(c) == <<c.id, c.pci, ports(c)>>
        same(s, t, View(_)) == /\ Len(s) = Len(t)
                               /\ \A i \in DOMAIN s : View(s[i]) = View(t[i])
    IN  same(a.cards, b.cards, card) /\ same(a.logical_if, b.logical_if, lif)

\* do_config_load up to the validation: the payload's flows on a clone of the
\* running environment.
Load(text) ==
    LET st == pw_config_parse_string_ex(text, TRUE)
        payload == pw_config(pw_yaml_parse(text).root)
        new_cfg == [pw_config_clone_env(running.cfg) EXCEPT
                        !.flows = payload.flows, !.forwards = payload.forwards]
    IN  /\ stage = "idle" /\ loads < MaxLoads
        /\ loads' = loads + 1
        /\ IF st # OK THEN Refused(st)
           ELSE IF payload.cards # <<>> /\ ~same_topology(running.cfg, payload)
           THEN Refused("TOPOLOGY")
           ELSE Proceed("validate", Build(new_cfg))

\* pw_config_validate, which pw_flow_compile runs again, and its allocations.
Validate ==
    LET st == pw_config_validate(work.cfg)
    IN  /\ stage = "validate"
        /\ IF st # OK THEN Refused(st) ELSE Proceed("flows", Build(work.cfg))
        /\ UNCHANGED loads

\* One iteration of a loop of pw_flow_compile over the elements of s, then the
\* next loop.
Iterate(this, next, s, Body(_, _, _)) ==
    /\ stage = this
    /\ IF work.i > Len(s) THEN Proceed(next, [work EXCEPT !.i = 1])
       ELSE LET r == Body(work.out, work.cfg, work.i)
            IN  IF r.st # OK THEN Refused(r.st)
                ELSE Proceed(this, [work EXCEPT !.out = r.out, !.i = @ + 1])
    /\ UNCHANGED loads

CompileFlow == Iterate("flows", "punt", work.cfg.flows, compile_one_flow)
CompilePunt == Iterate("punt", "forward", work.cfg.logical_if, compile_punt_rules)
CompileForward == Iterate("forward", "hash", work.cfg.forwards, compile_forward_rules)

PlaceHash ==
    /\ stage = "hash" /\ work.i <= Len(work.cfg.cards)
    /\ LET r == place_hash(work.out, work.cfg, work.cfg.cards[work.i].id)
       IN  IF r.st # OK THEN Refused(r.st)
           ELSE Proceed("hash", [work EXCEPT !.out = r.out, !.i = @ + 1])
    /\ UNCHANGED loads

\* The compiled program takes the place of the running one.
Adopt ==
    /\ stage = "hash" /\ work.i > Len(work.cfg.cards)
    /\ running' = [cfg |-> work.cfg, out |-> work.out]
    /\ stage' = "idle" /\ booting' = FALSE /\ status' = OK
    /\ work' = Build(NoConfig)
    /\ UNCHANGED loads

Next ==
    \/ \E text \in EnvTexts : BootEnv(text)
    \/ \E text \in TestTexts : BootTest(text) \/ Load(text)
    \/ BootPlain \/ Validate \/ CompileFlow \/ CompilePunt \/ CompileForward
    \/ PlaceHash \/ Adopt

Spec == Init /\ [][Next]_vars

-----------------------------------------------------------------------------
\* The card: frames of a row.

\* mod32, mod16 and a lane of mod128: rot is what the sequence number or the
\* scrambler supplies.
ModWord(mod, mask, base, rot) ==
    IF mod.mode = "static" THEN base ELSE (base \ mask) \cup (rot \cap mask)

\* The key the parser and assemble() make of a frame of row header h.  A
\* recognised tunnel is stripped: the words are the inner frame's, except the
\* EtherType and the VLAN, which stay those of the outer one.
FrameWords(h, rot, tunneled) ==
    LET l2 == h.frame_template = "eth"
        vlan == IF h.vlan_enable THEN ModWord(h.mod.vlan, h.mod.vlan.mask, h.vlan_id, rot)
                ELSE {}
        et == IF l2 /\ h.l2_ethertype # {} THEN h.l2_ethertype
              ELSE IF tunneled THEN EtherType(h.outer_v6) ELSE EtherType(h.v6)
        ports == High(ModWord(h.mod.udp_src, h.mod.udp_src.mask, h.udp_src_port, rot))
                   \cup ModWord(h.mod.udp_dst, h.mod.udp_dst.mask, h.udp_dst_port, rot)
        word(w) == CASE l2 /\ w # 9 -> {}
                     [] w \in 0..3 -> ModWord(h.mod.dst, h.mod.dst.mask[w], h.dst[w], rot)
                     [] w \in 4..7 -> ModWord(h.mod.src, h.mod.src.mask[w - 4],
                                              h.src[w - 4], rot)
                     [] w = 8      -> IF h.frame_template = "ip" THEN {} ELSE ports
                     [] w = 9      -> High(vlan) \cup et
                     [] w = 10     -> BitsOf(h.l4_proto)
    IN  [w \in 0..10 |-> word(w)]

\* pw_frame_bytes with the payload floor of the template.
FrameFloor(h) ==
    LET l2 == 14 + (IF h.vlan_enable THEN 4 ELSE 0)
        ip(v6) == IF v6 THEN 40 ELSE 20
        inner == ip(h.v6) + (IF h.l4_proto = 6 THEN 20 ELSE 8)
                   + (IF h.frame_template = "test" THEN 32 ELSE 0)
        enc == CASE h.encap_type = "gre" -> 4 [] h.encap_type = "etherip" -> 16
                 [] OTHER -> 0
    IN  CASE h.frame_template = "eth" -> l2
          [] h.frame_template = "ip" -> l2 + ip(h.v6)
          [] h.encap_type = "none" -> l2 + inner
          [] OTHER -> l2 + ip(h.outer_v6) + enc + inner

\* The card: classification of a frame.
NoMatch == -1
HashLookup(cp, words) ==
    LET key == [w \in 0..10 |-> words[w] \cap cp.hash_mask[w]]
        hits == {i \in DOMAIN cp.hash :
                    /\ cp.hash[i].index = pw_fc_hash_index(key, cp.hash_seed)
                    /\ cp.hash[i].key = key}
    IN  IF hits = {} THEN NoMatch ELSE cp.hash[Min(hits)].lfid

MapLookup(cp, flow_id) ==
    LET hits == {i \in DOMAIN cp.map : cp.map[i].flow_id = flow_id}
    IN  IF hits = {} THEN NoMatch ELSE cp.map[Max(hits)].lfid

\* The precedence multiplexer: the flow-id map, then the hash table.
TestSlot(cp, row, rot, tunneled) ==
    LET by_map == IF row.header.frame_template = "test"
                  THEN MapLookup(cp, row.global_flow_id) ELSE NoMatch
    IN  IF by_map # NoMatch THEN by_map
        ELSE HashLookup(cp, FrameWords(row.header, rot, tunneled))

\* The field classifier: a rule hits when all its care bits match; the lowest
\* priority value wins, then the lowest index.
RuleHits(cp, key) ==
    LET cmatch == {i - 1 : i \in {j \in DOMAIN cp.cmps :
                      key[cp.cmps[j].src] \cap cp.cmps[j].mask
                          = cp.cmps[j].value \cap cp.cmps[j].mask}}
        umatch == {NUM_CMP + i - 1 : i \in {j \in DOMAIN cp.udfs :
                      key["UDF"] \cap cp.udfs[j].mask = cp.udfs[j].value}}
    IN  {i \in DOMAIN cp.rules : cp.rules[i].care \subseteq (cmatch \cup umatch)}

NoRule == [action |-> "NONE", egress |-> 0, logical_if_id |-> 0]
FieldDecision(cp, key) ==
    LET hits == RuleHits(cp, key)
        best == Min({cp.rules[i].priority : i \in hits})
        win == cp.rules[Min({i \in hits : cp.rules[i].priority = best})]
    IN  IF hits = {} THEN NoRule
        ELSE [ action |-> win.action, egress |-> win.egress,
               logical_if_id |-> win.logical_if_id ]

-----------------------------------------------------------------------------
\* What a configuration asks for, in its own terms.

Is(key, lane, n) == key[lane] = BitsOf(n)
Ipv4(key) == Is(key, "ETHERTYPE", 2048)
Ipv6(key) == Is(key, "ETHERTYPE", 34525)
\* Priority with which logical interface l punts a frame of its port and VLAN,
\* by the protocols its punt block names; 256 when it does not.
PuntPriority(l, key) ==
    LET family == Ipv4(key) \/ ("ipv6_nd" \in l.punt /\ Ipv6(key))
        tcp179 == Is(key, "L3_PROTO", 6) /\ (Is(key, "L4_DST", 179) \/ Is(key, "L4_SRC", 179))
        wanted(flag) ==
            CASE flag = "arp"     -> IF Is(key, "ETHERTYPE", 2054) THEN 20 ELSE 256
              [] flag = "ipv6_nd" -> IF Ipv6(key) /\ Is(key, "L3_PROTO", 58) THEN 20 ELSE 256
              [] flag = "lldp"    -> IF Is(key, "ETHERTYPE", 35020) THEN 20 ELSE 256
              [] flag = "icmp"    -> IF Ipv4(key) /\ Is(key, "L3_PROTO", 1) THEN 25 ELSE 256
              [] flag = "bgp"     -> IF family /\ tcp179 THEN 30 ELSE 256
              [] flag = "ospf"    -> IF family /\ Is(key, "L3_PROTO", 89) THEN 30 ELSE 256
              [] flag = "is_is"   -> IF key["UDF"] \cap 16..31 = ISIS_UDF THEN 30 ELSE 256
    IN  Min({256} \cup {wanted(flag) : flag \in l.punt})

\* A prefix contains an address.
InPrefix(cidr, lanes, key) ==
    \A b \in 0..127 : b >= 128 - cidr.prefix =>
        (b % 32 \in key[lanes[b \div 32]]) = (b % 32 \in cidr.addr[b \div 32])

ForwardWants(fr, key) ==
    /\ fr.vlan # {} => key["VLAN"] \cap (0..11) = fr.vlan
    /\ fr.ethertype # {} => key["ETHERTYPE"] = fr.ethertype
    /\ fr.ip_proto # {} => key["L3_PROTO"] = fr.ip_proto
    /\ fr.udp_dst # {} => key["L4_DST"] = fr.udp_dst
    /\ fr.ipv6_dst_set => 3 \in key["FLAGS"] /\ InPrefix(fr.ipv6_dst, DstLanes, key)
    /\ fr.ipv6_src_set => 3 \in key["FLAGS"] /\ InPrefix(fr.ipv6_src, SrcLanes, key)

\* Every wish for a frame of the key on the card, <<priority, order, result>>:
\* logical interfaces in their order, then forwards.
Wishes(cfg, card, key) ==
    LET at(gp) == pw_config_resolve_port(cfg, gp)
        here(gp) == at(gp).card_id = card /\ Is(key, "INGRESS", at(gp).local_port)
        punts == {i \in DOMAIN cfg.logical_if :
                    LET l == cfg.logical_if[i]
                    IN  /\ here(l.global_port) /\ PuntPriority(l, key) < 256
                        /\ l.vlan # {} => key["VLAN"] \cap (0..11) = l.vlan}
        fwds == {i \in DOMAIN cfg.forwards :
                    /\ here(cfg.forwards[i].ingress_port)
                    /\ ForwardWants(cfg.forwards[i], key)}
    IN  {<< PuntPriority(cfg.logical_if[i], key), i,
            [ action |-> "PUNT_TO_HOST", egress |-> 0,
              logical_if_id |-> cfg.logical_if[i].id ] >> : i \in punts}
        \cup
        {<< cfg.forwards[i].priority, Len(cfg.logical_if) + i,
            [ action |-> "FORWARD_PORT", logical_if_id |-> 0,
              egress |-> at(cfg.forwards[i].egress_port).local_port ] >> : i \in fwds}

Wanted(cfg, card, key) ==
    LET all == Wishes(cfg, card, key)
        best == {x \in all : \A y \in all : x[1] <= y[1]}
        first == CHOOSE x \in best : \A y \in best : x[2] <= y[2]
    IN  IF all = {} THEN NoRule ELSE first[3]

-----------------------------------------------------------------------------
\* Properties.

Flows == running.cfg.flows
Meta(i) == running.out.flow_meta[i]
Card(c) == running.out.per_card[c]
Measured == {i \in DOMAIN Flows : ~Flows[i].background}
TxRow(i) == Card(Meta(i).tx_card_id).flow_rows[Meta(i).tx_local_flow_id + 1]
RxRow(i) == Card(Meta(i).rx_card_id).flow_rows[Meta(i).rx_local_flow_id + 1]

(* Every frame a flow that is not background sends, whatever its modifiers *)
(* rotate in, is classified on its RX card into that flow's own checker    *)
(* slot, bare or still in a tunnel of the inner family (compile_one_flow,  *)
(* pw_fc_relax_mask and the seed search against the card's lookups).       *)
FramesFindTheirSlot ==
    \A i \in Measured : \A rot \in Rotations :
        \A tunneled \in {FALSE} \cup (IF /\ Flows[i].encap # "none"
                                         /\ Flows[i].outer_v6 = Flows[i].v6
                                      THEN {TRUE} ELSE {}) :
            TestSlot(Card(Meta(i).rx_card_id), TxRow(i), rot, tunneled)
                = Meta(i).rx_local_flow_id

(* No two flows share a checker slot: rows carry their own index, the rows *)
(* a flow's metadata names are rows of that flow, and a background flow has*)
(* no row that checks (flow_compiler.c, compile_one_flow).                 *)
SlotsNeverShared ==
    /\ \A c \in DOMAIN running.out.per_card : \A k \in DOMAIN Card(c).flow_rows :
           Card(c).flow_rows[k].local_flow_id = k - 1
    /\ \A i \in DOMAIN Flows :
           TxRow(i).global_flow_id = Flows[i].id /\ TxRow(i).tx_enable
    /\ \A i \in Measured :
           RxRow(i).global_flow_id = Flows[i].id /\ RxRow(i).rx_check_enable
    /\ \A i, j \in Measured : i # j =>
           << Meta(i).rx_card_id, Meta(i).rx_local_flow_id >>
               # << Meta(j).rx_card_id, Meta(j).rx_local_flow_id >>

(* The shared, deduplicated comparators and the care bits decide every     *)
(* frame the way the punt blocks and forward rules of the configuration    *)
(* ask for, ties included (compile_punt_rules, compile_forward_rules).     *)
RulesMeanConfigured ==
    \A c \in DOMAIN running.out.per_card : \A key \in FrameKeys :
        FieldDecision(Card(c), key) = Wanted(running.cfg, c, key)

(* A token bucket can hold the cost of any frame its row emits, or the     *)
(* generator would starve for ever (flow_compiler.c, burst_bytes).         *)
BucketCoversFrame ==
    \A i \in DOMAIN Flows : \A len \in {TxRow(i).len.min, TxRow(i).len.max} :
        Max({len, FrameFloor(TxRow(i).header)}) <= TxRow(i).burst_bytes
=============================================================================
