------------------------------- MODULE Config -------------------------------
(***************************************************************************)
(* The configuration loader of libpacketwyrm: config.c, scalar.c and the   *)
(* document rules of yaml.c.  A YAML mapping is a record that has only the *)
(* keys the text sets.  A scalar is abstracted to what the loader makes of *)
(* it: a number is an integer, -1 when the text is not one (pw_parse_u64   *)
(* refuses signs); an address, a mask, a port, a VLAN or an EtherType is   *)
(* the set of its one bits, with bit 99 when the text is malformed; IPv6   *)
(* is four 32-bit words, word 0 the lowest; a MAC is its address or -1.    *)
(* A node of the wrong YAML kind fails as a malformed scalar does.         *)
(***************************************************************************)
EXTENDS Integers, FiniteSets, FiniteSetsExt, Sequences

CONSTANTS
    PW_MAX_CARDS,       \* cards an environment may declare
    PW_PORTS_PER_CARD   \* ports of a card

Empty == [k \in {} |-> 0]
Has(m, key) == key \in DOMAIN m
Get(m, key, default) == IF Has(m, key) THEN m[key] ELSE default
Sub(m, key) == Get(m, key, Empty)

\* A pw_status; a function that returns at its first error is the First of
\* the statuses of its checks in the order of the code.
OK == "OK"
Check(good, code) == IF good THEN OK ELSE code
First(statuses) ==
    LET bad == {i \in DOMAIN statuses : statuses[i] # OK}
    IN  IF bad = {} THEN OK ELSE statuses[Min(bad)]
\* The status of a block whose key may be absent.
Optional(m, key, status) == IF Has(m, key) THEN status ELSE OK

\* get_scalar and the conversion its caller applies.
get_scalar(m, key, required, Good(_), code) ==
    IF Has(m, key) THEN Check(Good(m[key]), code)
    ELSE Check(~required, "MISSING_FIELD")

Word == 0..31
NoWords == [w \in 0..3 |-> {}]
pw_parse_bool(v) == v \in {"true", "false"}
pw_parse_u64(v) == v >= 0
pw_parse_u32(v) == v >= 0 /\ v \div 65536 <= 65535
pw_parse_u16(v) == v \in 0..65535
pw_parse_u8(v) == v \in 0..255
pw_parse_mac(v) == v # -1
pw_parse_ipv4(v) == v \subseteq Word
pw_parse_ipv6(v) == \A w \in 0..3 : v[w] \subseteq Word
Bits(width, v) == v \subseteq 0..(width - 1)
AnyText(v) == TRUE
\* Below 4095: 4095 is the only 12-bit value refused.
vlan_ok(v) == Bits(12, v) /\ v # 0..11
u16_bits(v) == Bits(16, v)
u8_bits(v) == Bits(8, v)
mask48(v) == Bits(48, v)
le63(v) == v \in 0..63
prefix_ok(v) == v \in 0..128

-----------------------------------------------------------------------------
\* Environment: system, cards, logical interfaces.
parse_system(m) ==
    LET mode(v) == v = "multi-card"
        speed(v) == v = "10g"
    IN  First(<< get_scalar(m, "name", TRUE, AnyText, "PARSE"),
                 get_scalar(m, "mode", TRUE, mode, "INVAL"),
                 get_scalar(m, "default_speed", TRUE, speed, "INVAL"),
                 get_scalar(m, "stats_poll_interval_ms", FALSE, pw_parse_u32,
                            "PARSE") >>)

parse_card_port(p) ==
    LET local(v) == v \in 0..(PW_PORTS_PER_CARD - 1)
    IN  First(<< get_scalar(p, "local_port", TRUE, local, "OUT_OF_RANGE"),
                 get_scalar(p, "global_port", TRUE, pw_parse_u16, "PARSE") >>)

parse_card(c) ==
    LET ports == Get(c, "ports", <<>>)
    IN  First(<< get_scalar(c, "id", TRUE, pw_parse_u16, "PARSE"),
                 get_scalar(c, "pci", TRUE, AnyText, "PARSE"),
                 Check(Has(c, "ports"), "PARSE"),
                 Check(Len(ports) \in 1..PW_PORTS_PER_CARD, "OUT_OF_RANGE"),
                 First([i \in DOMAIN ports |-> parse_card_port(ports[i])]) >>)

PuntFlags == <<"arp", "ipv6_nd", "lldp", "icmp", "bgp", "ospf", "is_is">>

parse_logical_if(l) ==
    LET punt == Sub(l, "punt")
    IN  First(<< get_scalar(l, "id", TRUE, pw_parse_u32, "PARSE"),
                 get_scalar(l, "global_port", TRUE, pw_parse_u16, "PARSE"),
                 get_scalar(l, "vlan", FALSE, vlan_ok, "OUT_OF_RANGE"),
                 get_scalar(l, "mac", TRUE, pw_parse_mac, "PARSE"),
                 get_scalar(l, "mtu", FALSE, pw_parse_u16, "PARSE"),
                 First([i \in DOMAIN PuntFlags |->
                     get_scalar(punt, PuntFlags[i], FALSE, pw_parse_bool,
                                "PARSE")]) >>)

\* pw_tap_name's default when the mapping has no name: one per port and VLAN.
pw_logical_if(l) ==
    LET vlan == Get(l, "vlan", {})
    IN  [ id |-> l.id, global_port |-> l.global_port, vlan |-> vlan,
          name |-> Get(l, "name", <<"tap", l.global_port, vlan>>),
          mac |-> l.mac, netns |-> Get(l, "netns", ""),
          punt |-> {p \in {PuntFlags[i] : i \in DOMAIN PuntFlags} :
                        Get(Sub(l, "punt"), p, "false") = "true"} ]

-----------------------------------------------------------------------------
\* A flow: its addresses.

\* Hash-order word w of a /prefix mask holds address bits 32w .. 32w+31.
pw_v6_prefix_mask(prefix) ==
    [w \in 0..3 |-> {b \in Word : 32 * w + b >= 128 - prefix}]

pw_parse_ipv6_cidr(v) == pw_parse_ipv6(v.addr) /\ prefix_ok(v.prefix)

mode_ok(v) == v \in {"static", "increment", "random"}

parse_field_mod(mods, key) ==
    First(<< get_scalar(Sub(mods, key), "mode", FALSE, mode_ok, "PARSE"),
             get_scalar(Sub(mods, key), "mask", FALSE, mask48, "PARSE") >>)

parse_ipv6_field_mod(mods, key) ==
    First(<< get_scalar(Sub(mods, key), "mode", FALSE, mode_ok, "PARSE"),
             get_scalar(Sub(mods, key), "mask", FALSE, pw_parse_ipv6, "PARSE") >>)

\* An absent modifier is static with an empty mask.
pw_field_mod(mods, key, none) ==
    [ mode |-> Get(Sub(mods, key), "mode", "static"),
      mask |-> Get(Sub(mods, key), "mask", none) ]

parse_ip_endpoint(parent) ==
    LET v6 == Has(parent, "ipv6")
        ep == IF v6 THEN parent.ipv6 ELSE Sub(parent, "ipv4")
        address(v) == IF v6 THEN pw_parse_ipv6(v) ELSE pw_parse_ipv4(v)
        ttl == IF v6 THEN "hop_limit" ELSE "ttl"
    IN  First(<< Check(~(Has(parent, "ipv4") /\ v6), "INVAL"),
                 Check(Has(parent, "ipv4") \/ v6, "MISSING_FIELD"),
                 get_scalar(ep, "src", TRUE, address, "PARSE"),
                 get_scalar(ep, "dst", TRUE, address, "PARSE"),
                 get_scalar(ep, ttl, FALSE, pw_parse_u8, "PARSE"),
                 get_scalar(ep, "dscp", FALSE, le63, "OUT_OF_RANGE") >>)

\* The endpoint's address as words; IPv4 is word 0.
Address(parent, which) ==
    IF Has(parent, "ipv6") THEN parent.ipv6[which]
    ELSE [NoWords EXCEPT ![0] = parent.ipv4[which]]

-----------------------------------------------------------------------------
\* A flow: one operator per block of parse_flow, in its order.
flow_ids(m) ==
    First(<< get_scalar(m, "id", TRUE, pw_parse_u32, "PARSE"),
             get_scalar(m, "tx_global_port", TRUE, pw_parse_u16, "PARSE"),
             get_scalar(m, "rx_global_port", TRUE, pw_parse_u16, "PARSE"),
             get_scalar(m, "logical_if_id", FALSE, pw_parse_u32, "PARSE") >>)

flow_l2(l2) ==
    LET pcp3(v) == v <= 7
    IN  First(<< get_scalar(l2, "src_mac", TRUE, pw_parse_mac, "PARSE"),
                 get_scalar(l2, "dst_mac", TRUE, pw_parse_mac, "PARSE"),
                 get_scalar(l2, "vlan", FALSE, vlan_ok, "OUT_OF_RANGE"),
                 get_scalar(l2, "pcp", FALSE, pw_parse_u8, "PARSE"),
                 get_scalar(l2, "pcp", FALSE, pcp3, "OUT_OF_RANGE"),
                 get_scalar(l2, "ethertype", FALSE, u16_bits, "PARSE") >>)

flow_encap(enc) ==
    LET tunnel(v) == v \in {"ipip", "gre", "etherip"}
        inner == Sub(enc, "inner_l2")
    IN  First(<< get_scalar(enc, "type", TRUE, tunnel, "PARSE"),
                 Check(Has(enc, "outer"), "MISSING_FIELD"),
                 parse_ip_endpoint(Sub(enc, "outer")),
                 Optional(enc, "inner_l2", First(<<
                     get_scalar(inner, "src_mac", TRUE, pw_parse_mac, "PARSE"),
                     get_scalar(inner, "dst_mac", TRUE, pw_parse_mac, "PARSE") >>)) >>)

flow_rx_expect(m) ==
    LET expect(v) == v \in {"inner", "tunneled"}
    IN  get_scalar(m, "rx_expect", FALSE, expect, "PARSE")

flow_l4(m) ==
    LET tcp == Has(m, "tcp")
        l4 == IF tcp THEN m.tcp ELSE Sub(m, "udp")
    IN  First(<< Check(~(tcp /\ Has(m, "udp")), "INVAL"),
                 Check(tcp \/ Has(m, "udp"), "MISSING_FIELD"),
                 get_scalar(l4, "src_port", TRUE, u16_bits, "PARSE"),
                 get_scalar(l4, "dst_port", TRUE, u16_bits, "PARSE"),
                 IF tcp THEN get_scalar(l4, "flags", FALSE, pw_parse_u8, "PARSE")
                 ELSE OK >>)

flow_traffic(tr) ==
    LET range == ~Has(tr, "frame_len")
    IN  First(<< get_scalar(tr, "frame_len", FALSE, pw_parse_u16, "PARSE"),
                 get_scalar(tr, "frame_len_min", range, LAMBDA v :
                            range => pw_parse_u16(v), "PARSE"),
                 get_scalar(tr, "frame_len_max", range, LAMBDA v :
                            range => pw_parse_u16(v), "PARSE"),
                 get_scalar(tr, "frame_len_step", FALSE, LAMBDA v :
                            range => pw_parse_u16(v), "PARSE"),
                 get_scalar(tr, "rate_bps", FALSE, pw_parse_u64, "PARSE"),
                 get_scalar(tr, "rate_pps", FALSE, pw_parse_u64, "PARSE") >>)

\* Fixed length or range, ordering and the generator's limits; exactly one rate.
flow_lengths(tr) ==
    LET fixed == Has(tr, "frame_len")
        flo == Get(tr, IF fixed THEN "frame_len" ELSE "frame_len_min", 0)
        fhi == Get(tr, IF fixed THEN "frame_len" ELSE "frame_len_max", 0)
    IN  First(<< Check(fixed => {"frame_len_min", "frame_len_max",
                                 "frame_len_step"} \cap DOMAIN tr = {}, "INVAL"),
                 Check(flo >= 60 /\ fhi <= 1518, "INVAL"),
                 Check(flo <= fhi, "INVAL"),
                 Check(fixed \/ Get(tr, "frame_len_step", 1) # 0, "INVAL"),
                 Check((Get(tr, "rate_bps", 0) = 0) # (Get(tr, "rate_pps", 0) = 0),
                       "INVAL") >>)

flow_payload(tr) ==
    LET pattern(v) == v \in {"zero", "increment", "prbs", "random"}
        template(v) == v \in {"test", "raw", "ip", "eth"}
    IN  First(<< get_scalar(tr, "burst_size", FALSE, pw_parse_u32, "PARSE"),
                 get_scalar(tr, "burst_gap_ticks", FALSE, pw_parse_u32, "PARSE"),
                 get_scalar(tr, "payload", FALSE, pattern, "INVAL"),
                 get_scalar(tr, "payload_seed", FALSE, pw_parse_u32, "PARSE"),
                 get_scalar(tr, "insert_sequence", FALSE, pw_parse_bool, "PARSE"),
                 get_scalar(tr, "insert_timestamp", FALSE, pw_parse_bool, "PARSE"),
                 get_scalar(tr, "frame_template", FALSE, template, "INVAL") >>)

flow_measurements(meas) ==
    First([i \in 1..3 |-> get_scalar(meas, <<"loss", "latency", "jitter">>[i],
                                     FALSE, pw_parse_bool, "PARSE")])

\* The address modifiers are read under the key of the flow's own family.
flow_modifiers(m) ==
    LET mods == Sub(m, "modifiers")
        mod(key) == Optional(mods, key, parse_field_mod(mods, key))
        mod6(key) == Optional(mods, key, parse_ipv6_field_mod(mods, key))
    IN  First((IF Has(m, "ipv6") THEN << mod6("src_ipv6"), mod6("dst_ipv6") >>
               ELSE << mod("src_ipv4"), mod("dst_ipv4") >>)
              \o << mod("udp_src"), mod("udp_dst"), mod("src_mac"),
                    mod("dst_mac"), mod("vlan") >>)

flow_match(m) ==
    LET mm == Sub(m, "match")
        prefix(key) == Optional(mm, key, First(<<
            Check(Has(m, "ipv6"), "INVAL"),
            get_scalar(mm, key, FALSE, prefix_ok, "PARSE") >>))
    IN  First(<< get_scalar(mm, "udp_dst", FALSE, u16_bits, "PARSE"),
                 get_scalar(mm, "ipv4_dst", FALSE, pw_parse_ipv4, "PARSE"),
                 prefix("ipv6_dst_prefix"), prefix("ipv6_src_prefix") >>)

flow_classify(m) ==
    LET method(v) == v \in {"header", "map"}
    IN  get_scalar(m, "classify", FALSE, method, "INVAL")

parse_flow(m) ==
    LET tr == Sub(m, "traffic")
    IN  First(<< flow_ids(m), Optional(m, "l2", flow_l2(Sub(m, "l2"))),
                 parse_ip_endpoint(m),
                 Optional(m, "encap", flow_encap(Sub(m, "encap"))),
                 flow_rx_expect(m), flow_l4(m),
                 Check(Has(m, "traffic"), "MISSING_FIELD"),
                 flow_traffic(tr), flow_lengths(tr), flow_payload(tr),
                 flow_measurements(Sub(m, "measurements")), flow_modifiers(m),
                 get_scalar(m, "background", FALSE, pw_parse_bool, "PARSE"),
                 flow_match(m), flow_classify(m) >>)

\* struct pw_flow as parse_flow leaves it, defaults included.
pw_flow(m) ==
    LET l2 == Sub(m, "l2")
        tr == m.traffic
        mods == Sub(m, "modifiers")
        mm == Sub(m, "match")
        v6 == Has(m, "ipv6")
        l4 == IF Has(m, "tcp") THEN m.tcp ELSE m.udp
        low(mod) == [mod EXCEPT !.mask = [NoWords EXCEPT ![0] = mod.mask]]
        address(key4, key6) ==
            IF v6 THEN pw_field_mod(mods, key6, NoWords)
            ELSE low(pw_field_mod(mods, key4, {}))
        prefix(key) == IF Has(mm, key) THEN pw_v6_prefix_mask(mm[key])
                       ELSE pw_v6_prefix_mask(128)
    IN  [ id |-> m.id, tx |-> m.tx_global_port, rx |-> m.rx_global_port,
          logical_if_id |-> Get(m, "logical_if_id", 0),
          vlan_set |-> Has(l2, "vlan"), vlan |-> Get(l2, "vlan", {}),
          ethertype |-> Get(l2, "ethertype", {}),
          v6 |-> v6, src |-> Address(m, "src"), dst |-> Address(m, "dst"),
          encap |-> IF Has(m, "encap") THEN m.encap.type ELSE "none",
          outer_v6 |-> Has(Sub(Sub(m, "encap"), "outer"), "ipv6"),
          rx_expect |-> Get(m, "rx_expect", "inner"),
          l4_proto |-> IF Has(m, "tcp") THEN 6 ELSE 17,
          src_port |-> l4.src_port, dst_port |-> l4.dst_port,
          fixed_set |-> Has(tr, "frame_len"),
          frame_len_fixed |-> Get(tr, "frame_len", 0),
          frame_len_min |-> Get(tr, "frame_len_min", 0),
          frame_len_max |-> Get(tr, "frame_len_max", 0),
          frame_len_step |-> Get(tr, "frame_len_step", 1),
          rate_bps |-> Get(tr, "rate_bps", 0), rate_pps |-> Get(tr, "rate_pps", 0),
          burst_size |-> Get(tr, "burst_size", 1),
          template |-> Get(tr, "frame_template", "test"),
          measured |-> \E k \in {"loss", "latency", "jitter"} :
                           Get(Sub(m, "measurements"), k, "false") = "true",
          mod |-> [ src |-> address("src_ipv4", "src_ipv6"),
                    dst |-> address("dst_ipv4", "dst_ipv6"),
                    udp_src |-> pw_field_mod(mods, "udp_src", {}),
                    udp_dst |-> pw_field_mod(mods, "udp_dst", {}),
                    vlan |-> pw_field_mod(mods, "vlan", {}) ],
          background |-> Get(m, "background", "false") = "true",
          match_udp_dst |-> Get(mm, "udp_dst", 0..15),
          match_ipv4_dst |-> Get(mm, "ipv4_dst", Word),
          match_ipv6_dst |-> prefix("ipv6_dst_prefix"),
          match_ipv6_src |-> prefix("ipv6_src_prefix"),
          classify_header |-> Get(m, "classify", "map") = "header" ]

-----------------------------------------------------------------------------
\* A forward rule.
parse_forward(m) ==
    First(<< get_scalar(m, "ingress_port", TRUE, pw_parse_u16, "PARSE"),
             get_scalar(m, "egress_port", TRUE, pw_parse_u16, "PARSE"),
             get_scalar(m, "priority", FALSE, pw_parse_u8, "OUT_OF_RANGE"),
             get_scalar(m, "ethertype", FALSE, u16_bits, "PARSE"),
             get_scalar(m, "ip_proto", FALSE, u8_bits, "PARSE"),
             get_scalar(m, "udp_dst", FALSE, u16_bits, "PARSE"),
             get_scalar(m, "vlan", FALSE, vlan_ok, "OUT_OF_RANGE"),
             get_scalar(m, "ipv6_dst", FALSE, pw_parse_ipv6_cidr, "PARSE"),
             get_scalar(m, "ipv6_src", FALSE, pw_parse_ipv6_cidr, "PARSE") >>)

\* A zero field does not match on anything; nor does an unset address.
pw_forward_rule(m) ==
    LET any == [addr |-> NoWords, prefix |-> 128]
    IN  [ ingress_port |-> m.ingress_port, egress_port |-> m.egress_port,
          priority |-> Get(m, "priority", 40),
          ethertype |-> Get(m, "ethertype", {}), ip_proto |-> Get(m, "ip_proto", {}),
          udp_dst |-> Get(m, "udp_dst", {}), vlan |-> Get(m, "vlan", {}),
          ipv6_dst_set |-> Has(m, "ipv6_dst"), ipv6_dst |-> Get(m, "ipv6_dst", any),
          ipv6_src_set |-> Has(m, "ipv6_src"), ipv6_src |-> Get(m, "ipv6_src", any) ]

-----------------------------------------------------------------------------
\* The document.
RootKeys == {"system", "cards", "logical_interfaces", "flows", "forwards"}
reject_unknown_keys(root) == Check(DOMAIN root \subseteq RootKeys, "PARSE")

\* parse_root; test_only makes the environment blocks optional.
parse_root(root, test_only) ==
    LET seq(key) == Get(root, key, <<>>)
        each(key, Parse(_)) == First([i \in DOMAIN seq(key) |-> Parse(seq(key)[i])])
    IN  First(<< reject_unknown_keys(root),
                 Check(Has(root, "system") \/ test_only, "PARSE"),
                 Optional(root, "system", parse_system(Sub(root, "system"))),
                 Check(Has(root, "cards") \/ test_only, "PARSE"),
                 Check(Len(seq("cards")) <= PW_MAX_CARDS, "OUT_OF_RANGE"),
                 each("cards", parse_card),
                 each("logical_interfaces", parse_logical_if),
                 each("flows", parse_flow), each("forwards", parse_forward) >>)

\* struct pw_config from a document parse_root accepts.
pw_config(root) ==
    LET build(key, Make(_)) ==
            LET s == Get(root, key, <<>>) IN [i \in DOMAIN s |-> Make(s[i])]
        card(c) == [id |-> c.id, pci |-> c.pci, ports |-> c.ports]
    IN  [ cards |-> build("cards", card),
          logical_if |-> build("logical_interfaces", pw_logical_if),
          flows |-> build("flows", pw_flow),
          forwards |-> build("forwards", pw_forward_rule) ]

\* A text with a duplicate key, an alias or a second document has no tree; an
\* empty one is an empty mapping.
pw_yaml_parse(text) ==
    IF text.docs > 1 \/ text.duplicate_key \/ text.alias
    THEN [ok |-> FALSE, root |-> Empty]
    ELSE [ok |-> TRUE, root |-> IF text.docs = 0 THEN Empty ELSE text.root]

pw_config_parse_string_ex(text, test_only) ==
    LET y == pw_yaml_parse(text)
    IN  IF y.ok THEN parse_root(y.root, test_only) ELSE "PARSE"

\* The environment of src with no flows and no forwards.
pw_config_clone_env(src) == [src EXCEPT !.flows = <<>>, !.forwards = <<>>]

\* pw_config_resolve_port: the card and local port of a global port, or none.
NoPort == [card_id |-> -1, local_port |-> -1]
pw_config_resolve_port(cfg, gp) ==
    LET at == {<<c, p>> \in (DOMAIN cfg.cards) \X (1..PW_PORTS_PER_CARD) :
                   /\ p \in DOMAIN cfg.cards[c].ports
                   /\ cfg.cards[c].ports[p].global_port = gp}
    IN  IF at = {} THEN NoPort
        ELSE LET c == Min({x[1] : x \in at})
                 p == Min({x[2] : x \in {y \in at : y[1] = c}})
             IN  [ card_id |-> cfg.cards[c].id,
                   local_port |-> cfg.cards[c].ports[p].local_port ]
=============================================================================
