---------------------------- MODULE MCConfigLoad ----------------------------
(***************************************************************************)
(* Texts for ConfigLoad: two cards, environments with and without logical  *)
(* interfaces, test files for every flow feature the compiler treats       *)
(* differently, one text per table a configuration can fill, and faulty    *)
(* ones that differ from a good text in one place.                         *)
(***************************************************************************)
EXTENDS ConfigLoad

Text(root) == [docs |-> 1, duplicate_key |-> FALSE, alias |-> FALSE, root |-> root]
Without(m, key) == [k \in DOMAIN m \ {key} |-> m[k]]
Set(m, key, v) == (key :> v) @@ m
Port(l, g) == [local_port |-> l, global_port |-> g]
V6(w3, w0) == [w \in 0..3 |-> CASE w = 3 -> w3 [] w = 0 -> w0 [] OTHER -> {}]

Sys == [name |-> "lab", mode |-> "multi-card", default_speed |-> "10g"]
Cards == << [id |-> 0, pci |-> "a", ports |-> << Port(0, 0), Port(1, 1) >>],
            [id |-> 7, pci |-> "b", ports |-> << Port(0, 2) >>] >>
Lif1 == [id |-> 1, global_port |-> 0, mac |-> 1, punt |-> [arp |-> "true", bgp |-> "true"]]
Lif2 == [ id |-> 2, global_port |-> 2, vlan |-> {1}, mac |-> 2, mtu |-> 1500,
          name |-> <<"wan", 0, {}>>, punt |-> [ipv6_nd |-> "true", ospf |-> "true",
                                               bgp |-> "true", arp |-> "false"] ]
Lif3 == [id |-> 3, global_port |-> 0, vlan |-> {1}, mac |-> 3,
         punt |-> [is_is |-> "true", lldp |-> "true", icmp |-> "true", arp |-> "true"]]
Env1 == [system |-> Sys, cards |-> Cards, logical_interfaces |-> << Lif1, Lif2 >>]
Env2 == Set(Env1, "logical_interfaces", << Lif3, Lif2, Lif1 >>)

Udp == [src_port |-> {0}, dst_port |-> {1, 3}]
V4 == [src |-> {24, 0}, dst |-> {24, 1}]
Ip6 == [src |-> V6({29}, {0}), dst |-> V6({29}, {1})]
Rate == [frame_len |-> 64, rate_bps |-> 1000]
Flow(id, tx, rx) == [id |-> id, tx_global_port |-> tx, rx_global_port |-> rx,
                     ipv4 |-> V4, udp |-> Udp, traffic |-> Rate]
Flow6(id, tx, rx) == Set(Without(Flow(id, tx, rx), "ipv4"), "ipv6", Ip6)
Header(f) == Set(f, "classify", "header")
Measured1(f) == Set(f, "measurements", [loss |-> "true"])
Background(f) == Set(f, "background", "true")
Template(f, t) == Set(f, "traffic", Set(Rate, "frame_template", t))
Dst(f, w) == Set(f, "ipv4", [src |-> V4.src, dst |-> w])
Mod(f, key, mask) == Set(f, "modifiers", key :> [mode |-> "increment", mask |-> mask])
Encap(f, type, outer) == Set(f, "encap", [type |-> type, outer |-> outer])
Outer4 == [ipv4 |-> V4]
Outer6 == [ipv6 |-> Ip6]
Vlan(f, v) == Set(f, "l2", [src_mac |-> 1, dst_mac |-> 2, vlan |-> v])
Tcp(f) == Set(Without(f, "udp"), "tcp", Set(Udp, "flags", 2))
Tests(flows) == Text([flows |-> flows])

\* Good tests.
Good == {
    Tests(<< Measured1(Flow(0, 0, 1)), Background(Flow(1, 2, 0)), Flow(2, 0, 2) >>),
    Tests(<< Header(Flow(9, 0, 2)), Header(Dst(Flow(10, 2, 2), {5})) >>),
    Tests(<< Header(Mod(Flow6(4, 0, 1), "dst_ipv6", V6({0}, {0, 1}))),
             Header(Set(Flow6(5, 2, 1), "ipv6", [src |-> V6({29}, {0}), dst |-> V6({}, {9})])) >>),
    Tests(<< Header(Mod(Vlan(Tcp(Flow(6, 1, 0)), {2}), "vlan", {0, 2})),
             Header(Mod(Dst(Flow(7, 0, 0), {7}), "udp_src", {0, 15})) >>),
    Tests(<< Encap(Flow(0, 0, 1), "gre", Outer4), Encap(Flow6(1, 1, 2), "etherip", Outer4),
             Header(Encap(Flow(2, 0, 2), "ipip", Outer4)) >>),
    Tests(<< Header(Encap(Flow6(3, 0, 1), "gre", Outer4)),
             Header(Encap(Flow(4, 1, 2), "ipip", Outer6)) >>),
    Tests(<< Header(Template(Vlan(Flow(20, 0, 2), {4}), "raw")),
             Header(Template(Set(Flow(21, 0, 2), "l2", [src_mac |-> 1, dst_mac |-> 2,
                                                        ethertype |-> {3}]), "eth")),
             Header(Template(Flow6(22, 0, 2), "ip")) >>),
    Tests(<< Header(Set(Flow6(3, 0, 1), "match", [ipv6_dst_prefix |-> 64, ipv6_src_prefix |-> 0])),
             Set(Flow(1, 0, 1), "traffic",
                 [frame_len_min |-> 60, frame_len_max |-> 72, rate_pps |-> 10, burst_size |-> 0]) >>),
    Tests(<< Header(Set(Mod(Flow(3, 0, 1), "src_ipv4", {0, 8}), "match",
                        [udp_dst |-> {1}, ipv4_dst |-> {24}])) >>),
    Text([flows |-> <<>>, forwards |->
        << [ingress_port |-> 0, egress_port |-> 1, vlan |-> {1}, priority |-> 20],
           [ingress_port |-> 0, egress_port |-> 0, ip_proto |-> {1, 2}, udp_dst |-> {0}],
           [ingress_port |-> 2, egress_port |-> 2, priority |-> 10,
            ipv6_dst |-> [addr |-> V6({29}, {1}), prefix |-> 32]],
           [ingress_port |-> 2, egress_port |-> 2,
            ipv6_src |-> [addr |-> V6({29}, {0}), prefix |-> 128], ethertype |-> ETH_IPV6] >>]),
    Set(Text(Empty), "docs", 0) }

\* Tests that fill a table or cannot be told apart.
Unplaceable == {
    Tests(<< Flow(0, 0, 1), Flow(1, 0, 1), Flow(2, 0, 2), Flow(3, 1, 1) >>),
    Tests(<< Flow(8, 0, 1) >>),
    Tests(<< Header(Flow(0, 0, 1)), Header(Flow(1, 1, 0)) >>),
    Tests(<< Header(Flow(0, 0, 1)), Background(Header(Mod(Flow(1, 0, 1), "dst_ipv4", Word))),
             Header(Dst(Flow(2, 0, 1), {3})) >>),
    Text([flows |-> <<>>, forwards |->
        [i \in 1..4 |-> [ingress_port |-> 0, egress_port |-> 1, vlan |-> {i},
                         udp_dst |-> {i}, ip_proto |-> {i % 8}]]]) }

OneFlow(f) == Tests(<< f >>)
BadFlow(key, v) == OneFlow(Set(Flow(0, 0, 1), key, v))
BadTraffic(key, v) == BadFlow("traffic", Set(Rate, key, v))
Fault == {99}
Faulty ==
    { Set(Text(Env1), "alias", TRUE), Set(Tests(<<>>), "duplicate_key", TRUE),
      Set(Tests(<<>>), "docs", 2), Text([flow |-> <<>>]),
      Text(Set(Env1, "cards", << Set(Cards[1], "pci", "c"), Cards[2] >>)),
      Text(Set(Env1, "logical_interfaces", << Lif1 >>)),
      Text([system |-> Set(Sys, "mode", "single")]),
      Text([forwards |-> << [ingress_port |-> 0, egress_port |-> 2] >>]),
      Text([forwards |-> << [ingress_port |-> 0, egress_port |-> 5] >>]),
      Text([forwards |-> << [ingress_port |-> 0, egress_port |-> 1, vlan |-> 0..11] >>]),
      Tests(<< Flow(0, 0, 1), Flow(0, 1, 0) >>) }
    \cup { OneFlow(Without(Flow(0, 0, 1), key)) : key \in {"id", "ipv4", "udp", "traffic"} }
    \cup { BadFlow(x[1], x[2]) : x \in {
        <<"tx_global_port", 9>>, <<"rx_global_port", -1>>, <<"logical_if_id", 6>> } }
    \cup { BadFlow("ipv6", Ip6), BadFlow("tcp", Udp), BadFlow("rx_expect", "outer"),
           BadFlow("classify", "hash"), BadFlow("background", "1"),
           BadFlow("ipv4", [src |-> Fault, dst |-> {}]),
           BadFlow("l2", [src_mac |-> 1, dst_mac |-> -1]),
           BadFlow("match", [ipv6_dst_prefix |-> 64]),
           BadFlow("encap", [type |-> "vxlan", outer |-> Outer4]),
           BadFlow("encap", [type |-> "gre"]),
           BadFlow("modifiers", [vlan |-> [mode |-> "increment", mask |-> Fault]]),
           OneFlow(Template(Flow(0, 0, 1), "raw")),
           OneFlow(Measured1(Background(Flow(0, 0, 1)))) }
    \cup { BadTraffic(x[1], x[2]) : x \in {
        <<"frame_len", 59>>, <<"frame_len_min", 64>>, <<"rate_pps", 1>>, <<"rate_bps", 0>> } }
    \cup { BadTraffic("payload", "text"), BadFlow("traffic",
           [frame_len_min |-> 90, frame_len_max |-> 80, rate_bps |-> 1]) }

\* A test file that brings the environment along: other punt flags only.
WithEnv == { Text(Set(Set(Env1, "flows", << Flow(0, 0, 1) >>), "logical_interfaces",
                      << Set(Lif1, "punt", [lldp |-> "true"]), Lif2 >>)) }

BadEnv ==
    { Text(Set(Env1, x[1], x[2])) : x \in {
        <<"cards", << Cards[1], Cards[1] >> >>, <<"cards", <<Cards[1], Cards[2], Cards[2]>> >>,
        <<"cards", << Set(Cards[1], "ports", <<>>) >> >>,
        <<"cards", << Cards[1], Set(Cards[2], "ports", << Port(0, 0) >>) >> >> } }
    \cup { Text(Set(Env1, "logical_interfaces", << Lif1, l >>)) : l \in {
        Lif1, Set(Lif2, "name", <<"too_long", 0, {}>>), Set(Lif2, "netns", "ns1"),
        Set(Lif2, "global_port", 8), Set(Lif2, "vlan", 0..11), Without(Lif2, "mac") } }
    \cup { Text(Without(Env1, key)) : key \in {"system", "cards"} }

MCEnvTexts == {Text(Env1), Text(Env2)} \cup BadEnv
MCTestTexts == Good \cup Unplaceable \cup Faulty \cup WithEnv

MCRotations == { {}, Word, {0, 2, 8, 15} }

\* Frames of the protocols the rules tell apart.
Frame0 == [ INGRESS |-> {}, VLAN |-> {}, ETHERTYPE |-> ETH_IPV4, L3_PROTO |-> BitsOf(17),
            L4_SRC |-> {}, L4_DST |-> {0}, FLAGS |-> {}, UDF |-> {},
            IPV6_DST_0 |-> {}, IPV6_DST_1 |-> {}, IPV6_DST_2 |-> {}, IPV6_DST_3 |-> {},
            IPV6_SRC_0 |-> {}, IPV6_SRC_1 |-> {}, IPV6_SRC_2 |-> {}, IPV6_SRC_3 |-> {} ]
Frame6(proto, dst, src) ==
    [Frame0 EXCEPT !.ETHERTYPE = ETH_IPV6, !.L3_PROTO = BitsOf(proto), !.FLAGS = {3},
                   !.IPV6_DST_3 = dst, !.IPV6_SRC_3 = src, !.IPV6_SRC_0 = {0}]
Untagged == { Frame0, [Frame0 EXCEPT !.ETHERTYPE = BitsOf(2054), !.L3_PROTO = {}, !.L4_DST = {}],
              [Frame0 EXCEPT !.ETHERTYPE = BitsOf(35020), !.L3_PROTO = {}, !.L4_DST = {}],
              [Frame0 EXCEPT !.ETHERTYPE = BitsOf(100), !.UDF = ISIS_UDF, !.L4_DST = {}],
              [Frame0 EXCEPT !.L3_PROTO = {0}], [Frame0 EXCEPT !.L3_PROTO = {1, 2}],
              [Frame0 EXCEPT !.L3_PROTO = {1, 2}, !.L4_SRC = BitsOf(179)],
              [Frame0 EXCEPT !.L3_PROTO = BitsOf(89)],
              Frame6(58, {29}, {}), Frame6(89, {}, {29}), Frame6(17, {}, {29}),
              [Frame6(6, {29}, {}) EXCEPT !.L4_DST = BitsOf(179)] }
MCFrameKeys == {[f EXCEPT !.INGRESS = p, !.VLAN = v] :
                    f \in Untagged, p \in {{}, {0}}, v \in {{}, {1}}}
=============================================================================
