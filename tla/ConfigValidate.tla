--------------------------- MODULE ConfigValidate ---------------------------
(***************************************************************************)
(* pw_config_validate (validate.c): the cross-references of a parsed       *)
(* configuration.  One operator per loop of the function; each loop checks *)
(* its elements in order and an element against the ones after it.         *)
(***************************************************************************)
EXTENDS Config

Resolves(cfg, gp) == pw_config_resolve_port(cfg, gp) # NoPort
\* No element after the i-th has the same key.
UniqueAfter(s, i, Key(_)) == \A j \in DOMAIN s : j > i => Key(s[j]) # Key(s[i])
\* The first error of a loop over s.
Loop(s, Body(_)) == First([i \in DOMAIN s |-> Body(i)])

valid_cards(cfg) ==
    LET id(c) == c.id
        pci(c) == c.pci
        body(i) == Check(UniqueAfter(cfg.cards, i, id) /\ UniqueAfter(cfg.cards, i, pci),
                         "DUP_CARD_ID")
    IN  Loop(cfg.cards, body)

valid_ports(cfg) ==
    LET at == {<<c, p>> \in (DOMAIN cfg.cards) \X (1..PW_PORTS_PER_CARD) :
                   p \in DOMAIN cfg.cards[c].ports}
        port(x) == cfg.cards[x[1]].ports[x[2]]
    IN  Check(\A x, y \in at : x # y =>
                  /\ port(x).global_port # port(y).global_port
                  /\ x[1] = y[1] => port(x).local_port # port(y).local_port,
              "DUP_GLOBAL_PORT")

\* A name of more than 15 characters is one whose text is "too_long".
TooLong(name) == name[1] = "too_long"

valid_lifs(cfg) ==
    LET id(l) == l.id
        name(l) == l.name
        body(i) ==
            LET l == cfg.logical_if[i]
            IN  First(<< Check(~TooLong(l.name), "INVAL"),
                         Check(l.netns = "", "INVAL"),
                         Check(/\ UniqueAfter(cfg.logical_if, i, id)
                               /\ UniqueAfter(cfg.logical_if, i, name),
                               "DUP_LOGICAL_IF"),
                         Check(Resolves(cfg, l.global_port), "UNKNOWN_GLOBAL_PORT") >>)
    IN  Loop(cfg.logical_if, body)

\* A raw template has no test header: nothing to measure, nothing for the
\* flow-id map, nothing to wrap in a tunnel.
valid_template(f) ==
    IF f.template = "test" THEN OK
    ELSE First(<< Check(~f.measured, "INVAL"), Check(f.classify_header, "INVAL"),
                  Check(f.encap = "none", "INVAL") >>)

valid_flows(cfg) ==
    LET id(f) == f.id
        body(i) ==
            LET f == cfg.flows[i]
                has_range == f.frame_len_max # 0
            IN  First(<< Check(UniqueAfter(cfg.flows, i, id), "DUP_FLOW_ID"),
                         Check(Resolves(cfg, f.tx), "UNKNOWN_GLOBAL_PORT"),
                         Check(Resolves(cfg, f.rx), "UNKNOWN_GLOBAL_PORT"),
                         Check(f.logical_if_id = 0 \/ \E k \in DOMAIN cfg.logical_if :
                                   cfg.logical_if[k].id = f.logical_if_id,
                               "UNKNOWN_LOGICAL_IF"),
                         Check(~(f.fixed_set /\ has_range), "INVAL"),
                         Check(f.fixed_set \/ has_range, "MISSING_FIELD"),
                         Check(f.rate_bps # 0 \/ f.rate_pps # 0, "MISSING_FIELD"),
                         Check(f.rate_bps = 0 \/ f.rate_pps = 0, "INVAL"),
                         valid_template(f),
                         Check(~(f.background /\ f.measured), "INVAL") >>)
    IN  Loop(cfg.flows, body)

valid_forwards(cfg) ==
    LET body(i) ==
            LET ing == pw_config_resolve_port(cfg, cfg.forwards[i].ingress_port)
                egr == pw_config_resolve_port(cfg, cfg.forwards[i].egress_port)
            IN  First(<< Check(ing # NoPort, "UNKNOWN_GLOBAL_PORT"),
                         Check(egr # NoPort, "UNKNOWN_GLOBAL_PORT"),
                         Check(ing.card_id = egr.card_id, "INVAL") >>)
    IN  Loop(cfg.forwards, body)

pw_config_validate(cfg) ==
    First(<< valid_cards(cfg), valid_ports(cfg), valid_lifs(cfg),
             valid_flows(cfg), valid_forwards(cfg) >>)
=============================================================================
