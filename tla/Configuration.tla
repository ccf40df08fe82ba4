--------------------------- MODULE Configuration ----------------------------
(***************************************************************************)
(* The configured handlers, virtual hosts and url rules                    *)
(* (http/configuration.cc): what a parsed document is loaded into, and the *)
(* rule that a request gets.                                               *)
(***************************************************************************)
EXTENDS Integers, Sequences, SequencesExt, TLC

CONSTANTS
  HandlerDoc,   \* handlers: a sequence of [name, module]
  HostDoc,      \* hosts: a sequence of [domain, rules], a rule being
                \* [type, prefix, regex, chain]; a regex is the set of its paths
  Modules       \* modules that have registered a factory

\* load_handlers: a name that exists keeps its instance, and one whose module
\* is unknown gets none.
Handlers ==
  FoldLeft(LAMBDA map, h : IF h.module \in Modules THEN map @@ (h.name :> h.module) ELSE map,
           <<>>, HandlerDoc)

\* load_url_rule: handlers that do not exist are left out of the chain.
load_url_rule(r) ==
  [r EXCEPT !.chain = FoldLeft(LAMBDA chain, name : IF name \in DOMAIN Handlers
                                                    THEN Append(chain, Handlers[name])
                                                    ELSE chain, <<>>, @)]

load_url_rules(doc) ==
  FoldLeft(LAMBDA rules, r : Append(rules, load_url_rule(r)), <<>>, doc)

\* load_vhost_rules: insert keeps the first host of a name.
host_map ==
  FoldLeft(LAMBDA map, h : map @@ (h.domain :> load_url_rules(h.rules)), <<>>, HostDoc)

ASSUME ConfigurationAssumption == <<"default">> \in DOMAIN host_map

\* The rule's matcher; a rule of another type has none and takes everything.
match(r, path) == CASE r.type = "prefix" -> IsPrefix(r.prefix, path)
                    [] r.type = "regex" -> path \in r.regex
                    [] OTHER -> TRUE

NoRule == [type |-> "none", chain |-> <<>>]

\* UrlRuleConfig::match_uri: the rule, and the request with the prefix taken
\* off its path and its uri.
match_uri(rules, req) ==
  LET i == SelectInSeq(rules, LAMBDA r : match(r, req.path))
      n == IF i > 0 /\ rules[i].type = "prefix" THEN Len(rules[i].prefix) ELSE 0
  IN  [rule |-> IF i = 0 THEN NoRule ELSE rules[i],
       path |-> SubSeq(req.path, n + 1, Len(req.path)),
       uri |-> SubSeq(req.uri, n + 1, Len(req.uri))]

\* What is left of a host with a port is the port, colon included.
parse_host(host) ==
  LET pos == SelectInSeq(host, LAMBDA t : t = ":")
  IN  IF pos > 0 THEN SubSeq(host, pos, Len(host)) ELSE host

\* VHostConfig::match_uri.
match_host(host, req) ==
  match_uri(host_map[IF parse_host(host) \in DOMAIN host_map
                     THEN parse_host(host) ELSE <<"default">>], req)
=============================================================================
