------------------------------- MODULE MCHttp -------------------------------
(***************************************************************************)
(* The stages for a few scripts: pipelined requests, a suspended one,      *)
(* chunks, bodies that are waited for, too large to be waited for, and     *)
(* read by the handler, a connection that is to be closed, and input that  *)
(* the parser refuses.                                                     *)
(***************************************************************************)
EXTENDS HttpStages

Get(path, headers) ==
  [method |-> "GET", path |-> path, query |-> <<>>, fragment |-> <<>>, minor |-> 1,
   headers |-> headers, length |-> 0, chunks |-> <<>>]
Post(path, length) ==
  [Get(path, <<>>) EXCEPT !.method = "POST", !.length = length]

Static == Get(<<"/", "a">>, <<>>)
Fcgi == Get(<<"/", "f", "a">>, <<>>)
Host(h) == <<<<"Host">>, h>>
Connection(c) == <<<<"Connection">>, <<c>>>>

MCScripts == {
  <<[Static EXCEPT !.query = <<"a", "b">>, !.fragment = <<"b">>, !.headers = <<Host(<<"h">>)>>],
    Fcgi>>,
  <<Fcgi, Static, Static>>,
  <<[Static EXCEPT !.chunks = <<<<"x", "y">>, <<"z">>>>], Get(<<"/", "b">>, <<Host(<<"h", ":", "1">>)>>)>>,
  <<Static, Post(<<"/", "f">>, 2)>>,
  <<Post(<<"/", "a">>, 1), Static>>,
  <<Post(<<"/", "a">>, 3), Static>>,
  <<Post(<<"/", "r">>, 1), Static>>,
  <<Post(<<"/", "r">>, 3)>>,
  <<[Get(<<"/", "a">>, <<Connection("Keep-Alive")>>) EXCEPT !.minor = 0],
    Get(<<"/", "a">>, <<Host(<<"n">>), Connection("close")>>), Static>>,
  <<Static, [Static EXCEPT !.method = "junk"]>>,
  <<Static, Get(<<"/", "a", "b", "a", "b">>, <<>>)>> }

\* Reads already end anywhere; a page ends in the middle of the buffer.
MCCuts == [n \in 0..80 |-> {n \div 2}]

MCHandlerDoc == <<[name |-> "files", module |-> "static"], [name |-> "app", module |-> "fcgi"],
                  [name |-> "none", module |-> "off"], [name |-> "app", module |-> "static"],
                  [name |-> "mod", module |-> "reader"], [name |-> "lost", module |-> "?"]>>
Rule(type, prefix, regex, chain) ==
  [type |-> type, prefix |-> prefix, regex |-> regex, chain |-> chain]
MCHostDoc == <<
  [domain |-> <<"default">>,
   rules |-> <<Rule("prefix", <<"/", "f">>, {}, <<"lost", "none", "app">>),
               Rule("regex", <<>>, {<<"/", "r">>}, <<"mod">>),
               Rule("regex", <<>>, {<<"/", "b">>}, <<"none">>),
               Rule("none", <<>>, {}, <<"files">>)>>],
  [domain |-> <<"h">>, rules |-> <<Rule("prefix", <<"/">>, {}, <<"files">>)>>],
  [domain |-> <<"h">>, rules |-> <<>>], [domain |-> <<"n">>, rules |-> <<>>] >>
MCModules == {"static", "fcgi", "off", "reader"}
=============================================================================
