----------------------------- MODULE MCHandlers -----------------------------
(***************************************************************************)
(* Instance for TLC of the two handlers of the repository.  A url rule     *)
(* names one of them (configuration.cc), so a behaviour exercises one: the *)
(* static handler on two threads that share the cache, or the FastCGI      *)
(* handler with its completion stage.                                      *)
(***************************************************************************)
EXTENDS StaticHandler, FcgiHandler, TLC

VARIABLE handler

vars == <<handler, staticVars, fcgiVars>>

(* The static handler: two files, one of which is rewritten three times    *)
(* (within a second, then unreadable, then readable again), a directory, a *)
(* device and a path that does not exist.                                  *)

R(m, p, s, g, z) ==
  [method |-> m, path |-> p, since |-> s, range |-> g, gzip |-> z]

MCRequests ==
  {R("GET", <<"", "a">>, -1, -1, FALSE), R("POST", <<"", "..", "a">>, -1, 1, TRUE),
   R("GET", <<"", "b">>, 1, -1, TRUE), R("HEAD", <<"", "b">>, -1, -1, TRUE),
   R("PUT", <<"", "b">>, -1, -1, FALSE), R("GET", <<"", "d", "">>, -1, -1, FALSE),
   R("HEAD", <<"", "d", ".">>, -1, -1, FALSE), R("GET", <<"", "dev">>, -1, -1, FALSE),
   R("GET", <<"", "none">>, -1, -1, FALSE)}

MCRoot ==
  (<<"a">> :> "a") @@ (<<"b">> :> "b") @@ (<<"d">> :> "directory") @@ (<<"dev">> :> "device")

MCMtime == <<1, 1, 2, 2>>
MCSize == <<1, 2, 2, 2>>
MCReadable == <<TRUE, TRUE, FALSE, TRUE>>
MCPacked == <<1, DeflateError, 1, DeflateSpins>>

(* The FastCGI handler: no body, one that is short of what task_len counts *)
(* and one above kTaskBufferLimit; a buffered answer, a streaming one that *)
(* is handed over in parts, and one with a wrong header.                   *)

MCBodies ==
  {[length |-> n, buffered |-> IF n = 0 THEN 0 ELSE 1] : n \in {0, 5, 7}}

End == Record("end", <<"e", "e">>, 0)

MCAnswers ==
  {<<Record("stdout", <<"h", "n", "b1">>, 1), Record("stderr", <<"b2">>, 0), End>>,
   <<Record("stdout", <<"s", "n", "b1", "b2", "b3">>, 1), Record("other", <<"e">>, 0),
     Record("stdout", <<"b4", "b5">>, 0), Record("stdout", <<"b6">>, 1), End>>,
   <<Record("stdout", <<"h">>, 0), Record("stdout", <<"x", "n">>, 0), End>>}

-----------------------------------------------------------------------------
Init ==
  /\ handler \in {"static", "fcgi"}
  /\ StaticInit /\ FcgiInit

Next ==
  /\ UNCHANGED handler
  /\ \/ handler = "static" /\ StaticNext /\ UNCHANGED fcgiVars
     \/ handler = "fcgi" /\ FcgiNext /\ UNCHANGED staticVars

Spec ==
  /\ Init /\ [][Next]_vars
  /\ \A t \in Threads : WF_staticVars(StaticStep(t))
  /\ FcgiFairness
=============================================================================
