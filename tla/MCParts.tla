------------------------------ MODULE MCParts ------------------------------
(***************************************************************************)
(* The parts of the program that keep their state to themselves, on small  *)
(* instances.  A behaviour is one of one part, the others rest, so that    *)
(* their state spaces are checked side by side and not multiplied.         *)
(***************************************************************************)
EXTENDS Md5Stream, NameHash, ConfParser, TimedStream, NodeContainer

VARIABLE part

Parts == {"md5", "name", "conf", "stream", "container"}

allVars == <<part, md5Vars, nameVars, confVars, streamVars, tableVars>>

\* The lines a configuration file may be written of, well formed and not.
Line(k, v) == <<k, "SP", "=", "SP">> \o v
ConfLines ==
  {Line("bind_port", <<"7">>), Line("bind_port", <<"8">>), Line("thread_stack_size", <<"1", "GB">>),
   Line("log_level", <<"error", "SP">>),
   Line("proxy_server_addr", <<"a", "SP", ":", "SP", "7", ",", "SP", "master">>),
   Line("proxy_server_addr", <<"b", ":", "8", ",", "SP", "slaver">>),
   Line("proxy_server_addr", <<"c", ":", "SP", ",", "master">>), Line("master_flag", <<"true">>),
   Line("zone_id", <<"7">>), <<"#", "bind_port">>, <<>>, <<"SP">>,
   <<"bind_port", "=", "7">>, <<"SP", "bind_port", "SP", "SP", "=", "9">>, <<"=", "7">>, <<"bind_port", "SP", "=">>}
ConfTokens == UNION {{line[i] : i \in DOMAIN line} : line \in ConfLines}
Numbers == [w \in {"1", "7", "8", "9"} |->
             CASE w = "1" -> 1 [] w = "7" -> 7 [] w = "8" -> 8 [] w = "9" -> 9]

\* A request and its answer, and two ends that both send first into full buffers.
Send(n) == [op |-> "send", len |-> n]
Recv(n) == [op |-> "recv", len |-> n]
StreamScripts ==
  {[client |-> <<Send(3), Recv(2)>>, server |-> <<Recv(1), Recv(2), Send(2)>>],
   [client |-> <<Send(3), Recv(3)>>, server |-> <<Send(3), Recv(3)>>]}

Init ==
  /\ part \in Parts
  /\ Md5Init /\ NameInit /\ ConfInit /\ StreamInit /\ TableInit
  /\ part # "name" => nvnode = 1
  /\ part # "conf" => server = "storage"
  /\ part # "stream" => Len(script["server"]) = 3

Next ==
  \/ part = "md5" /\ Md5Next /\ UNCHANGED <<part, nameVars, confVars, streamVars, tableVars>>
  \/ part = "name" /\ NameNext /\ UNCHANGED <<part, md5Vars, confVars, streamVars, tableVars>>
  \/ part = "conf" /\ ConfNext /\ UNCHANGED <<part, md5Vars, nameVars, streamVars, tableVars>>
  \/ part = "stream" /\ StreamNext /\ UNCHANGED <<part, md5Vars, nameVars, confVars, tableVars>>
  \/ part = "container" /\ TableNext /\ UNCHANGED <<part, md5Vars, nameVars, confVars, streamVars>>

\* Only the streams wait for something: the kernel ends their polls (TimedStream).
Spec == Init /\ [][Next]_allVars /\ \A e \in Ends : WF_streamVars(part = "stream" /\ StreamStep(e))

TypeOK == part \in Parts /\ Md5TypeOK /\ NameTypeOK /\ ConfTypeOK /\ StreamTypeOK /\ TableTypeOK
=============================================================================
