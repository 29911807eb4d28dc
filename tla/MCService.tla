---------------------------- MODULE MCService ----------------------------
(* The instances of the whole service: one of its parts is busy at a time,   *)
(* with the networks of MCSettings for the probe.                            *)
EXTENDS Service, MCSettings

MCDeployments ==
  {[launch |-> "scm", parts |-> {"traffic"}], [launch |-> "console", parts |-> {"traffic"}],
   [launch |-> "console", parts |-> {"auto_probe"}],
   [launch |-> "console", parts |-> {"domains_file"}],
   [launch |-> "console", parts |-> {"api"}], [launch |-> "scm", parts |-> {"sentinel"}]}
MCTraffic == {d \in MCDeployments : d.parts = {"traffic"}}
============================================================================
