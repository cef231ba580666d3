----------------------------- MODULE MCProcesses -----------------------------
(***************************************************************************)
(* The two programs in C that watch other processes, which share nothing,  *)
(* checked side by side: a behaviour stays in the part ("daemondo" or      *)
(* "trace") that its initial state chooses.                                *)
(***************************************************************************)
EXTENDS Trace, Daemondo

VARIABLE part

(* Daemondo, with the command lines that port1.0/portstartupitem.tcl writes *)
(* for the four styles, and the one with a start-cmd only.                  *)
CmdLine(s, cmds, file) == [style |-> s, stop |-> cmds, restart |-> FALSE, pidfile |-> file]

MCOptions ==
  {CmdLine("exec", FALSE, FALSE), CmdLine("exec", FALSE, TRUE),
   CmdLine("exec", TRUE, TRUE), CmdLine("none", TRUE, FALSE),
   CmdLine("fileauto", FALSE, TRUE), CmdLine("fileclean", TRUE, TRUE),
   [CmdLine("none", TRUE, FALSE) EXCEPT !.restart = TRUE],
   [CmdLine("exec", FALSE, TRUE) EXCEPT !.restart = TRUE]}

(* Trace: two programs, two targets in turn.  The work directory lies in    *)
(* the prefix, as in an installation; under the prefix there are a file of  *)
(* a port, that the first target depends on, one of no port and one that is *)
(* not there.                                                               *)
MCUnder == [workpath |-> {"work"}, usr |-> {"cc"},
            prefix |-> {"work", "dep", "stray", "new"},
            root |-> {"work", "cc", "dep", "stray", "new", "etc"}]

MCOwner == [path \in MCUnder.root |->
              IF path = "dep" THEN "zlib" ELSE "none"]


\* Two ports in turn; and a target without the fence after one with it, both
\* of which name no dependencies.
MCPlans ==
  LET Target(inFence, its) == [fence |-> inFence, deps |-> its]
  IN {<<Target(TRUE, {"zlib"}), Target(TRUE, {"vim"})>>,
      <<Target(TRUE, {"none"}), Target(FALSE, {"none"})>>}

MCPath == MCUnder.root
MCSandbox == <<"workpath">>
MCSystem == <<"usr">>

-----------------------------------------------------------------------------
allVars == <<part, vars, daemondoVars>>

DaemondoStep(step) == part = "daemondo" /\ step /\ UNCHANGED <<part, vars>>
TraceStep(step) == part = "trace" /\ step /\ UNCHANGED <<part, daemondoVars>>

ProcessesInit ==
  /\ part \in {"daemondo", "trace"}
  /\ Init
  /\ DaemondoInit /\ (part = "trace" => opt = CmdLine("exec", FALSE, FALSE))

ProcessesNext == DaemondoStep(DaemondoNext) \/ TraceStep(Next)

\* The fairness of the two.
ProcessesSpec ==
  /\ ProcessesInit /\ [][ProcessesNext]_allVars
  /\ WF_allVars(DaemondoStep(Thread))
  /\ \A p \in Pids : WF_allVars(DaemondoStep(p \in killed /\ Dies(p)))
  /\ Fairness
=============================================================================
