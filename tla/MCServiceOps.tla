---------------------------- MODULE MCServiceOps ----------------------------
(* Instance of ServiceOps: the requests and the initial services TLC tries. *)
EXTENDS ServiceOps, TLC

CONSTANTS a, b

MCValues == {a, b, Relative, Nul}

Reg(app, dir, out, share, code, unnamed, named) ==
    [n \in Names |->
        CASE n = "Application" -> app [] n = "AppDirectory" -> dir
          [] n = "AppStdout" -> out [] n = "AppStdoutShareMode" -> share
          [] n = "AppExit\\1" -> code [] n = "AppExit\\" -> unnamed
          [] n = "AppExit\\Default" -> named [] OTHER -> None]

Scm(runner, state) ==
    [present |-> TRUE, runner |-> runner, disabled |-> FALSE, native |-> a,
     description |-> a, state |-> state, doomed |-> FALSE]

\* Installed by NGSM; taken over from NSSM with a named Default, and with a relative
\* directory; a native service with parameters of its own; a managed service with a
\* broken value; none.
MCServices ==
    {[scm |-> Scm(TRUE, "Running"), reg |-> Reg(a, a, a, a, None, None, None)],
     [scm |-> Scm(FALSE, "Stopped"), 
      reg |-> [Reg(a, None, a, a, a, None, a) EXCEPT !["AppEvents"] = a]],
     [scm |-> Scm(FALSE, "Paused"), reg |-> Reg(a, Relative, None, None, a, None, None)],
     [scm |-> Scm(FALSE, "Stopped"), reg |-> Reg(None, a, None, None, None, None, None)],
     [scm |-> Scm(TRUE, "Stopped"), reg |-> Reg(a, Bad, None, None, None, None, None)],
     [scm |-> Absent, reg |-> NoValues]}

Edit(change, native, description, disable) ==
    [op |-> "edit", change |-> change, native |-> native,
     description |-> description, disable |-> disable]

MCRequests ==
    {Edit("AppStdout" :> None, None, None, FALSE),
     Edit("Application" :> b @@ "AppDirectory" :> b, b, b, FALSE),
     Edit("Application" :> b @@ "AppStdout" :> Nul, None, None, FALSE),
     Edit(<<>>, None, None, TRUE), Edit(<<>>, None, None, FALSE),
     [Edit(<<>>, b, None, FALSE) EXCEPT !.op = "native"],
     [op |-> "recovery", policy |-> "AppExit\\" :> b],
     [op |-> "set", name |-> "AppStdout", value |-> None],
     [op |-> "set", name |-> "AppDirectory", value |-> b],
     [op |-> "install", native |-> b, config |-> Reg(b, None, b, None, None, b, None)],
     [op |-> "remove", force |-> FALSE], [op |-> "remove", force |-> TRUE],
     [op |-> "repair", force |-> FALSE],
     [op |-> "start", force |-> FALSE], [op |-> "start", force |-> TRUE],
     [op |-> "stop", force |-> TRUE], [op |-> "pause", force |-> FALSE],
     [op |-> "continue", force |-> FALSE], [op |-> "rotate", force |-> FALSE],
     [op |-> "restart", force |-> FALSE]}
=============================================================================
