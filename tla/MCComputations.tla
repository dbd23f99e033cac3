--------------------------- MODULE MCComputations ---------------------------
(***************************************************************************)
(* The parts of NGSM that compute a result from an input, in one model: a  *)
(* behaviour lives through a service's history and shows its dashboard,    *)
(* writes a text and converts it, or writes a command and carries it out.  *)
(***************************************************************************)
EXTENDS Dashboard, Conversions, FrontEnds

VARIABLE mode

\* No spelling of the service's name is special.
Spellings == Permutations(Names)

conversionVars == <<topic, text>>
commandVars == <<verb, flags>>

Init ==
    /\ mode \in {"dashboard", "conversion", "command"}
    /\ DashboardInit
    /\ FrontEndsInit
    /\ IF mode = "conversion" THEN ConversionsInit ELSE topic = "none" /\ text = <<>>

LiveOn == mode = "dashboard" /\ DashboardNext /\ UNCHANGED <<mode, conversionVars, commandVars>>
Write == mode = "conversion" /\ ConversionsNext /\ UNCHANGED <<mode, vars, commandVars>>
Order == mode = "command" /\ FrontEndsNext /\ UNCHANGED <<mode, vars, conversionVars>>

Next == LiveOn \/ Write \/ Order

Spec == Init /\ [][Next]_<<mode, vars, conversionVars, commandVars>>
=============================================================================
