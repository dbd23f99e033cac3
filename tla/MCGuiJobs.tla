----------------------------- MODULE MCGuiJobs -----------------------------
(* Instance of GuiJobs: two services, a queue of one job. *)
EXTENDS GuiJobs, TLC

ServiceSymmetry == Permutations(ServiceNames)
=============================================================================
