----------------------------- MODULE MCAgentFiles -----------------------------
(***************************************************************************)
(* AgentFiles for TLC: two devices hand the agent back and forth over a    *)
(* state file. A behaviour belongs to one part: the instance the           *)
(* configuration gives, one where PUTs arrive late, or a journal's.        *)
(***************************************************************************)
EXTENDS AgentFiles, TLC

CONSTANT Parts   \* the parts whose behaviours the run explores

VARIABLE part

DeviceSymmetry == Permutations(Device)

Late == INSTANCE AgentFiles WITH MaxEpoch <- 2, MaxStray <- 2
Journals == INSTANCE AgentFiles WITH Journal <- TRUE, MaxEpoch <- 2

MCInit == part \in Parts /\ Init
MCNext ==
    /\ UNCHANGED part
    /\ \/ part = "states" /\ Next
       \/ part = "late" /\ Late!Next
       \/ part = "journals" /\ Journals!Next
MCSpec == MCInit /\ [][MCNext]_<<part, vars>>
=============================================================================
