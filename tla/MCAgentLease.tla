----------------------------- MODULE MCAgentLease -----------------------------
(***************************************************************************)
(* AgentLease for TLC: a laptop and the always-on host.  A tick is about   *)
(* what one handover activity takes; the timings keep the order of the     *)
(* code's: RenewEvery < TTL - Margin, TakeoverRetry < Grace < Lapse.       *)
(*                                                                         *)
(* A behaviour belongs to one part: the instance the configuration gives,  *)
(* or handovers between devices that change their users' minds and shut    *)
(* down, with a longer grace, where nothing fails.                         *)
(***************************************************************************)
EXTENDS AgentLease

CONSTANTS
    Parts,   \* the parts whose behaviours the run explores
    laptop, host

VARIABLE part

MCDevices == {laptop, host}

\* The laptop outranks the host; or both are hosts, until a user says otherwise.
LaptopFirst == {[d \in MCDevices |-> IF d = laptop THEN "interactive" ELSE "host"]}
AllHosts == {[d \in MCDevices |-> "host"]}

Failures == {"loss", "crash", "cede"}
Claims == {"claim"}
HungNetwork == {"loss", "lateAcquire", "lateRelease"}
HungRenewal == {"loss"}

Handovers == INSTANCE AgentLease WITH
    Grace <- 4, Lapse <- 5, Placements <- AllHosts, Events <- {"stop", "claim"},
    MaxEpoch <- 3, MaxSession <- 1

MCInit ==
    /\ part \in Parts
    /\ IF part = "handovers" THEN Handovers!Init ELSE Init
MCNext ==
    /\ UNCHANGED part
    /\ \/ part = "base" /\ Next
       \/ part = "handovers" /\ Handovers!Next
MCSpec == MCInit /\ [][MCNext]_<<part, vars>>
MCFairSpec == MCSpec /\ Fairness
=============================================================================
