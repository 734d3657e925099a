------------------------------ MODULE MCMachine -----------------------------
(***************************************************************************)
(* The agent's machine, for TLC: the lease server, the supervisor of the   *)
(* agent, the relay to the machine, the devices paired with a daemon and   *)
(* the machine a device is paired with. Each behaviour moves the variables *)
(* of one part and leaves the others as they start.                        *)
(***************************************************************************)
EXTENDS LeaseServer, AgentSupervisor, AgentRelay, PairedDevices, MachinePairing, TLC

CONSTANTS
    Parts,   \* the parts whose behaviours the run explores
    laptop, phone, host, m1, m2, c1, c2

VARIABLE part    \* the part that moves in this behaviour

serverVars == <<row>>

-----------------------------------------------------------------------------
(* The lease of the agent, on the sync service.                            *)

ServerStep ==
    /\ part = "server" /\ Next
    /\ UNCHANGED <<part, vars, relayVars, devicesVars, pairingVars>>

-----------------------------------------------------------------------------
(* The supervisor of the agent, and the runtime it leases.                 *)

AgentInit ==
    /\ SupervisorInit
    /\ part # "supervises" =>
           ~ machine /\ placement = "always_on_machine" /\ config = "none" /\ token = "absent"
AgentStep ==
    /\ part = "supervises" /\ SupervisorNext
    /\ UNCHANGED <<part, serverVars, relayVars, devicesVars, pairingVars>>

-----------------------------------------------------------------------------
(* The relay to one machine, or to two in turn.                            *)

LinkInit ==
    /\ RelayInit
    /\ part # "links" => ~ relayed /\ credential = NoPeer /\ accepts = {}
RelayStep ==
    /\ part = "links" /\ RelayNext
    /\ UNCHANGED <<part, serverVars, vars, devicesVars, pairingVars>>

-----------------------------------------------------------------------------
(* The devices paired with a daemon, and those that ask.                   *)

DevicesMove ==
    /\ part = "paired" /\ DevicesNext
    /\ UNCHANGED <<part, serverVars, vars, relayVars, pairingVars>>

-----------------------------------------------------------------------------
(* The machine this device is paired with.                                 *)

MachineInit ==
    /\ PairingInit
    /\ part # "machine" => chosen = NoMachine
MachineStep ==
    /\ part = "machine" /\ PairingNext
    /\ UNCHANGED <<part, serverVars, vars, relayVars, devicesVars>>

-----------------------------------------------------------------------------
MCInit ==
    /\ part \in Parts
    /\ Init
    /\ AgentInit
    /\ LinkInit
    /\ DevicesInit
    /\ MachineInit
MCNext ==
    \/ ServerStep
    \/ AgentStep
    \/ RelayStep
    \/ DevicesMove
    \/ MachineStep
MCVars == <<part, serverVars, vars, relayVars, devicesVars, pairingVars>>
MCSpec == MCInit /\ [][MCNext]_MCVars
=============================================================================
