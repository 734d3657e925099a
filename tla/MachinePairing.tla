---------------------------- MODULE MachinePairing ----------------------------
(***************************************************************************)
(* The always-on machine from this device's side                           *)
(* (apps/daemon/src/machine-link.ts): clients pair with a machine, unpair, *)
(* and check it, at the same time; the vault's machine is a synced setting *)
(* that other devices change too; this device's credential is kept in      *)
(* memory and in `machine-token`, and whoever relays to the machine is     *)
(* told when it changes.                                                   *)
(*                                                                         *)
(* A credential is the number of the pairing it came from; `issuer` says   *)
(* which machine issued it.  Every request may go unanswered.              *)
(***************************************************************************)
EXTENDS Naturals, FiniteSets

CONSTANTS
    Machine,      \* the machines there are
    NoMachine,
    Request,      \* the requests of clients under way at once
    SettingsFail, \* whether saving the settings may fail
    FilesFail,    \* whether writing or removing `machine-token` may fail
    Revocations,  \* whether a machine may revoke this device by itself
    MaxPairs      \* bound on the credentials issued

ASSUME PairingAssumptions ==
    /\ NoMachine \notin Machine
    /\ SettingsFail \in BOOLEAN /\ FilesFail \in BOOLEAN /\ Revocations \in BOOLEAN
    /\ MaxPairs \in Nat

Token == 1 .. MaxPairs
None == 0

VARIABLES
    chosen,     \* settings: remote.alwaysOnMachine
    issuer,     \* which machine issued each credential
    valid,      \* the credentials the machines take
    stored,     \* #stored
    tokenFile,  \* machine-token
    told,       \* #credentialKey: what listeners were told
    last,       \* #last: the machine, the credential and the outcome of a check
    checking,   \* #checking
    call        \* where each request of a client is

pairingVars == <<chosen, issuer, valid, stored, tokenFile, told, last, checking, call>>

Machines == Machine \cup {NoMachine}
Outcomes == {"ok", "refused", "unreachable"}
NoCheck == [url |-> NoMachine, token |-> None, outcome |-> "unreachable"]
Idle == [at |-> "idle", to |-> NoMachine, token |-> None, answered |-> FALSE]

PairingTypeOK ==
    /\ chosen \in Machines
    /\ issuer \in [Token -> Machines]
    /\ valid \subseteq Token
    /\ stored \in Token \cup {None} /\ tokenFile \in Token \cup {None} /\ told \in Token \cup {None}
    /\ last \in [url : Machines, token : Token \cup {None}, outcome : Outcomes]
    /\ checking \in [url : Machines, token : Token \cup {None}, outcome : Outcomes]
    /\ call \in [Request -> [at : {"idle", "asking", "writing", "settling", "waiting", "revoking",
                                "removing"},
                          to : Machines, token : Token \cup {None}, answered : BOOLEAN]]

Issued == {t \in Token : issuer[t] # NoMachine}
IssuerOf(t) == IF t = None THEN NoMachine ELSE issuer[t]

\* current(): the credential counts only while its machine is the vault's.
\* Slip: whichever machine is the vault's.
CredentialAnywhere(m, t) == IF m # NoMachine THEN t ELSE None

Credential(m, t) == IF m # NoMachine /\ IssuerOf(t) = m THEN t ELSE None

Current == Credential(chosen, stored)

PairingInit ==
    /\ chosen \in Machines
    /\ issuer = [t \in Token |-> NoMachine]
    /\ valid = {}
    /\ stored = None /\ tokenFile = None /\ told = None
    /\ last = NoCheck /\ checking = NoCheck
    /\ call = [c \in Request |-> Idle]

To(c, at) == call' = [call EXCEPT ![c].at = at]

-----------------------------------------------------------------------------
(* Checks.                                                                 *)

\* #checkOnce: joins the check under way, or begins one.
CheckOnce ==
    IF checking # NoCheck \/ chosen = NoMachine
    THEN /\ UNCHANGED checking
         /\ last' = IF checking = NoCheck THEN NoCheck ELSE last
    ELSE /\ checking' = [url |-> chosen, token |-> Current, outcome |-> "ok"]
         /\ UNCHANGED last

\* POST /api/machine/check, and GET /api/machine when the last check is old.
Check(c) ==
    /\ call[c].at = "idle"
    /\ CheckOnce
    /\ To(c, "waiting")
    /\ UNCHANGED <<chosen, issuer, valid, stored, tokenFile, told>>

\* What came of it is kept if the machine is still the vault's.
Checked ==
    /\ checking # NoCheck
    /\ \E outcome \in {"unreachable", IF checking.token \in valid \cup {None} THEN "ok" ELSE "refused"} :
          last' = IF chosen = checking.url THEN [checking EXCEPT !.outcome = outcome] ELSE last
    /\ checking' = NoCheck
    /\ UNCHANGED <<chosen, issuer, valid, stored, tokenFile, told, call>>

Waited(c) ==
    /\ call[c].at = "waiting" /\ checking = NoCheck
    /\ call' = [call EXCEPT ![c] = Idle]
    /\ UNCHANGED <<chosen, issuer, valid, stored, tokenFile, told, last, checking>>

-----------------------------------------------------------------------------
(* Pairing.                                                                *)

Pair(c, m) ==
    /\ call[c].at = "idle"
    /\ call' = [call EXCEPT ![c] = [Idle EXCEPT !.at = "asking", !.to = m]]
    /\ UNCHANGED <<chosen, issuer, valid, stored, tokenFile, told, last, checking>>

\* The machine takes the code, and issues a credential.
Issues(c) ==
    /\ call[c].at = "asking" /\ call[c].token = None
    /\ \E t \in Token \ Issued :
        /\ \A u \in Token \ Issued : t <= u
        /\ issuer' = [issuer EXCEPT ![t] = call[c].to]
        /\ valid' = valid \cup {t}
        /\ call' = [call EXCEPT ![c].token = t]
    /\ UNCHANGED <<chosen, stored, tokenFile, told, last, checking>>

Answered(c) ==
    /\ call[c].at = "asking" /\ call[c].token # None
    /\ To(c, "writing")
    /\ UNCHANGED <<chosen, issuer, valid, stored, tokenFile, told, last, checking>>

\* The code was refused, or no answer came, or the file could not be written.
PairFails(c) ==
    /\ \/ call[c].at = "asking"
       \/ FilesFail /\ call[c].at = "writing"
    /\ call' = [call EXCEPT ![c] = Idle]
    /\ UNCHANGED <<chosen, issuer, valid, stored, tokenFile, told, last, checking>>

TokenWritten(c) ==
    /\ call[c].at = "writing"
    /\ tokenFile' = call[c].token
    /\ stored' = call[c].token
    /\ last' = NoCheck
    /\ To(c, "settling")
    /\ UNCHANGED <<chosen, issuer, valid, told, checking>>

\* settings.update, its listeners, #credentialChanged, and the check.
Settled(c) ==
    /\ call[c].at = "settling"
    /\ chosen' = call[c].to
    /\ told' = Credential(chosen', stored)
    /\ IF checking # NoCheck THEN UNCHANGED checking
       ELSE checking' = [url |-> chosen', token |-> Credential(chosen', stored), outcome |-> "ok"]
    /\ To(c, "waiting")
    /\ UNCHANGED <<issuer, valid, stored, tokenFile, last>>

NotSettled(c) ==
    /\ SettingsFail /\ call[c].at = "settling"
    /\ call' = [call EXCEPT ![c] = Idle]
    /\ UNCHANGED <<chosen, issuer, valid, stored, tokenFile, told, last, checking>>

-----------------------------------------------------------------------------
(* Unpairing.                                                              *)

Unpair(c) ==
    /\ call[c].at = "idle"
    /\ call' = [call EXCEPT ![c] = [Idle EXCEPT !.at = IF stored = None THEN "removing" ELSE "revoking",
                                                !.token = stored, !.to = IssuerOf(stored)]]
    /\ UNCHANGED <<chosen, issuer, valid, stored, tokenFile, told, last, checking>>

\* The machine revokes the credential and answers, or no answer comes.
Revoked(c) ==
    /\ call[c].at = "revoking"
    /\ \E answered \in BOOLEAN :
        /\ call' = [call EXCEPT ![c].at = "removing", ![c].answered = answered]
        /\ \E does \in {answered, TRUE} :
              valid' = IF does THEN valid \ {call[c].token} ELSE valid
    /\ UNCHANGED <<chosen, issuer, stored, tokenFile, told, last, checking>>

Removed(c) ==
    /\ call[c].at = "removing"
    /\ tokenFile' = None
    /\ stored' = None /\ last' = NoCheck /\ told' = None
    /\ call' = [call EXCEPT ![c] = Idle]
    /\ UNCHANGED <<chosen, issuer, valid, checking>>

NotRemoved(c) ==
    /\ FilesFail /\ call[c].at = "removing"
    /\ call' = [call EXCEPT ![c] = Idle]
    /\ UNCHANGED <<chosen, issuer, valid, stored, tokenFile, told, last, checking>>

-----------------------------------------------------------------------------
\* Another device, or a person, changes the vault's machine.
ChangeMachine(m) ==
    /\ m # chosen
    /\ chosen' = m
    /\ told' = Credential(m, stored)
    /\ UNCHANGED <<issuer, valid, stored, tokenFile, last, checking, call>>

RevokesItself(t) ==
    /\ Revocations /\ t \in valid
    /\ valid' = valid \ {t}
    /\ UNCHANGED <<chosen, issuer, stored, tokenFile, told, last, checking, call>>

\* The daemon stops, or dies, and starts again.
Restart ==
    /\ stored' = tokenFile
    /\ told' = Credential(chosen, tokenFile)
    /\ last' = NoCheck /\ checking' = NoCheck
    /\ call' = [c \in Request |-> Idle]
    /\ UNCHANGED <<chosen, issuer, valid, tokenFile>>

PairingSteps ==
    \/ Checked
    \/ \E c \in Request :
        \/ Waited(c)
        \/ Issues(c) \/ Answered(c) \/ PairFails(c) \/ TokenWritten(c) \/ Settled(c) \/ NotSettled(c)
        \/ Revoked(c) \/ Removed(c) \/ NotRemoved(c)

PairingNext ==
    \/ PairingSteps
    \/ \E c \in Request : Check(c) \/ Unpair(c) \/ \E m \in Machine : Pair(c, m)
    \/ \E m \in Machines : ChangeMachine(m)
    \/ \E t \in Token : RevokesItself(t)
    \/ Restart

PairingSpec == PairingInit /\ [][PairingNext]_pairingVars

-----------------------------------------------------------------------------
(* Properties.                                                             *)

\* "The token is only ever sent there": every request carries a credential to
\* the machine that issued it.
TokenStaysHome ==
    /\ checking.token # None => IssuerOf(checking.token) = checking.url
    /\ \A c \in Request : call[c].at = "revoking" => IssuerOf(call[c].token) = call[c].to
    /\ told # None => IssuerOf(told) = chosen

\* A restart finds the credential this daemon had, however pairings, unpairings
\* and failures crossed.
RestartKeepsIt == tokenFile = stored

\* "Follows the placement and the credential": unless a pairing is about to say
\* so, whoever relays knows the credential there is.
ListenersKnow == (~ \E c \in Request : call[c].at = "settling") => told = Current

\* A check tells about a machine that is the vault's, or was when it ended.
ChecksTheMachine ==
    [][\A m \in Machine : last'.url = m /\ last.url # m => chosen = m]_pairingVars

\* Together: the machine this device is paired with is the only one it trusts
\* with its token, across restarts, and the one its checks and listeners are
\* about.
OneMachineIsTrusted ==
    /\ [](PairingTypeOK /\ TokenStaysHome /\ RestartKeepsIt /\ (~ SettingsFail => ListenersKnow))
    /\ ChecksTheMachine
=============================================================================
