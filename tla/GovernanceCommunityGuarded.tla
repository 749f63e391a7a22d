--------------------- MODULE GovernanceCommunityGuarded ---------------------
(***************************************************************************)
(* The emergency controls of a contract                                    *)
(* (contracts/GovernanceCommunityGuarded.sol): the governor can suspend    *)
(* it, and the holder of the community key can lift the guard that keeps   *)
(* the governor from its funds.  Both roles are read from whichever        *)
(* KeyManager the contract refers to when it is called.                    *)
(***************************************************************************)
EXTENDS AggKeyNonceConsumer

VARIABLES
    communityGuardDisabled,  \* [NonceConsumers -> BOOLEAN]
    suspended                \* [NonceConsumers -> BOOLEAN]

guardVars == <<communityGuardDisabled, suspended>>

GetGovernor(c) == govKey[keyManager[c]]
GetCommunityKey(c) == commKey[keyManager[c]]

OnlyGovernor(c, caller) == caller = GetGovernor(c)

\* Wrong: the flag is set, but not looked at.
SuspensionIgnored(c) == TRUE

OnlyNotSuspended(c) == ~ suspended[c]

EnableCommunityGuard(c, caller) ==
    /\ caller = GetCommunityKey(c)
    /\ communityGuardDisabled[c]
    /\ communityGuardDisabled' = [communityGuardDisabled EXCEPT ![c] = FALSE]
    /\ UNCHANGED suspended

DisableCommunityGuard(c, caller) ==
    /\ caller = GetCommunityKey(c)
    /\ ~ communityGuardDisabled[c]
    /\ communityGuardDisabled' = [communityGuardDisabled EXCEPT ![c] = TRUE]
    /\ UNCHANGED suspended

Suspend(c, caller) ==
    /\ OnlyGovernor(c, caller)
    /\ OnlyNotSuspended(c)
    /\ suspended' = [suspended EXCEPT ![c] = TRUE]
    /\ UNCHANGED communityGuardDisabled

Resume(c, caller) ==
    /\ OnlyGovernor(c, caller)
    /\ suspended[c]
    /\ suspended' = [suspended EXCEPT ![c] = FALSE]
    /\ UNCHANGED communityGuardDisabled

\* Wrong: the contract need not be suspended first.
UnsuspendedEmergency(c, caller) ==
    /\ OnlyGovernor(c, caller)
    /\ communityGuardDisabled[c]

\* The modifiers of an emergency withdrawal.
EmergencyApproved(c, caller) ==
    /\ OnlyGovernor(c, caller)
    /\ communityGuardDisabled[c]
    /\ suspended[c]

GuardUpdate(c) ==
    \E caller \in Accounts :
        \/ EnableCommunityGuard(c, caller)
        \/ DisableCommunityGuard(c, caller)
        \/ Suspend(c, caller)
        \/ Resume(c, caller)

GuardedInit ==
    /\ communityGuardDisabled = [c \in NonceConsumers |-> FALSE]
    /\ suspended = [c \in NonceConsumers |-> FALSE]

GuardedTypeOK ==
    /\ communityGuardDisabled \in [NonceConsumers -> BOOLEAN]
    /\ suspended \in [NonceConsumers -> BOOLEAN]
=============================================================================
