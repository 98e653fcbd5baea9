------------------------------- MODULE UserData ------------------------------
(***************************************************************************)
(* The useUserData hook (hooks/UserData.ts): one setInterval per mounted   *)
(* screen that calls getUserData() every PollingInteval ms and stores what *)
(* it resolves to with setUserData.  The interval does not wait for the    *)
(* previous call: several calls can be outstanding and they may resolve in *)
(* any order.  A slot of polls holds one outstanding call; MaxInFlight     *)
(* bounds how many overlap.                                                *)
(*                                                                         *)
(* The actions here are the hook's part of a step; the screen that uses    *)
(* the hook adds its own guard (mounted) and its own UNCHANGED.            *)
(***************************************************************************)
EXTENDS AuthAPI

CONSTANT MaxInFlight   \* number of getUserData calls that may overlap

ASSUME MaxInFlightAssumption == MaxInFlight \in Nat \ {0}

VARIABLES
    server,    \* the backend's user record (an element of Users)
    userData,  \* the hook's state: the last snapshot stored, or NoUser
    polls      \* polls[i]: Idle, Sent, or the reply the backend gave

PollSlots == 1..MaxInFlight

pollVars == <<server, userData, polls>>

\* useState<IUser | undefined>(undefined)
PollInit ==
    /\ userData = NoUser
    /\ polls = [i \in PollSlots |-> Idle]

\* The interval fires and calls getUserData().
PollTick(i) ==
    /\ polls[i] = Idle
    /\ polls' = [polls EXCEPT ![i] = Sent]
    /\ UNCHANGED <<server, userData>>

\* The backend answers the call with its record as it is now (or the call
\* fails, or the payload fails the schema check).
PollAnswer(i) ==
    /\ polls[i] = Sent
    /\ \E r \in GetUserDataReplies(server) : polls' = [polls EXCEPT ![i] = r]
    /\ UNCHANGED <<server, userData>>

\* Mutant of PollDeliver: the slot keeps its reply, so the hook stores the
\* first answer again and again (a cached promise in place of a new call).
PollDeliverKeepsSlot(i) ==
    /\ polls[i] \in Replies
    /\ userData' = IF polls[i] = Failed THEN userData ELSE polls[i]
    /\ polls' = polls
    /\ UNCHANGED server

\* The awaited call resumes: setUserData(userDataResponse).  A rejection
\* escapes the async callback before setUserData, so the previous snapshot
\* stays.
PollDeliver(i) ==
    /\ polls[i] \in Replies
    /\ userData' = IF polls[i] = Failed THEN userData ELSE polls[i]
    /\ polls' = [polls EXCEPT ![i] = Idle]
    /\ UNCHANGED server
=============================================================================
