------------------------ MODULE MultifactorAuthProofs ------------------------
(***************************************************************************)
(* Theorems about the MFA screen (MultifactorAuth.tla) for every value of  *)
(* the constants.                                                          *)
(***************************************************************************)
EXTENDS MultifactorAuth, AuthAPILemmas

USE MaxInFlightAssumption, MfaBoundsAssumption

(***************************************************************************)
(* TypeOK in two parts: the counters of outstanding calls and timers,      *)
(* which are arithmetic, and everything else.                              *)
(***************************************************************************)
CountersTypeOK ==
    /\ confirms \in 0..MaxConfirms
    /\ oldSends \in 0..MaxSends
    /\ reverts \in 0..MaxReverts

OtherTypeOK ==
    /\ server \in Users
    /\ userData \in Users \cup {NoUser}
    /\ polls \in [PollSlots -> {Idle, Sent} \cup Replies]
    /\ screen \in {"mfa", "login", "redirect"}
    /\ isLoading \in BOOLEAN
    /\ loadTimerArmed \in BOOLEAN
    /\ mfaMode \in MfaModes
    /\ mountFetch \in {Sent, Done} \cup Replies
    /\ latestSend \in SendStates
    /\ smsLinkSent \in BOOLEAN

LEMMA TypeOKParts == TypeOK <=> CountersTypeOK /\ OtherTypeOK
BY Zenon DEF TypeOK, CountersTypeOK, OtherTypeOK

\* A step of the poll keeps the poll's part of the type.
LEMMA PollType ==
    ASSUME OtherTypeOK, NEW i \in PollSlots,
           PollTick(i) \/ PollAnswer(i) \/ PollDeliver(i)
    PROVE  /\ server' \in Users
           /\ userData' \in Users \cup {NoUser}
           /\ polls' \in [PollSlots -> {Idle, Sent} \cup Replies]
BY SentinelsAssumption
   DEF OtherTypeOK, PollTick, PollAnswer, PollDeliver, GetUserDataReplies, Replies

LEMMA TypeNext == TypeOK /\ [Next]_vars => TypeOK'
<1> SUFFICES ASSUME CountersTypeOK, OtherTypeOK, [Next]_vars
             PROVE  CountersTypeOK' /\ OtherTypeOK'
    BY TypeOKParts DEF CountersTypeOK, OtherTypeOK, TypeOK
<1>1. CASE SubmitCode
      BY <1>1 DEF SubmitCode, Renders, CountersTypeOK, OtherTypeOK, pollVars
<1>2. CASE ConfirmSettles
  <2>1. server' \in Users
        BY <1>2, VerifyType DEF ConfirmSettles, OtherTypeOK
  <2>2. CountersTypeOK'
        BY <1>2 DEF ConfirmSettles, CountersTypeOK
  <2>3. OtherTypeOK'
        BY <1>2, <2>1 DEF ConfirmSettles, Renders, OtherTypeOK
  <2>4. QED
        BY <2>2, <2>3
<1>3. CASE LoadTimerFires
      BY <1>3 DEF LoadTimerFires, CountersTypeOK, OtherTypeOK, pollVars
<1>4. CASE ChangeMode
  <2>1. CountersTypeOK'
        BY <1>4 DEF ChangeMode, CountersTypeOK, pollVars
  <2>2. OtherTypeOK'
        BY <1>4 DEF ChangeMode, Renders, OtherTypeOK, pollVars, MfaModes, SendStates
  <2>3. QED
        BY <2>1, <2>2
<1>5. CASE LatestSendSettles
      BY <1>5 DEF LatestSendSettles, SendResult, Renders, CountersTypeOK,
         OtherTypeOK, pollVars, SendStates
<1>6. CASE OldSendSettles
      BY <1>6 DEF OldSendSettles, SendResult, Renders, CountersTypeOK,
         OtherTypeOK, pollVars
<1>7. CASE RevertFires
      BY <1>7 DEF RevertFires, Renders, CountersTypeOK, OtherTypeOK, pollVars,
         MfaModes
<1>8. CASE FollowSmsLink
      BY <1>8, VerifyType DEF FollowSmsLink, CountersTypeOK, OtherTypeOK, mfaVars
<1>9. CASE MountAnswer
      BY <1>9 DEF MountAnswer, CountersTypeOK, OtherTypeOK, pollVars,
         GetUserDataReplies, Replies
<1>10. CASE MountSettles
       BY <1>10 DEF MountSettles, CountersTypeOK, OtherTypeOK, pollVars
<1>11. ASSUME NEW i \in PollSlots, Tick(i) \/ Answer(i)
       PROVE  CountersTypeOK' /\ OtherTypeOK'
       BY <1>11, PollType DEF Tick, Answer, CountersTypeOK, OtherTypeOK, mfaVars
<1>12. ASSUME NEW i \in PollSlots, Deliver(i)
       PROVE  CountersTypeOK' /\ OtherTypeOK'
       BY <1>12, PollType DEF Deliver, Renders, CountersTypeOK, OtherTypeOK
<1>13. CASE UNCHANGED vars
       BY <1>13 DEF vars, pollVars, mfaVars, CountersTypeOK, OtherTypeOK
<1>14. QED
       BY <1>1, <1>2, <1>3, <1>4, <1>5, <1>6, <1>7, <1>8, <1>9, <1>10, <1>11,
          <1>12, <1>13 DEF Next

LEMMA TypeInit == Init => TypeOK
<1> SUFFICES ASSUME Init PROVE CountersTypeOK /\ OtherTypeOK
    BY TypeOKParts
<1>1. CountersTypeOK
      BY DEF Init, CountersTypeOK
<1>2. OtherTypeOK
      BY MfaInitialUsersAssumption, SentinelsAssumption
      DEF Init, PollInit, OtherTypeOK, MfaModes, SendStates, Replies
<1>3. QED
      BY <1>1, <1>2

\* The MFA screen's state keeps its types in every reachable state.
THEOREM TypeCorrect == Spec => []TypeOK
BY TypeInit, TypeNext, PTL DEF Spec

(***************************************************************************)
(* The strengthening.  A getUserData reply is a copy of the backend record *)
(* at the time of the answer, and the backend only ever sets flags (a      *)
(* confirmed code or a followed SMS link raises the auth level, nothing    *)
(* lowers it); so every snapshot the screen holds, in userData, in a poll  *)
(* slot or in the mount fetch, shows no flag the backend lacks.  With it,  *)
(* the redirect on a verified snapshot implies a verified backend.         *)
(***************************************************************************)
SnapshotsBelowServer ==
    /\ userData \in Users => SnapshotBelow(userData, server)
    /\ \A i \in PollSlots : polls[i] \in Users => SnapshotBelow(polls[i], server)
    /\ mountFetch \in Users => SnapshotBelow(mountFetch, server)

SafetyInv == SnapshotsBelowServer /\ RedirectOnlyWhenVerified

IInv == TypeOK /\ SafetyInv

\* The variables the safety invariant reads.
safetyVars == <<server, userData, polls, mountFetch, screen>>

\* A step that leaves the variables the invariant reads keeps it.
LEMMA SafetyFrame ==
    ASSUME SafetyInv, UNCHANGED safetyVars
    PROVE  SafetyInv'
BY DEF SafetyInv, SnapshotsBelowServer, RedirectOnlyWhenVerified, safetyVars

\* The backend raises the auth level (ConfirmSettles accepted, or
\* FollowSmsLink) and nothing the screen holds changes.
LEMMA VerifyStep ==
    ASSUME TypeOK, SafetyInv, server' = [server EXCEPT !.mfa_verified = TRUE],
           UNCHANGED <<userData, polls, mountFetch, screen>>
    PROVE  SafetyInv'
<1>1. server \in Users /\ server' \in Users
      BY VerifyType DEF TypeOK
<1>2. SnapshotsBelowServer'
      BY <1>1, VerifyGrows DEF TypeOK, SafetyInv, SnapshotsBelowServer
<1>3. server'.mfa_verified
      BY <1>1 DEF Users
<1>4. QED
      BY <1>2, <1>3 DEF SafetyInv, RedirectOnlyWhenVerified

LEMMA SafetyNext == IInv /\ [Next]_vars => SafetyInv'
<1> SUFFICES ASSUME TypeOK, SafetyInv, [Next]_vars PROVE SafetyInv'
    BY DEF IInv
<1>1. CASE SubmitCode \/ LoadTimerFires \/ ChangeMode \/ LatestSendSettles
           \/ OldSendSettles \/ RevertFires
      BY <1>1, SafetyFrame DEF SubmitCode, LoadTimerFires, ChangeMode,
         LatestSendSettles, OldSendSettles, RevertFires, pollVars, safetyVars
<1>2. CASE ConfirmSettles
  <2>1. CASE server' = server
        BY <1>2, <2>1, SafetyFrame DEF ConfirmSettles, safetyVars
  <2>2. CASE server' = [server EXCEPT !.mfa_verified = TRUE]
        BY <1>2, <2>2, VerifyStep DEF ConfirmSettles
  <2>3. QED
        BY <1>2, <2>1, <2>2, VerifyType DEF ConfirmSettles, TypeOK
<1>3. CASE FollowSmsLink
      BY <1>3, VerifyStep DEF FollowSmsLink, mfaVars
<1>4. CASE MountAnswer
  <2>1. server \in Users /\ mountFetch' \in {server, NoUser, Failed}
        BY <1>4 DEF MountAnswer, GetUserDataReplies, TypeOK
  <2>2. mountFetch' \in Users => SnapshotBelow(mountFetch', server')
        BY <1>4, <2>1, BelowSelf, SentinelsAssumption DEF MountAnswer, pollVars
  <2>3. QED
        BY <1>4, <2>2 DEF MountAnswer, pollVars, SafetyInv,
           SnapshotsBelowServer, RedirectOnlyWhenVerified
<1>5. CASE MountSettles
      BY <1>5, SentinelsAssumption DEF MountSettles, pollVars, SafetyInv,
         SnapshotsBelowServer, RedirectOnlyWhenVerified
<1>6. ASSUME NEW i \in PollSlots, Tick(i) PROVE SafetyInv'
      BY <1>6, SentinelsAssumption DEF Tick, PollTick, mfaVars, TypeOK,
         SafetyInv, SnapshotsBelowServer, RedirectOnlyWhenVerified
<1>7. ASSUME NEW i \in PollSlots, Answer(i) PROVE SafetyInv'
  <2>1. server \in Users /\ polls'[i] \in {server, NoUser, Failed}
        /\ polls' = [polls EXCEPT ![i] = polls'[i]]
        BY <1>7 DEF Answer, PollAnswer, GetUserDataReplies, TypeOK
  <2>2. polls'[i] \in Users => SnapshotBelow(polls'[i], server)
        BY <2>1, BelowSelf, SentinelsAssumption
  <2>3. QED
        BY <1>7, <2>1, <2>2 DEF Answer, PollAnswer, mfaVars, TypeOK, SafetyInv,
           SnapshotsBelowServer, RedirectOnlyWhenVerified
<1>8. ASSUME NEW i \in PollSlots, Deliver(i) PROVE SafetyInv'
  <2>1. /\ server' = server /\ mountFetch' = mountFetch
        /\ polls' = [polls EXCEPT ![i] = Idle]
        /\ userData' = IF polls[i] = Failed THEN userData ELSE polls[i]
        /\ screen' = IF userData' \in Users /\ userData'.mfa_verified
                     THEN "redirect" ELSE screen
        BY <1>8 DEF Deliver, PollDeliver
  <2>2. userData' \in Users => SnapshotBelow(userData', server)
        BY <2>1 DEF SafetyInv, SnapshotsBelowServer
  <2>3. SnapshotsBelowServer'
        BY <2>1, <2>2, SentinelsAssumption DEF TypeOK, SafetyInv,
           SnapshotsBelowServer
  <2>4. RedirectOnlyWhenVerified'
        BY <2>1, <2>2, BelowVerified DEF TypeOK, SafetyInv,
           RedirectOnlyWhenVerified
  <2>5. QED
        BY <2>3, <2>4 DEF SafetyInv
<1>9. CASE UNCHANGED vars
      BY <1>9, SafetyFrame DEF vars, pollVars, mfaVars, safetyVars
<1>10. QED
       BY <1>1, <1>2, <1>3, <1>4, <1>5, <1>6, <1>7, <1>8, <1>9 DEF Next

\* The screen at mount holds no snapshot and shows /mfa.
LEMMA SafetyInit == Init => IInv
<1> SUFFICES ASSUME Init PROVE SafetyInv
    BY TypeInit DEF IInv
<1>1. \A i \in PollSlots : polls[i] \notin Users
      BY SentinelsAssumption DEF Init, PollInit
<1>2. QED
      BY <1>1, SentinelsAssumption DEF Init, PollInit, SafetyInv,
         SnapshotsBelowServer, RedirectOnlyWhenVerified

(***************************************************************************)
(* The MFA screen calls history.push("redirect") only when the backend has *)
(* raised the session's auth level, although it decides on a polled       *)
(* snapshot that may be stale or arrive after later ones, for every number *)
(* of overlapping polls and every bound on the outstanding requests.  The  *)
(* argument is the inductive invariant IInv.                               *)
(***************************************************************************)
THEOREM RedirectOnlyWhenVerifiedHolds == Spec => []RedirectOnlyWhenVerified
<1>1. Init => IInv
      BY SafetyInit
<1>2. IInv /\ [Next]_vars => IInv'
      BY SafetyNext, TypeNext DEF IInv
<1>3. IInv => RedirectOnlyWhenVerified
      BY DEF IInv, SafetyInv
<1>4. QED
      BY <1>1, <1>2, <1>3, PTL DEF Spec
=====
