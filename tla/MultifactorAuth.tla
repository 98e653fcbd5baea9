--------------------------- MODULE MultifactorAuth ---------------------------
(***************************************************************************)
(* MultifactorAuthScreen (screens/MultifactorAuthScreen.tsx) with its      *)
(* useUserData poll and the backend record its requests change.            *)
(*                                                                         *)
(* An action is the synchronous part of a handler, up to its first await; *)
(* the rest runs when the request settles.  Two timers matter: the effect  *)
(* without a dependency list arms setTimeout(setIsLoading(false), 2000)    *)
(* after every render, and a failed SMS send arms a 1500 ms revert to TOTP *)
(* that nothing cancels.  Each setState that changes what is rendered      *)
(* re-renders the screen (setAlertStatus and setUserData always do: they   *)
(* store a new object).                                                    *)
(***************************************************************************)
EXTENDS UserData

CONSTANTS
    MfaInitialUsers, \* the backend records a user can reach /mfa with
    MaxConfirms,     \* bound on performTotpConfirmation calls outstanding
    MaxSends,        \* bound on older initiateMfaSmsMessage calls outstanding
    MaxReverts       \* bound on revert timers armed

ASSUME MfaInitialUsersAssumption ==
    MfaInitialUsers \subseteq Users /\ MfaInitialUsers # {}

ASSUME MfaBoundsAssumption ==
    /\ MaxConfirms \in Nat \ {0}
    /\ MaxSends \in Nat
    /\ MaxReverts \in Nat \ {0}

VARIABLES
    screen,         \* the route shown: "mfa", "login" or "redirect"
    isLoading,      \* useState isLoading (true at mount)
    loadTimerArmed, \* some setTimeout(setIsLoading(false)) is pending
    mfaMode,        \* useState mfaMode: "ttop" or "sms"
    mountFetch,     \* the mount effect's getUserData(): Sent, a reply, Done
    confirms,       \* performTotpConfirmation calls not yet settled
    latestSend,     \* the SMS send of the latest switch to SMS mode
    oldSends,       \* SMS sends of earlier switches not yet settled
    reverts,        \* revert timers armed and not yet fired
    smsLinkSent     \* the backend has sent an SMS link

mfaVars == <<screen, isLoading, loadTimerArmed, mfaMode, mountFetch, confirms,
             latestSend, oldSends, reverts, smsLinkSent>>

vars == <<pollVars, mfaVars>>

MfaModes == {"ttop", "sms"}
SendStates == {"none", "pending", "ok", "failed"}

TypeOK ==
    /\ server \in Users
    /\ userData \in Users \cup {NoUser}
    /\ polls \in [PollSlots -> {Idle, Sent} \cup Replies]
    /\ screen \in {"mfa", "login", "redirect"}
    /\ isLoading \in BOOLEAN
    /\ loadTimerArmed \in BOOLEAN
    /\ mfaMode \in MfaModes
    /\ mountFetch \in {Sent, Done} \cup Replies
    /\ confirms \in 0..MaxConfirms
    /\ latestSend \in SendStates
    /\ oldSends \in 0..MaxSends
    /\ reverts \in 0..MaxReverts
    /\ smsLinkSent \in BOOLEAN

-----------------------------------------------------------------------------
(* Values the render computes from the state.                              *)

Mounted == screen = "mfa"

\* validMfaModes: TOTP needs an enrolled authenticator and no supervisor;
\* SMS needs a phone number or a supervisor.  Empty until a snapshot.
TtopValid == userData \in Users /\ userData.totp_enrolled /\ ~userData.supervisor
SmsValid == userData \in Users /\ (userData.phone_number \/ userData.supervisor)

\* Mutant of Renders: the loading-timer effect with a [] dependency list,
\* armed once at mount.
RendersNoRearm(changed) == UNCHANGED loadTimerArmed

\* The render after a setState: the dependency-free effect arms another
\* loading timer when the state changed.
Renders(changed) == loadTimerArmed' = (loadTimerArmed \/ changed)

-----------------------------------------------------------------------------
(* The handlers.                                                           *)

Init ==
    /\ server \in MfaInitialUsers
    /\ PollInit
    /\ screen = "mfa"
    /\ isLoading = TRUE
    /\ loadTimerArmed = TRUE
    /\ mfaMode = "ttop"
    /\ mountFetch = Sent
    /\ confirms = 0
    /\ latestSend = "none"
    /\ oldSends = 0
    /\ reverts = 0
    /\ smsLinkSent = FALSE

\* handleCodeCompletion from the code field, rendered in TOTP mode when
\* TOTP is valid and the spinner is not shown.  The supervisor check that
\* follows cannot fail there: TOTP is valid only without a supervisor.
SubmitCode ==
    /\ Mounted /\ ~isLoading /\ mfaMode = "ttop" /\ TtopValid
    /\ confirms < MaxConfirms
    /\ isLoading' = TRUE
    /\ confirms' = confirms + 1
    /\ Renders(TRUE)
    /\ UNCHANGED <<pollVars, screen, mfaMode, mountFetch, latestSend, oldSends,
                   reverts, smsLinkSent>>

\* A confirmation settles: the alert, then finally setIsLoading(false),
\* whether or not another confirmation is still outstanding.
ConfirmSettles ==
    /\ confirms > 0
    /\ confirms' = confirms - 1
    /\ \E accepted \in BOOLEAN :
           server' = IF accepted THEN RequestEffect("confirmTotp", server)
                                 ELSE server
    /\ isLoading' = FALSE
    /\ Renders(TRUE)
    /\ UNCHANGED <<userData, polls, screen, mfaMode, mountFetch, latestSend,
                   oldSends, reverts, smsLinkSent>>

\* The 2000 ms timer fires.  Other timers may still be pending; if this one
\* cleared the spinner, the render arms a new one.
LoadTimerFires ==
    /\ loadTimerArmed
    /\ isLoading' = FALSE
    /\ \E othersPending \in BOOLEAN :
           loadTimerArmed' = (othersPending \/ isLoading)
    /\ UNCHANGED <<pollVars, screen, mfaMode, mountFetch, confirms, latestSend,
                   oldSends, reverts, smsLinkSent>>

\* Mutant of ChangeMode: the new mode is spelled "totp", which is not a
\* member of MfaModes.
ChangeModeMisspelt ==
    /\ Mounted /\ ~isLoading
    /\ \/ mfaMode = "ttop" /\ SmsValid
       \/ mfaMode = "sms" /\ TtopValid
    /\ mfaMode' = IF mfaMode = "ttop" THEN "sms" ELSE "totp"
    /\ IF mfaMode' = "sms"
       THEN /\ latestSend = "pending" => oldSends < MaxSends
            /\ oldSends' = IF latestSend = "pending" THEN oldSends + 1 ELSE oldSends
            /\ latestSend' = "pending"
       ELSE UNCHANGED <<latestSend, oldSends>>
    /\ Renders(TRUE)
    /\ UNCHANGED <<pollVars, screen, isLoading, mountFetch, confirms, reverts,
                   smsLinkSent>>

\* handleModeChange from the mode link, rendered when the other mode is
\* valid and the spinner is not shown.  Switching to SMS calls
\* initiateSmsSending, whose initiateMfaSmsMessage is sent at once; a send
\* of an earlier switch still outstanding becomes an old one.
ChangeMode ==
    /\ Mounted /\ ~isLoading
    /\ \/ mfaMode = "ttop" /\ SmsValid
       \/ mfaMode = "sms" /\ TtopValid
    /\ mfaMode' = IF mfaMode = "ttop" THEN "sms" ELSE "ttop"
    /\ IF mfaMode' = "sms"
       THEN /\ latestSend = "pending" => oldSends < MaxSends
            /\ oldSends' = IF latestSend = "pending" THEN oldSends + 1 ELSE oldSends
            /\ latestSend' = "pending"
       ELSE UNCHANGED <<latestSend, oldSends>>
    /\ Renders(TRUE)
    /\ UNCHANGED <<pollVars, screen, isLoading, mountFetch, confirms, reverts,
                   smsLinkSent>>

\* initiateSmsSending resumes: an alert either way; a failure also arms the
\* revert to TOTP.  The send is the latest switch's or an older one.
SendResult(ok) ==
    /\ smsLinkSent' = (smsLinkSent \/ ok)
    /\ IF ok THEN UNCHANGED reverts
             ELSE reverts < MaxReverts /\ reverts' = reverts + 1
    /\ Renders(TRUE)

LatestSendSettles ==
    /\ latestSend = "pending"
    /\ \E ok \in BOOLEAN :
           /\ latestSend' = IF ok THEN "ok" ELSE "failed"
           /\ SendResult(ok)
    /\ UNCHANGED <<pollVars, screen, isLoading, mfaMode, mountFetch, confirms,
                   oldSends>>

OldSendSettles ==
    /\ oldSends > 0
    /\ oldSends' = oldSends - 1
    /\ \E ok \in BOOLEAN : SendResult(ok)
    /\ UNCHANGED <<pollVars, screen, isLoading, mfaMode, mountFetch, confirms,
                   latestSend>>

\* A revert timer fires: setMfaMode(TTOP), whatever the mode is now.
RevertFires ==
    /\ reverts > 0
    /\ reverts' = reverts - 1
    /\ mfaMode' = "ttop"
    /\ Renders(mfaMode # "ttop")
    /\ UNCHANGED <<pollVars, screen, isLoading, mountFetch, confirms,
                   latestSend, oldSends, smsLinkSent>>

\* Outside the client: the user, or the supervisor, follows the SMS link,
\* and the backend raises the session's auth level.
FollowSmsLink ==
    /\ smsLinkSent /\ ~server.mfa_verified
    /\ server' = [server EXCEPT !.mfa_verified = TRUE]
    /\ UNCHANGED <<userData, polls, mfaVars>>

\* The backend answers the mount effect's getUserData().
MountAnswer ==
    /\ mountFetch = Sent
    /\ \E r \in GetUserDataReplies(server) : mountFetch' = r
    /\ UNCHANGED <<pollVars, screen, isLoading, loadTimerArmed, mfaMode,
                   confirms, latestSend, oldSends, reverts, smsLinkSent>>

\* The mount effect resumes: a user that is not enrolled, or no user, is
\* sent to "/".  A rejection escapes the async closure unhandled.
MountSettles ==
    /\ Mounted
    /\ mountFetch \in Replies
    /\ mountFetch' = Done
    /\ screen' = IF mountFetch = NoUser \/ (mountFetch \in Users /\ ~mountFetch.enrolled)
                 THEN "login" ELSE screen
    /\ UNCHANGED <<pollVars, isLoading, loadTimerArmed, mfaMode, confirms,
                   latestSend, oldSends, reverts, smsLinkSent>>

\* The poll, while the screen is mounted.
Tick(i) ==
    /\ Mounted
    /\ PollTick(i)
    /\ UNCHANGED mfaVars

Answer(i) ==
    /\ Mounted
    /\ PollAnswer(i)
    /\ UNCHANGED mfaVars

\* The backend answers the call with the record itself.
AnswerOk(i) ==
    /\ Answer(i)
    /\ polls'[i] = server

\* Mutant of Deliver: the redirect tests the snapshot's enrolled flag
\* instead of its auth level.
DeliverRedirectOnEnrolled(i) ==
    /\ Mounted
    /\ PollDeliver(i)
    /\ screen' = IF userData' \in Users /\ userData'.enrolled
                 THEN "redirect" ELSE screen
    /\ Renders(userData' \in Users \/ userData' # userData)
    /\ UNCHANGED <<isLoading, mfaMode, mountFetch, confirms, latestSend,
                   oldSends, reverts, smsLinkSent>>

\* setUserData and the render it causes (a new object, or undefined in
\* place of a snapshot); a verified snapshot makes the render call
\* history.push("redirect").
Deliver(i) ==
    /\ Mounted
    /\ PollDeliver(i)
    /\ screen' = IF userData' \in Users /\ userData'.mfa_verified
                 THEN "redirect" ELSE screen
    /\ Renders(userData' \in Users \/ userData' # userData)
    /\ UNCHANGED <<isLoading, mfaMode, mountFetch, confirms, latestSend,
                   oldSends, reverts, smsLinkSent>>

Next ==
    \/ SubmitCode
    \/ ConfirmSettles
    \/ LoadTimerFires
    \/ ChangeMode
    \/ LatestSendSettles
    \/ OldSendSettles
    \/ RevertFires
    \/ FollowSmsLink
    \/ MountAnswer
    \/ MountSettles
    \/ \E i \in PollSlots : Tick(i) \/ Answer(i) \/ Deliver(i)

Spec == Init /\ [][Next]_vars

(***************************************************************************)
(* Fairness.  The timers fire: the loading timer and the poll's interval   *)
(* are browser timers that run while the screen is mounted, and a stored   *)
(* reply is set at once.  The backend is not failing forever: a call that  *)
(* keeps being made is eventually answered with the record.  Nothing is    *)
(* assumed of the user, of a confirmation or of an SMS send: axios has no  *)
(* timeout, and a request may hang.                                        *)
(***************************************************************************)
Fairness ==
    /\ WF_vars(LoadTimerFires)
    /\ \A i \in PollSlots :
           WF_vars(Tick(i)) /\ SF_vars(AnswerOk(i)) /\ WF_vars(Deliver(i))

FairSpec == Spec /\ Fairness

-----------------------------------------------------------------------------
(* Properties.                                                             *)

\* The screen hands over to the protected destination only when the backend
\* has raised the session's auth level, although it decides on a polled
\* snapshot that may be stale or late.
RedirectOnlyWhenVerified == screen = "redirect" => server.mfa_verified

\* The spec (section 5): no two code submissions of one controller run
\* concurrently; a second one before the first settles must be guarded.
ConfirmsNotConcurrent == confirms <= 1

\* The spec (4.5): the screen reverts to TOTP only because the SMS send the
\* user is waiting for failed.  A revert timer that fires while the screen
\* is in SMS mode finds the latest send failed.
RevertOnlyForLatestFailure ==
    [][reverts' < reverts /\ mfaMode = "sms" => latestSend = "failed"]_vars

\* The spinner never stays: however a confirmation hangs, the loading
\* timer armed by the render clears isLoading while the screen is shown.
SpinnerClears == isLoading ~> (~isLoading \/ ~Mounted)

\* Once the backend has raised the auth level (a confirmed code or a
\* followed SMS link), the screen does not stay on /mfa.
VerifiedLeaves == (Mounted /\ server.mfa_verified) ~> ~Mounted
=============================================================================
