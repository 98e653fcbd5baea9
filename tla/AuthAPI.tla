------------------------------- MODULE AuthAPI -------------------------------
(***************************************************************************)
(* The data the login client exchanges with the backend and the effect of  *)
(* each request of services/AuthAPI.ts on the backend's user record.       *)
(*                                                                         *)
(* An IUser (interfaces.ts) is abstracted to the fields the screens branch *)
(* on; a string field is TRUE when it is non-empty, and mfa_verified is    *)
(* the MFA screen's test name !== "anonymous" && auth_level > 1.  The      *)
(* identity fields and timestamps are left out: no screen reads them.      *)
(***************************************************************************)
EXTENDS Naturals

CONSTANTS
    NoUser,   \* getUserData resolved to undefined (payload failed UserDataScheme)
    Failed,   \* the request's promise rejected (transport error, or any non-2xx
              \* status, 403 included: axios rejects those before line 36 runs)
    Idle,     \* no request outstanding in a slot
    Sent,     \* request sent, no answer yet
    Done      \* one-shot request already handled

\* IUser, as far as the enrollment and MFA screens read it.
Users == [personal_desktop: BOOLEAN, phone_number: BOOLEAN,
          totp_enrolled: BOOLEAN, enrolled: BOOLEAN, supervisor: BOOLEAN,
          mfa_verified: BOOLEAN]

ASSUME SentinelsAssumption ==
    /\ {NoUser, Failed, Idle, Sent, Done} \cap Users = {}
    /\ NoUser # Failed /\ NoUser # Idle /\ NoUser # Sent /\ NoUser # Done
    /\ Failed # Idle /\ Failed # Sent /\ Failed # Done
    /\ Idle # Sent /\ Idle # Done /\ Sent # Done

\* What a call of getUserData() can resolve or reject to when the backend's
\* record is srv: the record, undefined when the schema check fails, or a
\* rejection.
GetUserDataReplies(srv) == {srv, NoUser, Failed}

\* The backend answers of getUserData taken together.
Replies == Users \cup {NoUser, Failed}

\* A snapshot is "at most" the backend record when every flag it shows set
\* is set on the backend, and it names the backend's supervisor.  The
\* backend's flags are only ever set by the requests below, never cleared,
\* and no request changes the supervisor.
SnapshotBelow(u, srv) ==
    /\ \A f \in {"personal_desktop", "phone_number", "totp_enrolled", "enrolled",
                 "mfa_verified"} :
           u[f] => srv[f]
    /\ u.supervisor = srv.supervisor

\* The requests the enrollment wizard sends and does not read a result from.
Requests == {"updateComputerName", "saveUserToDB", "enrollSms", "enrollTotp",
             "initiateSms", "confirmTotp", "initiateMfaSms"}

\* The effect on the backend record of a request that the backend accepts.
\* PUT users/me {personal_desktop} records the (non-empty) computer name;
\* POST users/me/commit marks the user enrolled; POST users/me/verify with
\* kind sms or totp enrolls that factor; POST users/me/initiate-sms only
\* sends a message.
\* updateComputerName: PUT users/me {personal_desktop}.
updateComputerName(srv) == [srv EXCEPT !.personal_desktop = TRUE]

\* saveUserToDB: POST users/me/commit marks the enrollment complete.
saveUserToDB(srv) == [srv EXCEPT !.enrolled = TRUE]

\* initiateSmsMessage: POST users/me/initiate-sms sends a code by SMS; the
\* record the screens read is unchanged until the code is verified.
initiateSmsMessage(srv) == srv

\* performMfaEnrollment: POST users/me/verify {kind, code}; an accepted
\* code enrolls the factor of its kind.
performMfaEnrollment(kind, srv) ==
    IF kind = "sms" THEN [srv EXCEPT !.phone_number = TRUE]
                    ELSE [srv EXCEPT !.totp_enrolled = TRUE]

\* performTotpConfirmation: POST auth/stage/2 {totp}; an accepted code
\* raises the session's auth level.
performTotpConfirmation(srv) == [srv EXCEPT !.mfa_verified = TRUE]

\* initiateMfaSmsMessage: POST auth/stage/2 asks for the SMS link; the level
\* rises only when the link is followed, outside this client.
initiateMfaSmsMessage(srv) == srv

\* The backend record after it accepts a request; performEnrollWithSMS and
\* performEnrollWithTOTP pick the kind.
RequestEffect(req, srv) ==
    CASE req = "updateComputerName" -> updateComputerName(srv)
      [] req = "saveUserToDB"       -> saveUserToDB(srv)
      [] req = "enrollSms"          -> performMfaEnrollment("sms", srv)
      [] req = "enrollTotp"         -> performMfaEnrollment("totp", srv)
      [] req = "initiateSms"        -> initiateSmsMessage(srv)
      [] req = "confirmTotp"        -> performTotpConfirmation(srv)
      [] req = "initiateMfaSms"     -> initiateMfaSmsMessage(srv)
=====
