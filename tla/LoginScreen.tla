----------------------------- MODULE LoginScreen -----------------------------
(***************************************************************************)
(* LoginScreen (screens/LoginScreen.tsx).  The fields are abstracted to    *)
(* the verdict of UsernameScheme and PasswordScheme (schemes.ts) on their  *)
(* current value.  Sign-in is reached from the Login button, rendered      *)
(* while no sign-in is loading, and from the Enter key, bound with         *)
(* Mousetrap.bindGlobal after every render and so active in the fields and *)
(* while loading.                                                          *)
(***************************************************************************)
EXTENDS Naturals

CONSTANT MaxSignIns   \* bound on performLogin calls outstanding

ASSUME MaxSignInsAssumption == MaxSignIns \in Nat \ {0}

VARIABLES
    usernameValid,    \* UsernameScheme accepts the username field
    passwordValid,    \* PasswordScheme accepts the password field
    validationErrors, \* useState validationErrors: [username, password]
    isLoading,        \* useState isLoading
    signIns,          \* performLogin calls not yet settled
    location          \* "login", or "destination" once redirect_uri is set

vars == <<usernameValid, passwordValid, validationErrors, isLoading, signIns,
          location>>

TypeOK ==
    /\ usernameValid \in BOOLEAN
    /\ passwordValid \in BOOLEAN
    /\ validationErrors \in [username: BOOLEAN, password: BOOLEAN]
    /\ isLoading \in BOOLEAN
    /\ signIns \in 0..MaxSignIns
    /\ location \in {"login", "destination"}

Shown == location = "login"

Init ==
    /\ usernameValid = FALSE
    /\ passwordValid = FALSE
    /\ validationErrors = [username |-> FALSE, password |-> FALSE]
    /\ isLoading = FALSE
    /\ signIns = 0
    /\ location = "login"

\* handleSignIn: validate both fields; report the failures and stop, or
\* show the spinner and call performLogin.
handleSignIn ==
    /\ Shown
    /\ IF usernameValid /\ passwordValid
       THEN /\ signIns < MaxSignIns
            /\ isLoading' = TRUE
            /\ signIns' = signIns + 1
            /\ UNCHANGED validationErrors
       ELSE /\ validationErrors' = [username |-> ~usernameValid,
                                    password |-> ~passwordValid]
            /\ UNCHANGED <<isLoading, signIns>>
    /\ UNCHANGED <<usernameValid, passwordValid, location>>

\* The Login button, rendered in place of the spinner.
PressLogin ==
    /\ ~isLoading
    /\ handleSignIn

\* Mousetrap.bindGlobal("enter", handleSignIn): no guard.
PressEnter == handleSignIn

\* Mutant of handleUsernameOnChange: the field's error is not cleared.
EditUsernameKeepsError ==
    /\ Shown
    /\ \E v \in BOOLEAN : usernameValid' = v
    /\ UNCHANGED <<passwordValid, validationErrors, isLoading, signIns, location>>

\* Mutant of handleUsernameOnChange: setValidationErrors({username: false})
\* without spreading validationErrors drops the password entry.
EditUsernameDropsPassword ==
    /\ Shown
    /\ validationErrors' = [username |-> FALSE]
    /\ \E v \in BOOLEAN : usernameValid' = v
    /\ UNCHANGED <<passwordValid, isLoading, signIns, location>>

\* handleUsernameOnChange: clear the field's error, store the new value.
EditUsername ==
    /\ Shown
    /\ validationErrors' = [validationErrors EXCEPT !.username = FALSE]
    /\ \E v \in BOOLEAN : usernameValid' = v
    /\ UNCHANGED <<passwordValid, isLoading, signIns, location>>

\* handlePasswordOnChange.
EditPassword ==
    /\ Shown
    /\ validationErrors' = [validationErrors EXCEPT !.password = FALSE]
    /\ \E v \in BOOLEAN : passwordValid' = v
    /\ UNCHANGED <<usernameValid, isLoading, signIns, location>>

\* Mutant of SignInSettles: setIsLoading(false) at the end of the try in
\* place of the finally, so a failed sign-in leaves the spinner.
SignInSettlesKeepsSpinner ==
    /\ signIns > 0
    /\ signIns' = signIns - 1
    /\ \E accepted \in BOOLEAN :
           /\ location' = IF accepted THEN "destination" ELSE location
           /\ isLoading' = IF accepted THEN FALSE ELSE isLoading
    /\ UNCHANGED <<usernameValid, passwordValid, validationErrors>>

\* handleSignIn resumes: on success window.location.href = redirect_uri,
\* on failure an alert; finally setIsLoading(false) either way.
SignInSettles ==
    /\ signIns > 0
    /\ signIns' = signIns - 1
    /\ \E accepted \in BOOLEAN :
           location' = IF accepted THEN "destination" ELSE location
    /\ isLoading' = FALSE
    /\ UNCHANGED <<usernameValid, passwordValid, validationErrors>>

Next ==
    \/ PressLogin
    \/ PressEnter
    \/ EditUsername
    \/ EditPassword
    \/ SignInSettles

Spec == Init /\ [][Next]_vars

-----------------------------------------------------------------------------
(* Properties.                                                             *)

\* The field error shown ("There is an error with one of the fields") is
\* never left on a field whose current value is valid: a sign-in marks only
\* invalid fields, and editing a field clears its mark, whichever of the
\* button, Enter and the edits come first.
ErrorsOnlyOnInvalid ==
    /\ validationErrors.username => ~usernameValid
    /\ validationErrors.password => ~passwordValid

\* While the login page is shown, the spinner that replaces the Login
\* button is shown only while some performLogin is outstanding: a failed
\* sign-in brings the button back (handleSignIn's finally clears isLoading
\* on failure as on success), however Enter and the button interleave.
SpinnerOnlyWhileSigningIn == Shown /\ isLoading => signIns > 0

\* The spec (4.4): only one login attempt is processed at a time.
SignInsNotConcurrent == signIns <= 1
=============================================================================
