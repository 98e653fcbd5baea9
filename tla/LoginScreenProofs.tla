-------------------------- MODULE LoginScreenProofs --------------------------
(***************************************************************************)
(* Theorems about the login screen (LoginScreen.tla) for every bound on    *)
(* the sign-ins outstanding.                                               *)
(***************************************************************************)
EXTENDS LoginScreen, TLAPS

USE MaxSignInsAssumption

\* The screen's initial state is well typed and shows no field error.
LEMMA LoginInit == Init => TypeOK /\ ErrorsOnlyOnInvalid
<1> SUFFICES ASSUME Init PROVE TypeOK /\ ErrorsOnlyOnInvalid
    OBVIOUS
<1>1. signIns \in 0..MaxSignIns
      BY DEF Init
<1>2. location \in {"login", "destination"}
      BY DEF Init
<1>3. validationErrors \in [username: BOOLEAN, password: BOOLEAN]
      BY DEF Init
<1>4. QED
      BY <1>1, <1>2, <1>3 DEF Init, TypeOK, ErrorsOnlyOnInvalid

(***************************************************************************)
(* A sign-in, by the button or by Enter, marks exactly the invalid fields  *)
(* or leaves the marks and the fields alone.                               *)
(***************************************************************************)
LEMMA SignInStep ==
    ASSUME TypeOK, ErrorsOnlyOnInvalid, handleSignIn
    PROVE  TypeOK' /\ ErrorsOnlyOnInvalid'
<1>1. CASE usernameValid /\ passwordValid
      BY <1>1 DEF handleSignIn, TypeOK, ErrorsOnlyOnInvalid
<1>2. CASE ~(usernameValid /\ passwordValid)
  <2>1. validationErrors' = [username |-> ~usernameValid, password |-> ~passwordValid]
        /\ UNCHANGED <<usernameValid, passwordValid, isLoading, signIns, location>>
        BY <1>2 DEF handleSignIn
  <2>2. validationErrors' \in [username: BOOLEAN, password: BOOLEAN]
        BY <2>1 DEF TypeOK
  <2>3. QED
        BY <2>1, <2>2 DEF TypeOK, ErrorsOnlyOnInvalid
<1>3. QED
      BY <1>1, <1>2

\* Every step keeps the types and the field errors honest.
LEMMA LoginNext ==
    TypeOK /\ ErrorsOnlyOnInvalid /\ [Next]_vars => TypeOK' /\ ErrorsOnlyOnInvalid'
<1> SUFFICES ASSUME TypeOK, ErrorsOnlyOnInvalid, [Next]_vars
             PROVE  TypeOK' /\ ErrorsOnlyOnInvalid'
    OBVIOUS
<1>1. CASE PressLogin \/ PressEnter
      BY <1>1, SignInStep DEF PressLogin, PressEnter
<1>2. CASE EditUsername
      BY <1>2 DEF EditUsername, TypeOK, ErrorsOnlyOnInvalid
<1>3. CASE EditPassword
      BY <1>3 DEF EditPassword, TypeOK, ErrorsOnlyOnInvalid
<1>4. CASE SignInSettles
  <2>1. location' \in {"login", "destination"}
        BY <1>4 DEF SignInSettles, TypeOK
  <2>2. signIns' \in 0..MaxSignIns
        BY <1>4 DEF SignInSettles, TypeOK
  <2>3. QED
        BY <1>4, <2>1, <2>2 DEF SignInSettles, TypeOK, ErrorsOnlyOnInvalid
<1>5. CASE UNCHANGED vars
      BY <1>5 DEF vars, TypeOK, ErrorsOnlyOnInvalid
<1>6. QED
      BY <1>1, <1>2, <1>3, <1>4, <1>5 DEF Next

(***************************************************************************)
(* "There is an error with one of the fields" never stays on a field whose *)
(* value is valid, whatever order the button, the Enter key, the edits and *)
(* the sign-in results come in.  TypeOK and the property are inductive     *)
(* together.                                                               *)
(***************************************************************************)
THEOREM ErrorsOnlyOnInvalidHolds == Spec => [](TypeOK /\ ErrorsOnlyOnInvalid)
BY LoginInit, LoginNext, PTL DEF Spec

\* Every reachable state of the login screen is well typed, for every bound
\* on the sign-ins outstanding.
THEOREM TypeCorrect == Spec => []TypeOK
BY ErrorsOnlyOnInvalidHolds, PTL

(***************************************************************************)
(* The spinner.  Only a sign-in with both fields valid shows it, and that  *)
(* sign-in is counted outstanding in the same step; a settled sign-in      *)
(* clears it whatever its outcome.                                          *)
(***************************************************************************)
LEMMA SpinnerNext ==
    TypeOK /\ SpinnerOnlyWhileSigningIn /\ [Next]_vars => SpinnerOnlyWhileSigningIn'
<1> SUFFICES ASSUME TypeOK, SpinnerOnlyWhileSigningIn, [Next]_vars
             PROVE  SpinnerOnlyWhileSigningIn'
    OBVIOUS
<1> USE DEF SpinnerOnlyWhileSigningIn, Shown
<1>1. ASSUME handleSignIn PROVE SpinnerOnlyWhileSigningIn'
  <2>1. CASE usernameValid /\ passwordValid
        BY <1>1, <2>1 DEF handleSignIn, TypeOK
  <2>2. CASE ~(usernameValid /\ passwordValid)
        BY <1>1, <2>2 DEF handleSignIn
  <2>3. QED
        BY <2>1, <2>2
<1>2. CASE PressLogin \/ PressEnter
      BY <1>1, <1>2 DEF PressLogin, PressEnter
<1>3. CASE EditUsername \/ EditPassword
      BY <1>3 DEF EditUsername, EditPassword
<1>4. CASE SignInSettles
      BY <1>4 DEF SignInSettles
<1>5. CASE UNCHANGED vars
      BY <1>5 DEF vars
<1>6. QED
      BY <1>2, <1>3, <1>4, <1>5 DEF Next

(***************************************************************************)
(* While the login page is shown, its spinner is shown only while a        *)
(* performLogin call is outstanding, however the Login button and the      *)
(* global Enter binding interleave with the results: handleSignIn's finally *)
(* never leaves the user without the button after a failed sign-in.        *)
(***************************************************************************)
THEOREM SpinnerOnlyWhileSigningInHolds == Spec => []SpinnerOnlyWhileSigningIn
<1>1. Init => SpinnerOnlyWhileSigningIn
      BY DEF Init, SpinnerOnlyWhileSigningIn
<1>2. QED
      BY <1>1, SpinnerNext, TypeCorrect, PTL DEF Spec
=============================================================================
