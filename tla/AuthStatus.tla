----------------------------- MODULE AuthStatus -----------------------------
(***************************************************************************)
(* The vocabulary shared by every module that deals with a login:          *)
(* AuthenticationManager::LoginStatus, the requests an authentication      *)
(* manager sends, the answers a server gives, and the guards of            *)
(* AuthenticationManagerBase as predicates on the status.                  *)
(***************************************************************************)

LoginStatus ==
  {"Connecting", "LoginOngoing", "LoggedIn", "LoginFailedInvalidUserOrPassword",
   "LoginOtpRequired", "LoginOtpAuthOngoing", "LoginFailedInvalidOtp",
   "LogoutOngoing", "LoggedOut", "LogoutCleanUpOngoing", "LoggedOutAndCleanedUp",
   "FailedToLoginPluginProblem", "LoginFailedUserNotActivated",
   "LoginFailedLoginBlockForIp", "LoginFailedLoginBlockedForUser",
   "LoginFailedLoginAppNotAllowedToLogin", "GenericError"}

Method == {"Login", "SendOtp", "Logout", "LogoutCleanUp"}
CredentialMethod == {"Login", "SendOtp"}

\* The error member of an answer, by what the code tells apart.
ErrorCode ==
  {"403", "totp-required", "totp-invalid", "error-user-is-not-activated",
   "error-login-blocked-for-ip", "error-login-blocked-for-user",
   "error-app-user-is-not-allowed-to-login", "other"}

IsLoggedOut(status) ==
  status \in {"LoggedOut", "LogoutCleanUpOngoing", "LoggedOutAndCleanedUp"}

\* checkGenericError() in front of the interactive logins: the error state is
\* replaced, without a signal, before loginImpl looks at it.
ResetGenericError(status) ==
  IF status = "GenericError" THEN "LoggedOut" ELSE status

\* loginImpl
AcceptsLogin(status) == status \notin {"GenericError", "LoginOngoing", "LoggedIn"}

\* sendOTP: the test that an OTP was asked for is commented out in the code.
AcceptsOtp(status) == status \notin {"GenericError", "LoginOtpAuthOngoing"}

\* Faulty: the "already logged out" return is missing.
AcceptsLogoutAlways(status) == status \notin {"GenericError", "LogoutOngoing"}

\* logout and logoutAndCleanup
AcceptsLogout(status) ==
  /\ status \notin {"GenericError", "LogoutOngoing"}
  /\ ~IsLoggedOut(status)

\* The status set next to callLoginImpl. Both kinds of logout give the same.
StatusAfterCall(method) ==
  CASE method = "Login"   -> "LoginOngoing"
    [] method = "SendOtp" -> "LoginOtpAuthOngoing"
    [] method \in {"Logout", "LogoutCleanUp"} -> "LogoutOngoing"

\* Faulty: an invalid OTP is logged, the status stays.
StatusAfterLoginErrorIgnoresOtp(error) ==
  IF error = "totp-invalid" THEN "LoginOtpAuthOngoing" ELSE "GenericError"

StatusAfterLoginError(error) ==
  CASE error = "403"           -> "LoginFailedInvalidUserOrPassword"
    [] error = "totp-required" -> "LoginOtpRequired"
    [] error = "totp-invalid"  -> "LoginFailedInvalidOtp"
    [] error = "error-user-is-not-activated"  -> "LoginFailedUserNotActivated"
    [] error = "error-login-blocked-for-ip"   -> "LoginFailedLoginBlockForIp"
    [] error = "error-login-blocked-for-user" -> "LoginFailedLoginBlockedForUser"
    [] error = "error-app-user-is-not-allowed-to-login"
                                              -> "LoginFailedLoginAppNotAllowedToLogin"
    [] OTHER                                  -> "GenericError"

\* processMethodResponseImpl. An answer is a result or an error; it is applied
\* whatever the status is when it arrives.
StatusAfterResult(method) ==
  CASE method \in CredentialMethod -> "LoggedIn"
    [] method = "Logout"           -> "LoggedOut"
    [] method = "LogoutCleanUp"    -> "LoggedOutAndCleanedUp"

\* Faulty: an error on logout is logged, the status stays.
StatusAfterErrorIgnoresLogout(method, error) ==
  IF method = "Logout" THEN "LogoutOngoing" ELSE StatusAfterLoginError(error)

StatusAfterError(method, error) ==
  CASE method \in CredentialMethod -> StatusAfterLoginError(error)
    [] method = "Logout"           -> "GenericError"
    [] method = "LogoutCleanUp"    -> "LoggedOutAndCleanedUp"
=============================================================================
