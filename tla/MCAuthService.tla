---------------------------- MODULE MCAuthService -----------------------------
(***************************************************************************)
(* Instances of AuthService for TLC.  Requests are interchangeable, so the *)
(* safety runs use their permutations as a symmetry set; no run that checks*)
(* a liveness property does.                                               *)
(***************************************************************************)
EXTENDS CountInvariant, TLC

\* Two addresses, one typed cleanly, one with stray blanks and capitals.
MCAddress == {"ann", "bob"}
MCRawEmail == {"ann", " Bob "}
MCNormalize == [raw \in MCRawEmail |-> IF raw = "ann" THEN "ann" ELSE "bob"]

\* One address, typed in a single way.
MCOneAddress == {"ann"}
MCOneRawEmail == {"Ann"}
MCOneNormalize == [raw \in MCOneRawEmail |-> "ann"]

\* One address, and a text that is none.
MCAnnOrJunk == {"Ann", "nobody@"}
MCAnnOrJunkNormalize == [raw \in MCAnnOrJunk |-> IF raw = "Ann" THEN "ann" ELSE Malformed]

MCPassword == {"Old1!", "New2?", "weak"}
MCStrong == {"Old1!", "New2?"}
MCTwoPasswords == {"Old1!", "New2?"}
MCOnePassword == {"Old1!"}
MCProfile == {"first", "second"}
MCOneProfile == {"first"}

SessionOps == {"SignUp", "SignIn", "SignOut", "ChangePassword", "SendOTP", "VerifyOTP"}
RevocationOps == {"SignUp", "SignIn", "ChangePassword"}
AccountOps == {"SignUp", "ChangePassword"}
TokenOps == {"SendMagicLink", "VerifyMagicLink", "SendOTP", "VerifyOTP"}
OTPOps == {"SendOTP", "VerifyOTP"}
SerialOps == {"SignUp", "SignIn", "ChangePassword", "SendMagicLink", "SendOTP", "VerifyOTP"}
EmailOps == {"SignUp", "VerifyEmailToken", "VerifyEmailOTP"}

Symmetry == Permutations(Request)
=============================================================================
