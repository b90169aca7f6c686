---------------------------- MODULE MCDeployment ------------------------------
(***************************************************************************)
(* Instances of Deployment for TLC.                                        *)
(***************************************************************************)
EXTENDS Deployment

\* A duration of one byte and an hour of three units stand for 64 bits and
\* 3.6e12 nanoseconds: 50 hours are as far out of range as 2562048 are there.
MCAtoi == [text \in {"720", "0", "50", "a day"} |->
    CASE text = "720" -> 30 [] text = "0" -> 0 [] text = "50" -> 50 [] OTHER -> NotANumber]

NothingSet == [v \in Variable |-> Unset]

\* ENV stands twice in the file, and an empty lifetime in the system.
Production ==
    <<[NothingSet EXCEPT !["SESSION_TTL_HOURS"] = ""],
      <<<<"ENV", "production">>, <<"ENV", "development">>>>>>

Development == <<NothingSet, <<<<"COOKIE_DOMAIN", "example.com">>>>>>

\* The file says production, but the system has an empty text under that name; no
\* cookie domain, and sessions that are over when they begin.
NoLifetime ==
    <<[NothingSet EXCEPT !["ENV"] = "", !["SESSION_TTL_HOURS"] = "0"],
      <<<<"ENV", "production">>>>>>

\* The file says development, the system knows better.  So long a lifetime that it
\* becomes a negative one.
Overflow ==
    <<[NothingSet EXCEPT !["ENV"] = "production", !["SESSION_TTL_HOURS"] = "50"],
      <<<<"ENV", "development">>>>>>

\* Refused.
BadLifetime == <<[NothingSet EXCEPT !["SESSION_TTL_HOURS"] = "a day"], <<>>>>

MCEnvironments == {Production, Development, NoLifetime, Overflow, BadLifetime}

\* A browser that waits for each answer before it sends its next request, from
\* processes that are not stopped in between.
Waits ==
    /\ \A r \in Request : stage[r] = "unsent" /\ stage'[r] # "unsent"
           => \A q \in Request : stage[q] \in {"unsent", "applied"}
    /\ \A r \in Request : stage'[r] # "lost"

PatientSpec == Init /\ [][Next /\ Waits]_vars
=============================================================================
