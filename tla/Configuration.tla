---------------------------- MODULE Configuration -----------------------------
(***************************************************************************)
(* What a process reads before it serves: the environment variables of the *)
(* operating system, the .env file beside the binary, and the              *)
(* configuration that internal/config/config.go makes of the two.          *)
(***************************************************************************)
EXTENDS Integers, Sequences, SequencesExt

CONSTANTS
    Unset,          \* an environment variable that does not exist
    Atoi,           \* strconv.Atoi on the texts of an instance
    NotANumber,     \* ... and its error
    Hour,           \* time.Hour, in the units of an instance
    MaxDuration     \* the largest time.Duration: 2^63 - 1 in the code

ASSUME ConfigurationAssumption == Hour \in Nat \ {0} /\ MaxDuration \in Nat

\* The variables that steer anything modelled here; the port, the database URL
\* and the front-end URL are handed on as they are.
Variable == {"ENV", "SESSION_TTL_HOURS", "COOKIE_DOMAIN"}

FileOverridesSystem(file, env) ==                                   \* mutant
    FoldLeft(LAMBDA known, line : [known EXCEPT ![line[1]] = line[2]], env, file)

\* A line of .env is a key and a value, both trimmed; comments, blank lines and
\* lines without "=" have no effect.  A variable that exists, even as an empty
\* text, is left as it is, so that of two lines for one key the first counts.
loadEnvFile(file, env) ==
    FoldLeft(LAMBDA known, line :
                 IF known[line[1]] = Unset THEN [known EXCEPT ![line[1]] = line[2]]
                                           ELSE known,
             env, file)

\* An empty text counts as a variable that does not exist.
getEnv(env, key, default) == IF env[key] \in {Unset, ""} THEN default ELSE env[key]

\* A product of durations wraps round, as int64 arithmetic does.
Wrapped(d) == ((d + MaxDuration + 1) % (2 * (MaxDuration + 1))) - (MaxDuration + 1)

\* The configuration, or {} where Load returns an error and the process exits.
Load(system, file) ==
    LET env == loadEnvFile(file, system)
        hours == Atoi[getEnv(env, "SESSION_TTL_HOURS", "720")]
    IN IF hours = NotANumber THEN {}
       ELSE {[cookieSecure |-> getEnv(env, "ENV", "development") = "production",
              cookieDomain |-> getEnv(env, "COOKIE_DOMAIN", ""),
              sessionTTL   |-> Wrapped(hours * Hour)]}

\* What an operator asks for: the system's word, and where it says nothing the
\* first line of the file for the variable.
AskedFor(system, file, key, value) ==
    \/ system[key] = value
    \/ system[key] = Unset /\ \E i \in DOMAIN file :
           file[i] = <<key, value>> /\ \A j \in 1..(i - 1) : file[j][1] # key
=============================================================================
