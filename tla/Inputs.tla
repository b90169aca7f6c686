-------------------------------- MODULE Inputs --------------------------------
(***************************************************************************)
(* A client types a text, one symbol after the other: a password, one of   *)
(* the headers clientIP looks at, or a one-time code.  Meanwhile the       *)
(* account whose password is tried changes its password, and releases of   *)
(* the server with other Argon2 costs follow one another.                  *)
(***************************************************************************)
EXTENDS Passwords, ClientInput, FiniteSets

CONSTANTS
    Alphabet,       \* the symbols of each kind of text
    MaxTyped,       \* bound: length of each kind of text
    Choice,         \* passwords the account holder thinks of
    Salt,           \* what rand.Read may draw
    Release         \* pairs of an Argon2 version and costs

\* A rune has a byte at least; no address is a punctuation mark, none is of both
\* versions; a code is typed in digits.
ASSUME SymbolAssumption ==
    /\ \A rune \in Alphabet["password"] : rune.bytes \in Nat \ {0}
    /\ IP \cap {" ", ",", "[", "]", ":"} = {} /\ IPv4 \cap IPv6 = {}
    /\ Alphabet["code"] \subseteq 0..(Radix - 1)

ASSUME ReleaseAssumption == \A r \in Release : r.version # "none"

VARIABLES
    subject,        \* the kind of text that is typed
    text,           \* what was typed
    release,        \* the release that runs
    hash,           \* the stored hash of the account
    secret          \* history: the password it was made of, and the version

vars == <<subject, text, release, hash, secret>>

NoSecret == [password |-> <<>>, version |-> "none"]

Init ==
    /\ subject \in DOMAIN Alphabet
    /\ text = <<>>
    /\ release \in Release
    /\ hash = NoHash
    /\ secret = NoSecret

Type ==
    /\ Len(text) < MaxTyped[subject]
    /\ \E symbol \in Alphabet[subject] : text' = Append(text, symbol)
    /\ UNCHANGED <<subject, release, hash, secret>>

\* Sign-up and change of password.
SetPassword ==
    /\ subject = "password" /\ text = <<>>
    /\ \E password \in Choice, salt \in Salt :
           /\ ValidatePasswordStrength(password) = "ok"
           /\ hash' = HashPassword(release.version, password, release.params, salt)
           /\ secret' = [password |-> password, version |-> release.version]
    /\ UNCHANGED <<subject, text, release>>

Upgrade ==
    /\ subject = "password" /\ text = <<>>
    /\ release' \in Release
    /\ UNCHANGED <<subject, text, hash, secret>>

Next == Type \/ SetPassword \/ Upgrade

Spec == Init /\ [][Next]_vars

-----------------------------------------------------------------------------

\* The account's password, and no other text, is accepted, across changes of the
\* costs; an account that has none accepts no text.  (A release with another
\* version of Argon2 accepts no password hashed before it.)
OnlyOwnPasswordMatches ==
    subject = "password" =>
        (VerifyPassword(release.version, release.params, text, hash) = "match"
         <=> secret # NoSecret /\ text = secret.password /\ release.version = secret.version)

SingleByte == \A i \in DOMAIN text : text[i].bytes = 1

\* password.go:102 and v01 doc line 24: the limits are in characters.  That is
\* so where every character is one byte; otherwise the code counts bytes, so that
\* a shorter text may pass and a long one fail, but never one without a class.
PolicyAsDocumented ==
    subject = "password" =>
        LET accepted == ValidatePasswordStrength(text) = "ok"
            allClasses == {Classes[i] : i \in DOMAIN Classes}
                              \subseteq {text[i].class : i \in DOMAIN text}
        IN /\ SingleByte => (accepted <=> Len(text) \in MinBytes..MaxBytes /\ allClasses)
           /\ accepted => Len(text) <= MaxBytes /\ allClasses

-----------------------------------------------------------------------------

Header(kind, fallback) == IF subject = kind THEN text ELSE fallback

\* The other two sources: a header that is consulted first is absent, one that
\* is consulted later names an address of its own.
Client ==
    LET other == CHOOSE a \in IPv6 : TRUE IN
    clientIP(Header("X-Forwarded-For", <<>>),
             Header("X-Real-IP", IF subject = "RemoteAddr" THEN <<>> ELSE <<other>>),
             Header("RemoteAddr", <<"[", other, "]", ":", "port">>))

\* Text t is address a between blanks, with brackets around it or on one side.
Spells(t, a) ==
    \E i \in DOMAIN t :
        /\ t[i] = a
        /\ \A j \in DOMAIN t \ {i} : t[j] = " " \/ <<t[j], j>> \in {<<"[", i - 1>>, <<"]", i + 1>>}

\* What was typed as far as it names the client: up to the first comma.
FirstHop == {n \in 0..Len(text) : (n = Len(text) \/ text[n + 1] = ",")
                                  /\ \A i \in 1..n : text[i] # ","}

\* A proxy header gives an INET column an address exactly where its first hop is
\* an address and nothing else (a port, a host name or a zone makes the INSERT of
\* the session or token fail); an empty hop gives none, whatever follows it.
ProxyAddressStored ==
    /\ subject = "X-Forwarded-For" /\ text # <<>> =>
         \A n \in FirstHop, a \in IP : Client = <<a>> <=> Spells(SubSeq(text, 1, n), a)
    /\ subject = "X-Real-IP" /\ text # <<>> =>
         \A a \in IP : Client = <<a>> <=> Spells(text, a)

\* Without a proxy the address is stored as net/http reports it: port and
\* brackets go.
DirectAddressStored ==
    subject = "RemoteAddr" =>
        /\ \A a \in IPv4 : text = <<a, ":", "port">> => Client = <<a>>
        /\ \A a \in IPv6 : text = <<"[", a, "]", ":", "port">> => Client = <<a>>

-----------------------------------------------------------------------------

\* Whatever six digits a client types, exactly one draw makes them its code, so
\* that a guess is right with the same chance for every code.
EveryCodeOnce ==
    subject = "code" =>
        \A digits \in {Len(text), 0} :
            Len(text) = CodeLength(digits) =>
                Cardinality({n \in Draws(digits) : GenerateSecureOTP(digits, n) = text}) = 1
=============================================================================
