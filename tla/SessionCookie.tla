---------------------------- MODULE SessionCookie -----------------------------
(***************************************************************************)
(* How a session token travels: the Set-Cookie headers the handlers write, *)
(* the browser's cookie jar, and the two functions that pick the token of a*)
(* request out of its cookies and its Authorization header.                *)
(***************************************************************************)
EXTENDS Configuration

CONSTANT None       \* no token

\* A jar, and the Cookie header made of it: cookies in the order the browser
\* first stored them (RFC 6265, 5.4).  Name and domain identify a cookie.
Same(c, d) == c.name = d.name /\ c.domain = d.domain

\* r.Cookie(name): the value of the first cookie of that name.
Cookie(cookies, name) ==
    LET first == SelectInSeq(cookies, LAMBDA c : c.name = name)
    IN IF first = 0 THEN None ELSE cookies[first].value

\* How the browser follows a Set-Cookie header: no value means it has expired.
\* A jar holds one cookie of each name and domain.
Applied(jar, set) ==
    IF set.value = None THEN RemoveFirstMatch(jar, LAMBDA c : Same(c, set))
    ELSE IF \E i \in DOMAIN jar : Same(jar[i], set)
         THEN [i \in DOMAIN jar |-> IF Same(jar[i], set) THEN set ELSE jar[i]]
         ELSE Append(jar, set)

SecurePrefix(cfg) ==                                                \* mutant
    IF cfg.cookieSecure THEN "__Secure-session_token" ELSE "session_token"

cookieName(cfg) == IF cfg.cookieSecure THEN "__Host-session_token" ELSE "session_token"

\* A __Host- cookie names no domain.
cookieDomain(cfg) == IF cfg.cookieSecure THEN "" ELSE cfg.cookieDomain

\* Max-Age is the lifetime of a session: a negative one expires the cookie as it
\* is set, zero leaves Max-Age out and the browser keeps the cookie.
setSessionCookie(cfg, token) ==
    [name |-> cookieName(cfg), domain |-> cookieDomain(cfg),
     value |-> IF cfg.sessionTTL < 0 THEN None ELSE token]

ClearPlainCookie(cfg) ==                                            \* mutant
    [name |-> "session_token", domain |-> cookieDomain(cfg), value |-> None]

clearSessionCookie(cfg) ==
    [name |-> cookieName(cfg), domain |-> cookieDomain(cfg), value |-> None]

\* The first of some candidates that is there at all.
FirstOf(candidates) ==
    LET first == SelectInSeq(candidates, LAMBDA token : token # None)
    IN IF first = 0 THEN None ELSE candidates[first]

PlainCookieFirst(cfg, cookies, bearer) ==                           \* mutant
    FirstOf(<<Cookie(cookies, "session_token"), Cookie(cookies, cookieName(cfg)), bearer>>)

\* extractToken of the middleware: the cookie this configuration sets, then the
\* unprefixed one, whatever the configuration, then the Authorization header.
middlewareExtractToken(cfg, cookies, bearer) ==
    LET name == IF cfg.cookieSecure THEN "__Host-session_token" ELSE "session_token"
    IN FirstOf(<<Cookie(cookies, name), Cookie(cookies, "session_token"), bearer>>)

\* Its copy in the handlers, for sign-out.
extractToken(cfg, cookies, bearer) ==
    FirstOf(<<Cookie(cookies, cookieName(cfg)), Cookie(cookies, "session_token"), bearer>>)
=============================================================================
