-------------------------------- MODULE Config --------------------------------
(* config/mod.rs, config/secrets.rs and cloudflare.rs: where each secret      *)
(* comes from, which files are refused, and which token a domain gets.  A     *)
(* secret is represented by its origin: written in the file, or taken from a  *)
(* variable of the environment.  A domain is the sequence of its labels.      *)
EXTENDS Sequences, Naturals

CONSTANT Named      \* variables that a file may name, besides the defaults

Variable == {"NPM_PASSWORD", "CF_API_TOKEN"} \cup Named
None     == "none"
Origin   == {"literal"} \cup Variable

ASSUME ConfigAssumption == "literal" \notin Named /\ None \notin Named

(* A field and its _env twin.  Of a file only what resolve_secrets reads      *)
(* counts, a record of the pairs token, password and api, the table domains   *)
(* from domains to pairs, and three Booleans: email is given, mail, the       *)
(* letsencrypt_email, is not blank, and ssl is defaults.ssl.                  *)
Pair == [inline : BOOLEAN, env : Variable \cup {None}]

IsGiven(p) == p.inline \/ p.env # None
Both(p)    == p.inline /\ p.env # None

\* Broken: a variable that is set overrides what the file says.
OriginOverridden(p, default, env) ==
    IF default \in env THEN default
    ELSE IF p.inline THEN "literal" ELSE IF p.env # None THEN p.env ELSE default

\* SecretSource::from_pair for a pair that is not doubly given.  env, the
\* variables that are set, plays no part.
OriginOf(p, default, env) ==
    IF p.inline THEN "literal" ELSE IF p.env # None THEN p.env ELSE default

\* secrets::require: a variable that is set passes, if only to "".
Available(origin, env) == origin \in {"literal"} \cup env

Credential(f, env) ==
    IF IsGiven(f.token) THEN OriginOf(f.token, None, env)
    ELSE OriginOf(f.password, "NPM_PASSWORD", env)

\* A global token that is not available is as good as none, also when the
\* file names its variable.
Global(f, env) ==
    LET origin == OriginOf(f.api, "CF_API_TOKEN", env)
    IN  IF Available(origin, env) THEN <<"global", origin>> ELSE <<None>>

PerDomain(f, env) ==
    [k \in DOMAIN f.domains |-> <<k, OriginOf(f.domains[k], None, env)>>]

CredentialAccepted(f, env) ==
    /\ IsGiven(f.token) # f.email
    /\ ~Both(IF IsGiven(f.token) THEN f.token ELSE f.password)
    /\ Available(Credential(f, env), env)

DomainAccepted(p, env) ==
    /\ p.inline # (p.env # None)
    /\ Available(OriginOf(p, None, env), env)

SslAccepted(f, env) ==
    f.ssl => /\ Global(f, env) # <<None>> \/ DOMAIN f.domains # {}
             /\ f.mail

Accepted(f, env) ==
    /\ CredentialAccepted(f, env)
    /\ ~Both(f.api)
    /\ \A k \in DOMAIN f.domains : DomainAccepted(f.domains[k], env)
    /\ SslAccepted(f, env)

-----------------------------------------------------------------------------
(* TokenResolver and the request made with its token                          *)

\* d equals k or ends in .k.
Within(d, k) == \E n \in 1 .. Len(d) : k = SubSeq(d, n, Len(d))

\* Broken: the first match is taken, which is the shortest.
MatchShortest(keys, d) ==
    CHOOSE k \in {j \in keys : Within(d, j)} :
        \A j \in keys : Within(d, j) => Len(k) <= Len(j)

\* Of two ends of one domain the one with more labels has more characters.
MatchLongest(keys, d) ==
    CHOOSE k \in {j \in keys : Within(d, j)} :
        \A j \in keys : Within(d, j) => Len(j) <= Len(k)

ForDomain(global, perDomain, d) ==
    IF d \in DOMAIN perDomain THEN perDomain[d]
    ELSE IF \E k \in DOMAIN perDomain : Within(d, k)
         THEN perDomain[MatchLongest(DOMAIN perDomain, d)]
         ELSE global

\* What goes into a LetsEncryptRequest; nothing is requested without a token.
\* The address is blank when neither the file nor defaults.ssl asked for one.
CertRequest(f, env, d) ==
    LET token == ForDomain(Global(f, env), PerDomain(f, env), d)
    IN  IF token = <<None>> THEN << >>
        ELSE <<[domain |-> d, mail |-> f.mail, token |-> token]>>
=============================================================================
