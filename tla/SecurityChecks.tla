---------------------------- MODULE SecurityChecks ----------------------------
(***************************************************************************)
(* Declared security, from startup to the handler: the checks of           *)
(* AppDefinition::build (crates/blazingly-core), Security::build and the   *)
(* coverage check an application runs before it serves, then for each      *)
(* request the Security layers and the guard in front of the operation     *)
(* (crates/blazingly-security and blazingly-http, src/lib.rs).             *)
(*                                                                         *)
(* The application has one operation under a template of two segments; a   *)
(* credential is a token that its key verifies or not.                     *)
(***************************************************************************)
EXTENDS Naturals, Sequences, FiniteSets, SequencesExt

CONSTANTS
  Applications, \* [requirements, schemes, layers, optOut, checked], see below
  Presented,    \* [path, authorization, key, cookie], see below
  Template,     \* the operation's path
  Now, Skew,    \* the clock, and JwtValidation.leeway_seconds
  Unset

\* requirements: a sequence of [scheme, scopes]; schemes: a sequence of [name,
\* kind, scopes]; layers: a sequence of [security, verifies, prefix, verifiers],
\* verifiers a function from scheme names to [kind, mode].  optOut is
\* allow_unverified_security_schemes; checked, that main checks before serving.
\* What a request presents is Unset or a token [signed, exp, nbf, scopes];
\* authorization also has a scheme, "bearer", "basic" or "other".

\* A verifier is of one of four kinds; Unset is no status.
SecurityAssumption ==
  /\ \A a \in Applications :
       /\ a.requirements \in Seq(Range(a.requirements))
       /\ a.schemes \in Seq(Range(a.schemes)) /\ a.layers \in Seq(Range(a.layers))
       /\ \A l \in Range(a.layers) : \A n \in DOMAIN l.verifiers :
            l.verifiers[n].kind \in {"bearer", "basic", "apiKey", "session"}
  /\ Unset \notin {"200", "401", "403", "500"}

VARIABLES
  app, request,
  upto,      \* how far the application, then the request, has come
  place,     \* the layer whose on_operation is next
  context,   \* the SecurityContext in the request's extensions
  response   \* the status of the answer

securityVars == <<app, request, upto, place, context, response>>

SecurityInit ==
  /\ app \in Applications /\ request = Unset
  /\ upto = "built" /\ place = 1 /\ context = Unset /\ response = Unset

AnswerWith(status) == upto' = "answered" /\ response' = status

------------------------------------------------------------------------------
(* Startup *)

SchemeNamed(name) == SelectInSeq(app.schemes, LAMBDA s : s.name = name)

\* validate_operation_security: each scheme at most once, declared, and its
\* scopes among those an OAuth2 scheme declares; no other kind has any.
ContractIsValid ==
  /\ \A i, j \in 1 .. Len(app.requirements) :
       i # j => app.requirements[i].scheme # app.requirements[j].scheme
  /\ \A i \in 1 .. Len(app.requirements) :
       LET requirement == app.requirements[i]
           at == SchemeNamed(requirement.scheme) IN
       /\ at # 0
       /\ requirement.scopes \subseteq
            (IF app.schemes[at].kind = "oauth2" THEN app.schemes[at].scopes ELSE {})

\* Security::build.
VerifiersFit(l) == DOMAIN l.verifiers = {s.name : s \in Range(app.schemes)}

\* MiddlewareScope::matches_path, of a request's path or of the template.
CoversPath(l, path) == IsPrefix(l.prefix, path)

\* security_guard, and unverified_security with the template as its path.
Verified(path) ==
  \/ app.optOut \/ app.requirements = <<>>
  \/ \E i \in 1 .. Len(app.layers) : app.layers[i].verifies /\ CoversPath(app.layers[i], path)

Build ==
  /\ upto = "built"
  /\ upto' = IF ContractIsValid THEN "checked" ELSE "refused"
  /\ UNCHANGED <<app, request, place, context, response>>

\* Security::build of each layer and check_security_coverage, in an application
\* whose main runs them.
Check ==
  /\ upto = "checked"
  /\ upto' = IF app.checked =>
                /\ \A i \in 1 .. Len(app.layers) :
                     app.layers[i].security => VerifiersFit(app.layers[i])
                /\ Verified(Template)
           THEN "serving" ELSE "refused"
  /\ UNCHANGED <<app, request, place, context, response>>

\* A request whose path the template matches, routed to the operation.
Reach ==
  /\ upto = "serving" /\ upto' = "operation" /\ request' \in Presented
  /\ UNCHANGED <<app, place, context, response>>

------------------------------------------------------------------------------
(* Credentials *)

Identity(scopes) == [outcome |-> "ok", scopes |-> scopes]
Missing == [outcome |-> "missing", scopes |-> {}]
Invalid == [outcome |-> "invalid", scopes |-> {}]
Internal == [outcome |-> "internal", scopes |-> {}]

\* JwtHs256::verify_token and validate_claims with the default validation, which
\* requires an expiration.
VerifyToken(token) ==
  IF /\ token.signed
     /\ token.exp # Unset /\ Now <= token.exp + Skew
     /\ token.nbf # Unset => Now + Skew >= token.nbf
  THEN Identity(token.scopes) ELSE Invalid

VerifyBearer(r) ==
  IF r.authorization = Unset THEN Missing
  ELSE IF r.authorization.scheme # "bearer" THEN Invalid
  ELSE VerifyToken(r.authorization.token)

\* verify_password: the stored entry the pair matches.
VerifyBasic(r, kind) ==
  IF kind # "basic" THEN Internal
  ELSE IF r.authorization = Unset THEN Missing
  ELSE IF r.authorization.scheme = "basic" /\ r.authorization.token.signed
  THEN Identity(r.authorization.token.scopes) ELSE Invalid

VerifyApiKey(r, kind) ==
  IF kind # "apiKey" THEN Internal
  ELSE IF r.key = Unset THEN Missing
  ELSE IF r.key.signed THEN Identity({}) ELSE Invalid

VerifyCookie(r) == IF r.cookie = Unset THEN Missing ELSE VerifyToken(r.cookie)

Verify(verifier, kind) ==
  CASE verifier = "bearer" -> VerifyBearer(request)
    [] verifier = "basic" -> VerifyBasic(request, kind)
    [] verifier = "apiKey" -> VerifyApiKey(request, kind)
    [] verifier = "session" -> VerifyCookie(request)

------------------------------------------------------------------------------
(* Security::on_operation *)

\* Mutant: the scopes of an identity that is optional are not looked at.
AuthenticateUnscoped(requirement, kind, entry) ==
  LET identity == Verify(entry.kind, kind) IN
  IF identity.outcome = "internal" THEN "500"
  ELSE IF identity.outcome # "ok"
  THEN IF entry.mode = "Optional" THEN "anonymous" ELSE "401"
  ELSE IF entry.mode = "Required" /\ ~(requirement.scopes \subseteq identity.scopes)
  THEN "403" ELSE "authenticated"

\* authenticate: a scheme's outcome, a status when it rejects.
Authenticate(requirement, kind, entry) ==
  LET identity == Verify(entry.kind, kind)
      Refuse(status) == IF entry.mode = "Optional" THEN "anonymous" ELSE status IN
  IF identity.outcome = "internal" THEN "500"
  ELSE IF identity.outcome # "ok" THEN Refuse("401")
  ELSE IF requirement.scopes \subseteq identity.scopes THEN "authenticated"
  ELSE Refuse("403")

\* What one layer makes of one requirement.
Outcome(l, requirement) ==
  IF SchemeNamed(requirement.scheme) = 0 \/ requirement.scheme \notin DOMAIN l.verifiers
  THEN "500"
  ELSE Authenticate(requirement, app.schemes[SchemeNamed(requirement.scheme)].kind,
                    l.verifiers[requirement.scheme])

Rejects(outcome) == outcome \notin {"anonymous", "authenticated"}

\* on_operation of the next layer: the first requirement that is rejected
\* answers; otherwise the identities are put into the context, replacing those
\* of a layer before.
SecurityOnOperation ==
  /\ upto = "operation" /\ place <= Len(app.layers)
  /\ LET l == app.layers[place]
         outcomes == [i \in 1 .. Len(app.requirements) |-> Outcome(l, app.requirements[i])]
         rejected == SelectInSeq(outcomes, Rejects) IN
     IF ~l.security \/ ~CoversPath(l, request.path) \/ app.requirements = <<>>
     THEN UNCHANGED <<upto, context, response>>
     ELSE IF rejected # 0
     THEN AnswerWith(outcomes[rejected]) /\ UNCHANGED context
     ELSE /\ context' = {app.requirements[i].scheme :
                           i \in {i \in DOMAIN outcomes : outcomes[i] = "authenticated"}}
          /\ UNCHANGED <<upto, response>>
  /\ place' = place + 1
  /\ UNCHANGED <<app, request>>

\* security_guard
SecurityGuard ==
  /\ upto = "operation" /\ place > Len(app.layers)
  /\ IF Verified(request.path)
     THEN upto' = "handler" /\ UNCHANGED response
     ELSE AnswerWith("500")
  /\ UNCHANGED <<app, request, place, context>>

Handle ==
  /\ upto = "handler" /\ AnswerWith("200")
  /\ UNCHANGED <<app, request, place, context>>

SecurityNext == Build \/ Check \/ Reach \/ SecurityOnOperation \/ SecurityGuard \/ Handle

SecuritySpec == SecurityInit /\ [][SecurityNext]_securityVars

------------------------------------------------------------------------------
SecurityTypeOK ==
  /\ request = Unset \/ request \in Presented
  /\ upto \in {"built", "checked", "serving", "operation", "handler", "answered", "refused"}
  /\ place \in 1 .. Len(app.layers) + 1
  /\ response \in {Unset, "200", "401", "403", "500"}

\* What a scheme's credential is worth to its holder, whoever asks.
Holds(requirement, entry) ==
  LET kind == app.schemes[SchemeNamed(requirement.scheme)].kind
      identity == Verify(entry.kind, kind) IN
  identity.outcome = "ok" /\ requirement.scopes \subseteq identity.scopes

SecurityOnPath ==
  {l \in Range(app.layers) : l.security /\ CoversPath(l, request.path)}

\* The handler of an operation with requirements runs only if the application
\* opted out, relies on a layer that claims to verify by itself, or has a
\* Security layer that reaches the request, and then each requirement of each
\* such layer is held or optional.  The identities it sees are those that are
\* held.  And when the startup checks were run, with prefixes that mean the same
\* on the template and on the request and with verifiers of their schemes'
\* kinds, no request is answered with a server error.
AccessIsEarned ==
  /\ SecurityTypeOK
  /\ response = "200" /\ app.requirements # <<>> =>
       /\ \/ app.optOut \/ SecurityOnPath # {}
          \/ \E l \in Range(app.layers) : l.verifies /\ ~l.security
       /\ \A l \in SecurityOnPath : \A q \in Range(app.requirements) :
            \/ l.verifiers[q.scheme].mode = "Optional"
            \/ Holds(q, l.verifiers[q.scheme])
       /\ context # Unset => \A name \in context :
            \E l \in SecurityOnPath : \E q \in Range(app.requirements) :
              q.scheme = name /\ Holds(q, l.verifiers[name])
  /\ response = "500" /\ app.checked =>
       \/ \E l \in Range(app.layers) : CoversPath(l, request.path) # CoversPath(l, Template)
       \/ \E l \in SecurityOnPath : \E s \in Range(app.schemes) :
            Verify(l.verifiers[s.name].kind, s.kind) = Internal
===============================================================================
