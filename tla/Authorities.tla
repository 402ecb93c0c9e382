----------------------------- MODULE Authorities -----------------------------
(***************************************************************************)
(* What coapcore's security configurations accept, and which claims they   *)
(* give for it: scope.rs, time.rs, ace.rs, seccfg.rs, and the policies of  *)
(* ariel-os-coap (demo keys, stored peers).  Pure functions.               *)
(*                                                                         *)
(* A request is a pair of a code and the sequence of its path options; a   *)
(* scope is "AllowAll", "DenyAll" or the name of a set of AIF records.     *)
(* Claims are a scope, an expiration time and the importance.              *)
(* Cryptography is what it tells apart: a token is genuine or not.         *)
(***************************************************************************)
EXTENDS Integers, Sequences

CONSTANTS NoExp,      \* TimeConstraint::unbounded
          TokenOf     \* the tokens, by name


-----------------------------------------------------------------------------
(* Scopes and time.                                                        *)

(* AifValue of the demo configuration: GET of one resource is public, GET  *)
(* and FETCH of another is the administrator's.                            *)
AifValue ==
  [public |-> {[path |-> <<"hello">>, perms |-> {1}]},
   admin  |-> {[path |-> <<"hello">>, perms |-> {1}], [path |-> <<"stdout">>, perms |-> {1, 5}]}]

Scopes == {"AllowAll", "DenyAll"} \cup DOMAIN AifValue

(* request_is_allowed expects a request code, which is not 0, to compare   *)
(* it with the masks of AIF records; it panics otherwise.                  *)
CodePanics(scope, r) == scope \in DOMAIN AifValue /\ r.code = 0

(* request_is_allowed of the other codes.  A code beyond the 32 bits of a  *)
(* mask has none; the path of a record and the path of the request agree   *)
(* in all parts.                                                           *)
RequestIsAllowed(scope, r) ==
  \/ scope = "AllowAll"
  \/ /\ scope \in DOMAIN AifValue
     /\ \E a \in AifValue[scope] : r.code - 1 \in 0 .. 31 /\ r.code \in a.perms /\ a.path = r.path

NoClaims == [scope |-> "none", exp |-> 0, important |-> FALSE]
Claims(scope, exp, important) == [scope |-> scope, exp |-> exp, important |-> important]

(* TimeConstraint::is_valid_with: uncertainty benefits the client.         *)
IsValid(claims, now) == claims.exp = NoExp \/ claims.exp > now

-----------------------------------------------------------------------------
(* A policy is a record of what was configured: own (an own credential),   *)
(* tokens (PARSES_TOKENS), key31 and keyneg7 (keys of an AS), known and    *)
(* nosec (the scope of the known client and of unauthenticated ones).      *)

NoScope == "none"

ConfigBuilder ==
  [builder |-> TRUE, own |-> FALSE, tokens |-> TRUE, key31 |-> FALSE, keyneg7 |-> FALSE,
   known |-> NoScope, nosec |-> NoScope]

(* build_demo_ssc.                                                         *)
DemoKeys == [ConfigBuilder EXCEPT !.own = TRUE, !.known = "admin", !.nosec = "public"]

(* with_aif_symmetric_as_aesccm256, with_aif_asymmetric_es256: a builder   *)
(* that also trusts an authorization server.                               *)
WithAs == [ConfigBuilder EXCEPT !.own = TRUE, !.key31 = TRUE, !.keyneg7 = TRUE,
                                !.known = "admin"]

(* StoredPolicy.                                                           *)
Stored ==
  [ConfigBuilder EXCEPT !.builder = FALSE, !.own = TRUE, !.tokens = FALSE,
                        !.known = "admin", !.nosec = "public"]

PolicyOf == [demo |-> DemoKeys, as |-> WithAs, stored |-> Stored]

NosecAuthorization(p) == IF p.nosec = NoScope THEN NoClaims ELSE Claims(p.nosec, NoExp, FALSE)

(* expand_id_cred_x: the client is the known one, or it gives an unknown   *)
(* credential by value or by reference.  The builder returns early when it *)
(* knows no client.                                                        *)
Creds == {"known", "by_value", "by_reference"}

ExpandIdCred(p, cred) ==
  IF p.builder /\ p.known = NoScope THEN NoClaims
  ELSE IF cred = "known" THEN Claims(p.known, NoExp, p.builder)
  ELSE IF cred = "by_value" THEN NosecAuthorization(p)
  ELSE NoClaims

-----------------------------------------------------------------------------
(* Tokens: the form of the token, the algorithms of its unprotected and    *)
(* its protected header, whether the ciphertext or the signature verifies, *)
(* the audience, the confirmation key, scope and expiration.               *)

NoAlg == 0

(* HeaderMap::updated_with.                                                *)
UpdatedWith(self, other) == IF self # NoAlg THEN self ELSE other

Alg(tok) == UpdatedWith(tok.unprotected, tok.protected)

DecryptSymmetric(p, tok) == p.key31 /\ tok.genuine

VerifyAsymmetric(p, tok) == Alg(tok) = -7 /\ p.keyneg7 /\ tok.genuine /\ tok.aud

TokenClaims(tok) == Claims(tok.scope, tok.exp, FALSE)

(* process_acecbor_authz_info and process_edhoc_token: the claims of a     *)
(* token posted to authz-info, and of one in EAD_3.                        *)
AuthzInfoClaims(p, tok) ==
  IF tok.form = "encrypt0" /\ Alg(tok) = 31 /\ DecryptSymmetric(p, tok) /\ tok.cnf = "osc"
  THEN TokenClaims(tok) ELSE NoClaims

EdhocTokenClaims(p, tok) ==
  IF /\ \/ tok.form = "encrypt0" /\ DecryptSymmetric(p, tok)
        \/ tok.form = "sign1" /\ VerifyAsymmetric(p, tok)
     /\ tok.cnf = "key"
  THEN TokenClaims(tok) ELSE NoClaims
=============================================================================
