----------------------------- MODULE SecContexts -----------------------------
(***************************************************************************)
(* The CoAP server's security layer: OscoreEdhocHandler of coapcore        *)
(* (seccontext.rs) with its pool of security contexts.  The server first   *)
(* extracts a request (extract_request_data) and later builds its response *)
(* (build_response).  Peers and the network send anything at any time:     *)
(* first messages, message 3 (also twice, or while it is in flight),       *)
(* tokens, requests under any key ID.                                      *)
(*                                                                         *)
(* A context has the identity of the key exchange it comes from (ses).  A  *)
(* peer that knows the keys of a session is told from one that does not by *)
(* whether its message verifies against the context the server looks up.   *)
(***************************************************************************)
EXTENDS Authorities, FiniteSets

CONSTANTS MAX_CONTEXTS,   \* capacity of the pool
          MaxInFlight,    \* requests extracted and not yet answered
          MaxTime,        \* bound on the clock
          PeerIds,        \* identifiers that peers choose for themselves
          Policies        \* names of security configurations

ASSUME PoolAssumption == MAX_CONTEXTS \in Nat \ {0} /\ MaxInFlight \in Nat

VARIABLES config,     \* the name of the ServerSecurityConfig
          pool,       \* OrderedPool of SecContextState
          now,        \* lower bound of the TimeProvider
          inflight,   \* RequestData of the extracted requests
          answer,     \* how the latest response was protected
          fault       \* a panic or a failed debug assertion

vars == <<config, pool, now, inflight, answer, fault>>

-----------------------------------------------------------------------------
(* SecContextState.                                                        *)

COwns == 0 .. MAX_CONTEXTS + 1
Sessions == COwns \X (0 .. MaxInFlight)
NoSession == <<>>
NoCOwn == -1

policy == PolicyOf[config]

(* Who the peer has shown to be: nobody, a credential or the holder of a   *)
(* token (kept to state what may be served; the code keeps the claims).    *)
Nobody == "nobody"
Tokens == DOMAIN TokenOf

(* The names of the tokens are not the ones of credentials.                *)
ASSUME NamesAssumption == Tokens \cap (Creds \cup {Nobody}) = {}

Empty == [stage |-> "Empty", ses |-> NoSession, cown |-> NoCOwn, same |-> FALSE, auth |-> NoClaims,
          who |-> Nobody]

(* same: the peer chose the same identifier for itself.                    *)
Context(stage, ses, cown, peer, auth, who) ==
  [stage |-> stage, ses |-> ses, cown |-> cown, same |-> peer = cown, auth |-> auth, who |-> who]

LEVEL_ADMIN == 0
LEVEL_AUTHENTICATED == 1
LEVEL_ONGOING == 2
LEVEL_EMPTY == 3

(* Mutant: administrators are not told from other peers.                   *)
SecLevelFlat(e) ==
  CASE e.stage = "Empty" -> LEVEL_EMPTY
    [] e.stage \in {"ProcessedM1", "SentM2"} -> LEVEL_ONGOING
    [] e.stage = "Oscore" -> LEVEL_AUTHENTICATED

SecLevel(e) ==
  CASE e.stage = "Empty" -> LEVEL_EMPTY
    [] e.stage \in {"ProcessedM1", "SentM2"} -> LEVEL_ONGOING
    [] e.stage = "Oscore" ->
         IF e.auth.important THEN LEVEL_ADMIN ELSE LEVEL_AUTHENTICATED

Pool == INSTANCE OrderedPool WITH N <- MAX_CONTEXTS, Level <- SecLevel

Contexts == {pool.entries[i] : i \in DOMAIN pool.entries} \ {Empty}

(* corresponding_cown() is Some(kid).                                      *)
WithCOwn(kid) == {i \in DOMAIN pool.entries : pool.entries[i].cown = kid}

(* cown_but_not, COwn::not_in_iter: the lowest free identifier.            *)
CownButNot(peer) ==
  LET used == {e.cown : e \in Contexts} \cup {peer}
  IN  CHOOSE n \in COwns : n \notin used /\ \A m \in 0 .. n - 1 : m \in used

(* A session nobody refers to any more.                                    *)
NewSession(c_r) ==
  LET used == {inflight[i].ses : i \in DOMAIN inflight}
      n == CHOOSE n \in 0 .. MaxInFlight : /\ <<c_r, n>> \notin used
                                          /\ \A m \in 0 .. n - 1 : <<c_r, m>> \in used
  IN  <<c_r, n>>

-----------------------------------------------------------------------------
(* Which handler a request is for, from its options in their order.        *)

Options == {"host", "oscore", "well-known", "edhoc-path", "authz-info", "path", "ace+cbor", "edhoc"}

(* Recognition::update: the next state, and whether the option is left for *)
(* ignore_elective_others.                                                 *)
Update(p, st, o) ==
  CASE st = "Start" /\ o = "oscore" -> <<"Oscore", FALSE>>
    [] st = "Start" /\ o = "well-known" -> <<"WellKnown", FALSE>>
    [] st = "Start" /\ o = "authz-info" /\ p.tokens -> <<"AuthzInfo", FALSE>>
    [] st = "Start" /\ o \in {"path", "well-known", "authz-info"} -> <<"Unencrypted", TRUE>>
    [] st = "Oscore" /\ o = "edhoc" -> <<"Edhoc", TRUE>>
    [] st = "WellKnown" /\ o = "edhoc-path" -> <<"WellKnownEdhoc", FALSE>>
    [] st = "AuthzInfo" /\ o = "ace+cbor" -> <<"AuthzInfo", FALSE>>
    [] OTHER -> <<st, TRUE>>

(* The options are visited up to the first critical one that is left, and  *)
(* all of these but the content format are critical.                       *)
Recognize(p, opts) ==
  LET after[i \in 0 .. Len(opts)] ==
        IF i = 0 THEN [st |-> "Start", error |-> FALSE]
        ELSE IF after[i - 1].error THEN after[i - 1]
        ELSE LET u == Update(p, after[i - 1].st, opts[i])
             IN  [st |-> u[1], error |-> u[2] /\ opts[i] # "ace+cbor"]
      r == after[Len(opts)]
  IN  IF r.st \in {"WellKnownEdhoc", "AuthzInfo"} /\ r.error THEN "Error" ELSE r.st

OptionLists ==
  {<<>>, <<"path">>, <<"host", "path">>, <<"well-known">>, <<"well-known", "edhoc-path">>,
   <<"well-known", "edhoc-path", "path">>, <<"authz-info", "ace+cbor">>, <<"authz-info", "path">>,
   <<"oscore">>, <<"oscore", "edhoc">>, <<"host", "oscore">>, <<"oscore", "path", "edhoc">>}

HandlersOf == [p \in DOMAIN PolicyOf |-> {Recognize(PolicyOf[p], opts) : opts \in OptionLists}]
Handlers == HandlersOf[config]

-----------------------------------------------------------------------------

Public == [code |-> 1, path |-> <<"hello">>]
Admin == [code |-> 5, path |-> <<"stdout">>]
Requests == {Public, Admin}

(* Inside OSCORE the peer chooses any code, also the one that is not a     *)
(* request's.  In the clear a message with the code 0 is an empty one,     *)
(* which the CoAP stack (external) answers without calling a handler.      *)
ZeroCode == [code |-> 0, path |-> <<"hello">>]
InnerRequests == Requests \cup {ZeroCode}

(* What a message that cannot be decrypted holds, and one that cannot be   *)
(* copied: its options are out of order, or it does not fit the buffer.    *)
NoRequest == [code |-> -1, path |-> <<>>]
NotCopied == [code |-> -2, path |-> <<>>]

(* Message 3: a token in EAD_3, the credential, and whether it verifies;   *)
(* NotCbor is a payload that does not begin with a CBOR byte string.       *)
NoToken == "none"
NoMessage3 == [tok |-> NoToken, cred |-> "none", verifies |-> FALSE]
NotCbor == [tok |-> NoToken, cred |-> "not_cbor", verifies |-> FALSE]
Unverified == [tok |-> NoToken, cred |-> "known", verifies |-> FALSE]
Messages3 ==
  {NotCbor, Unverified}
    \cup [tok : {NoToken}, cred : Creds, verifies : {TRUE}]
    \cup [tok : Tokens, cred : {"by_value"}, verifies : {TRUE}]

Item(kind, ses, kid, allowed, who, req) ==
  [kind |-> kind, ses |-> ses, kid |-> kid, allowed |-> allowed, who |-> who, req |-> req]

TypeOK ==
  /\ config \in Policies
  /\ pool.entries \in Seq([stage : {"Empty", "ProcessedM1", "SentM2", "Oscore"},
                           ses : Sessions \cup {NoSession}, cown : COwns \cup {NoCOwn},
                           same : BOOLEAN,
                           auth : [scope : Scopes \cup {NoScope}, exp : (0 .. MaxTime) \cup {NoExp},
                                   important : BOOLEAN],
                           who : {Nobody} \cup Creds \cup Tokens])
  /\ now \in 0 .. MaxTime
  /\ Len(inflight) <= MaxInFlight
  /\ fault \in {"none", "todo", "debug_assert", "panic"}

Init == /\ config \in Policies
        /\ pool = Pool!NewPool
        /\ now = 0
        /\ inflight = <<>>
        /\ answer = "none"
        /\ fault = "none"

-----------------------------------------------------------------------------
(* extract_request_data.  A request that fails changes nothing, except     *)
(* where the context it names was taken out of the pool already.  After a  *)
(* panic nothing is served any more: the panic handler ends in a loop.     *)

CanExtract == Len(inflight) < MaxInFlight /\ fault = "none"
Extracted(item) == inflight' = Append(inflight, item) /\ answer' = "none"

(* A request that is not encrypted.                                        *)
Plain(req) ==
  LET claims == NosecAuthorization(policy)
      allowed == claims # NoClaims /\ RequestIsAllowed(claims.scope, req) /\ IsValid(claims, now)
  IN  /\ CanExtract /\ Handlers \cap {"Start", "WellKnown", "Unencrypted"} # {}
      /\ Extracted(Item("Inner", NoSession, NoCOwn, allowed, Nobody, req))
      /\ UNCHANGED <<config, pool, now, fault>>

(* extract_edhoc: a message 1 without critical EAD.                        *)
Message1(peer) ==
  LET c_r == CownButNot(peer)
      ses == NewSession(c_r)
      e == Context("ProcessedM1", ses, c_r, peer, NosecAuthorization(policy), Nobody)
  IN  /\ CanExtract /\ "WellKnownEdhoc" \in Handlers /\ policy.own
      /\ pool' = Pool!ForceInsert(pool, e)
      /\ Extracted(Item("EdhocOkSend2", ses, c_r, TRUE, Nobody, Public))
      /\ UNCHANGED <<config, now, fault>>

(* extract_token.                                                          *)
PostToken(tok, peer) ==
  LET c_r == CownButNot(peer)
      ses == NewSession(c_r)
      claims == AuthzInfoClaims(policy, TokenOf[tok])
  IN  /\ CanExtract /\ "AuthzInfo" \in Handlers /\ claims # NoClaims
      /\ pool' = Pool!ForceInsert(pool, Context("Oscore", ses, c_r, peer, claims, tok))
      /\ Extracted(Item("ProcessedToken", ses, c_r, TRUE, Nobody, Public))
      /\ UNCHANGED <<config, now, fault>>

(* Mutant: the context keeps the authorization it had before message 3.    *)
ProcessMessage3Keeps(e, m3) ==
  IF m3 = NotCbor THEN Empty
  ELSE IF e.stage # "SentM2" THEN e
  ELSE IF ~m3.verifies THEN Empty
  ELSE [e EXCEPT !.stage = "Oscore", !.who = m3.cred]

(* process_edhoc_in_payload: the claims of a usable token in EAD_3, or of  *)
(* the credential.  A payload that is not CBOR fails whatever the stage    *)
(* is; otherwise a context that is no longer waiting for message 3 is left *)
(* as it is.  The result is Empty when processing fails.                   *)
ProcessMessage3(e, m3) ==
  LET token == IF m3.tok = NoToken THEN NoClaims ELSE EdhocTokenClaims(policy, TokenOf[m3.tok])
      claims == IF token # NoClaims THEN token ELSE ExpandIdCred(policy, m3.cred)
  IN  IF m3 = NotCbor THEN Empty
      ELSE IF e.stage # "SentM2" THEN e
      ELSE IF claims = NoClaims \/ ~m3.verifies THEN Empty
      ELSE [e EXCEPT !.stage = "Oscore", !.auth = claims,
                     !.who = IF token # NoClaims THEN m3.tok ELSE m3.cred]

(* Mutant: the context that was taken out is not put back.                 *)
PutBackNot(rest, e) == rest

PutBack(rest, e) == Pool!ForceInsert(rest, e)

(* extract_oscore_edhoc from the copy of the message on: e has been taken  *)
(* out of the pool, and rest is left.  A message that cannot be copied     *)
(* drops it; a request is authorized, or panics, while it is still out;    *)
(* then it goes back, also if the decryption has failed.                   *)
Unprotect(rest, e, kid, req) ==
  \/ /\ req = NotCopied
     /\ pool' = rest
     /\ UNCHANGED <<inflight, answer, fault>>
  \/ /\ CodePanics(e.auth.scope, req)
     /\ pool' = rest /\ fault' = "panic"
     /\ UNCHANGED <<inflight, answer>>
  \/ /\ req # NotCopied /\ ~CodePanics(e.auth.scope, req)
     /\ pool' = PutBack(rest, e)
     /\ fault' = IF Pool!IsFull(rest) /\ Pool!LastEntry(rest) # Empty THEN "debug_assert" ELSE fault
     /\ IF req = NoRequest THEN UNCHANGED <<inflight, answer>>
        ELSE Extracted(Item("EdhocOscoreRequest", e.ses, kid,
                            RequestIsAllowed(e.auth.scope, req), e.who, req))

(* extract_oscore_edhoc.  The context is taken out of the pool; every      *)
(* error before it goes back drops it, however long it was in use.  What   *)
(* message 3 holds matters only in the stage that waits for it.            *)
Protected(kid, m3) ==
  LET pass  == WithCOwn(kid)
      taken == Pool!FoundEntry(pool, pass)
      rest  == Pool!Put(pool, pass, Empty)
      e     == IF m3 = NoMessage3 THEN taken ELSE ProcessMessage3(taken, m3)
      usable == e.stage = "Oscore" /\ e.auth # NoClaims /\ IsValid(e.auth, now)
  IN  /\ CanExtract /\ Pool!Found(pool, pass)
      /\ (IF m3 = NoMessage3 THEN "Oscore" ELSE "Edhoc") \in Handlers
      /\ taken.stage = "SentM2" \/ m3 \in {NoMessage3, NotCbor, Unverified}
      /\ \/ /\ ~usable
            /\ pool' = rest
            /\ UNCHANGED <<inflight, answer, fault>>
         \/ /\ usable
            /\ \E req \in {NoRequest, NotCopied} \cup InnerRequests : Unprotect(rest, e, kid, req)
      /\ UNCHANGED <<config, now>>

-----------------------------------------------------------------------------
(* build_response.                                                         *)

First == Head(inflight)
CanBuild(kind) == inflight # <<>> /\ First.kind = kind /\ fault = "none"

(* The response, and whether it is protected with the session of the       *)
(* request.                                                                *)
Answered(how) == inflight' = Tail(inflight) /\ answer' = how

(* build_edhoc_message_2.  When prepare_message_2 fails the context is     *)
(* lost.                                                                   *)
BuildMessage2(prepared) ==
  LET pass == WithCOwn(First.kid)
      e    == Pool!FoundEntry(pool, pass)
  IN  /\ CanBuild("EdhocOkSend2")
      /\ IF ~Pool!Found(pool, pass) THEN pool' = pool /\ fault' = fault
         ELSE IF e.stage # "ProcessedM1" THEN pool' = pool /\ fault' = "todo"
         ELSE /\ pool' = Pool!Put(pool, pass, IF prepared THEN [e EXCEPT !.stage = "SentM2"]
                                              ELSE Empty)
              /\ fault' = fault
      /\ Answered("none")
      /\ UNCHANGED <<config, now>>

(* build_oscore_response: protected with the context found under the key   *)
(* ID of the request.                                                      *)
BuildOscore ==
  LET pass == WithCOwn(First.kid)
      e    == Pool!FoundEntry(pool, pass)
  IN  /\ CanBuild("EdhocOscoreRequest")
      /\ IF Pool!Found(pool, pass)
         THEN /\ pool' = Pool!Put(pool, pass, e)
              /\ Answered(IF e.stage = "Oscore" /\ e.ses = First.ses THEN "none" ELSE "wrong")
         ELSE pool' = pool /\ Answered("wrong")
      /\ UNCHANGED <<config, now, fault>>

(* The response to a token, and the inner handler's own.                   *)
BuildOther ==
  /\ CanBuild("ProcessedToken") \/ CanBuild("Inner")
  /\ Answered("none")
  /\ UNCHANGED <<config, pool, now, fault>>

(* Building a response reads no clock, so that it commutes with this step. *)
Tick == /\ now < MaxTime /\ inflight = <<>>
        /\ now' = now + 1
        /\ UNCHANGED <<config, pool, inflight, answer, fault>>

Next ==
  \/ Tick \/ BuildOscore \/ BuildOther
  \/ \E prepared \in BOOLEAN : BuildMessage2(prepared)
  \/ \E req \in Requests : Plain(req)
  \/ \E peer \in PeerIds : Message1(peer)
  \/ \E peer \in PeerIds, tok \in Tokens : PostToken(tok, peer)
  \/ \E kid \in COwns, m3 \in {NoMessage3} \cup Messages3 : Protected(kid, m3)

Spec == Init /\ [][Next]_vars

-----------------------------------------------------------------------------

(* The pool is what its type documents after any sequence of insertions,   *)
(* lookups that take an entry out, and level changes.                      *)
PoolOrdered == Pool!IsOrdered(pool)

(* A key ID names one context, and it is not the identifier that the peer  *)
(* of the context chose: a shared one would have both directions use the   *)
(* same nonces.                                                            *)
COwnsUnique ==
  \A i, j \in DOMAIN pool.entries :
    LET e == pool.entries[i]
    IN  e # Empty => ~e.same /\ (i # j => e.cown # pool.entries[j].cown)

(* A lookup by key ID finds one context, whatever was inserted, evicted or *)
(* taken out in between (OrderedPool and cown_but_not).                    *)
PoolSound == PoolOrdered /\ COwnsUnique

(* A token grants something when the authorization server made it, and, if *)
(* it is a signed one, made it for this server.                            *)
Grants(tok) == tok.genuine /\ (tok.form = "sign1" => tok.aud)

(* What the policy grants to a peer that has shown who it is.              *)
Granted(who) ==
  IF who = Nobody THEN NoClaims
  ELSE IF who \in Tokens THEN IF Grants(TokenOf[who]) THEN TokenClaims(TokenOf[who]) ELSE NoClaims
  ELSE ExpandIdCred(policy, who)

(* A request reaches the inner handler only with an authorization: in the  *)
(* clear within the unauthenticated scope; protected within the scope of   *)
(* the credential or the token its peer has verified, and before that      *)
(* expires.  The claims that a context had before message 3 are not used.  *)
Authorized ==
  \A i \in DOMAIN inflight :
    LET r == inflight[i]
        claims == IF r.kind = "Inner" THEN NosecAuthorization(policy) ELSE Granted(r.who)
    IN  r.kind \in {"Inner", "EdhocOscoreRequest"} /\ r.allowed =>
          /\ claims # NoClaims
          /\ RequestIsAllowed(claims.scope, r.req)
          /\ (claims.exp = NoExp \/ now < claims.exp)

(* The response to a protected request is protected, with the context that *)
(* the request was verified with: the context is back in the pool under    *)
(* the same key ID, or the server no longer answers.  The todo!() of       *)
(* build_edhoc_message_2 is not reached, and the debug assertion of        *)
(* extract_oscore_edhoc holds.  The one panic that is left is the expect() *)
(* of request_is_allowed: a peer with an AIF scope that sends the request  *)
(* code 0 inside OSCORE stops the server (CodePanics).                     *)
ResponseProtected ==
  fault \in {"none", "panic"} /\ answer # "wrong"

Worth(e) == IF e.stage # "Oscore" THEN 0 ELSE IF e.auth.important THEN 2 ELSE 1

(* Where the contexts are, and those that a step removes.                  *)
Occupied == {i \in DOMAIN pool.entries : pool.entries[i] # Empty}
Lost == {i \in Occupied : \A j \in Occupied' : pool'.entries[j].ses # pool.entries[i].ses}

(* A step removes at most one context and then leaves the other ones as    *)
(* they are; the context that gives way to a new one is of the least worth *)
(* (force_insert).  So no number of handshakes evicts the context of an    *)
(* authenticated peer while one that is not authenticated is there, and no *)
(* number of tokens the one of an administrator while another one is.  It  *)
(* can still be lost otherwise: by a request under its own key ID that     *)
(* extract_oscore_edhoc gives up before it puts the context back.          *)
EvictsLowest ==
  [][pool' # pool =>
       LET lost == Lost
       IN  /\ \A i, j \in lost : i = j
           /\ lost # {} => \A j \in Occupied \ lost : pool'.entries[j] = pool.entries[j]
           /\ Len(inflight') > Len(inflight) =>
                \A i \in lost, j \in Occupied : Worth(pool.entries[i]) <= Worth(pool.entries[j])]_vars
=============================================================================
