---------------------------- MODULE MCSecContexts ----------------------------
EXTENDS SecContexts

Token(form, unprotected, genuine, aud, cnf) ==
  [form |-> form, unprotected |-> unprotected, protected |-> -7, genuine |-> genuine,
   aud |-> aud, cnf |-> cnf, scope |-> "admin", exp |-> 1]

(* A token for each profile, one that is not genuine, and one meant for    *)
(* another audience.                                                       *)
MCTokenOf == [osc    |-> Token("encrypt0", 31, TRUE, FALSE, "osc"),
              key    |-> Token("sign1", 0, TRUE, TRUE, "key"),
              forged |-> Token("encrypt0", 31, FALSE, FALSE, "osc"),
              other  |-> Token("sign1", 0, TRUE, FALSE, "key")]
=============================================================================
