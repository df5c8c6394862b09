-------------------------- MODULE MCRequestLifecycle --------------------------
(* Instances of RequestLifecycle for TLC.                                  *)
EXTENDS RequestLifecycle

CONSTANTS h1, h2, key1

BothStop == {"verification", "clarification"}
Alone    == {h1}
Pair     == {h1, h2}

Unkeyed(action) == [action |-> action, days |-> 0, key |-> NoKey]
Keyed(action)   == [action |-> action, days |-> 0, key |-> key1]
KeyedExtension  == [action |-> "extension", days |-> 2, key |-> key1]

(* Every action; the extension carries a key.                              *)
EveryCall == {Unkeyed(a) : a \in Actions \ {"extension"}} \cup {KeyedExtension}

VerificationCalls == {Unkeyed("verification_request"), Unkeyed("verification_approve"),
                      Unkeyed("refuse")}
KeyedVerification == {Keyed("verification_request")}

SomeAuthority == {"authority_submit", "authority_approve", "authority_reject"}
OneAuthority  == {"authority_approve"}
=============================================================================
