----------------------------- MODULE MCCredentials -----------------------------
(***************************************************************************)
(* Instances of Credentials: a password account and a Gmail account, each  *)
(* backend with the failures it can meet.                                  *)
(***************************************************************************)
EXTENDS Credentials

MCKindOf == [a \in Accounts |-> IF a = "imap" THEN "password" ELSE "oauth2_google"]
FileConfig == [secrets |-> TRUE, backend |-> "unset", passphrase |-> "set", path |-> TRUE]
KeyringConfig == [secrets |-> FALSE, backend |-> "unset", passphrase |-> "unset", path |-> FALSE]

Scenario(hazards, ops, config) == [hazards |-> hazards, ops |-> ops, config |-> config]
SetImap == <<"account.set_secret", "imap">>
DeleteImap == <<"account.delete_secret", "imap">>
Consent == <<"oauth.google.complete", "gmail">>
Use == <<"credential", "gmail">>
Forget == <<"account.delete_secret", "gmail">>

MCCredentialScenarios ==
  {Scenario({"crash", "disk"}, {SetImap, DeleteImap, Consent}, FileConfig),
   Scenario({"cut", "crash", "disk"}, {SetImap, DeleteImap, Consent}, KeyringConfig),
   Scenario({"cut"}, {SetImap}, FileConfig),
   Scenario({"age", "google", "revoke", "disk"}, {Consent, Use, Forget}, KeyringConfig),
   Scenario({"age"}, {Consent, Use, SetImap}, FileConfig),
   Scenario({"accounts"}, {SetImap, <<"credential", "imap">>, Consent}, FileConfig)}

\* A worker refreshes the token while the user consents anew.
RefreshScenarios == {Scenario({"age"}, {Consent, Use}, KeyringConfig)}
=============================================================================
