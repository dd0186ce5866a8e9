-------------------------------- MODULE MCMfa --------------------------------
EXTENDS Mfa, TLC
CONSTANTS u1
Load(r, e, t) == [requests |-> r, enrolled |-> e, tokens |-> t]
Totp == <<u1, "totp">>
Passkey == <<u1, "passkey">>
Backup == <<u1, "backup_codes">>

\* The kinds of request that meet in one behaviour.
Together ==
  { Load({"totp"}, <<Totp>>, 4),
    Load({"otp", "resend"}, <<>>, 3),
    Load({"backup_codes", "low risk"}, <<Backup>>, 4),
    Load({"assert", "revoke"}, <<Totp, Passkey>>, 4),
    Load({"setup"}, <<>>, 3),
    Load({"passkey", "suspend", "stop"}, <<>>, 5),
    Load({"collision", "otp"}, <<>>, 3),
    Load({"collision", "setup"}, <<>>, 3) }

\* A login that collides with an account that has no strong factor yet.
Colliding == { Load({"collision", "setup", "passkey"}, <<>>, 3) }

Symmetry == Permutations(Clients)
=============================================================================
