SPECIFICATION Spec
CONSTANTS
  p1 = p1
  p2 = p2
  Procs = {p1, p2}
  Providers = {"google"}
  Ids <- AllIds
  Tokens <- AllTokens
  MaxAttempts = 1
  MaxRequests = 3
  Ops = {"signup", "verify", "login", "reauth", "logout", "reset_request", "reset", "set_password", "toggle", "totp_setup", "totp_confirm", "totp_disable", "key_create", "key_revoke", "unlink", "oauth", "delete", "admin_delete"}
INVARIANTS
  TypeOK
  SecretProven
  PasswordChangeRevokes
  OneAccount
  NoOrphans
SYMMETRY Requests
CHECK_DEADLOCK FALSE
