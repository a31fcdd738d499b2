SPECIFICATION FairSpec
CONSTANTS
  Workers = {w1, w2}
  UserIds = {u1, u2}
  Emails = {ann, bob}
  Passwords = {p1, p2}
  TokenIds = {t1, t2}
  None = None
INVARIANTS
  TypeOK
  EmailsAreUnique
  VerifiedByMail
  TokensVerifyOnce
PROPERTIES
  VerifiedSettles
  MailIsTakenUp
