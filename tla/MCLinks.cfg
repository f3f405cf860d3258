SPECIFICATION Spec
CONSTANTS
  Owners = {me, other}
  Me = me
  Forms = {form, text, none}
  ByteForms = {text}
  NoForm = none
  MaxLinks = 2
  MaxEncryptions = 2
  MaxAccepted = 2
  MaxChanges = 1
INVARIANTS
  TypeOK
  MembersCanRead
  SentAsSigned
  CopiesAreFaithful
  NothingLeftEncrypted
  DecryptedIsClear
  ParentIsKnown
CHECK_DEADLOCK FALSE
