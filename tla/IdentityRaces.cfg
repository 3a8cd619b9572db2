\* Three requests of two subjects and people signing up; a local user has a name.
CONSTANTS
  Requests = {r1, r2, r3}
  Subs = {s1, s2}
  Bases = {b1, b2}
  b1 = b1
  Roles = {sales, staff}
  Groups = {sales}
  Local = local
  LocalName <- MCLocalName
  MaxSuffix = 3
  NoUser = NoUser
  NoName = NoName
  NoToken = NoToken
SPECIFICATION Spec
SYMMETRY Alike
INVARIANTS TypeOK OneUserPerSubject UsernamesDiffer
PROPERTY GroupsAreThoseOfTheToken
