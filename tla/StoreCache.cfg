SPECIFICATION Spec
CONSTANTS
  app = app
  lib = lib
  all = all
  solo = solo
  old = old
  new = new
  Bad = Bad
  None = None
  Member = {app, lib}
  Scope = {all, solo}
  MembersOf <- MCMembersOf
  Content = {old, new}
  Stamp = {1, 2}
  Federated = {all}
SYMMETRY Interchangeable
INVARIANTS
  NeverStale
  EntryMatchesDisk
