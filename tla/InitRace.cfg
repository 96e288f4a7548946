\* Two commands of the key tool: two inits, or an init and an issue.
SPECIFICATION KeygenSpec
CONSTANTS
  Runs = {r1, r2}
  Ids = {i1}
  Cut = Cut
  MaxKeys = 2
  MaxLicenses = 1
INVARIANTS ValidUntilDeleted
