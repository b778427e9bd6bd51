\* Two calls about two folders and a route.
CONSTANTS
  f1 = f1
  f2 = f2
  x = x
  y = y
  plain = plain
  dated = dated
  top = top
  sub = sub
  link = link
  gone = gone
  Path = {top, sub}
  Below <- TwoDirectories
  Given = {top, sub, link, gone}
  Resolved <- Names
  NoPath = NoPath
  Folder = {f1, f2}
  Route = {r1}
  NoRoute = NoRoute
  Dest = {x, y}
  AllowedDest = {x, y}
  Steps = {plain, dated}
  Creations <- SomeCreations
  Edits <- SomeEdits
  Taken = {f1}
  Call = {c1, c2}
  None = None
SPECIFICATION Spec
SYMMETRY CallSymmetry
PROPERTIES EditsCompose OldWorkDropped PathsChecked
