SPECIFICATION Spec
CONSTANTS
  a = a  b = b
  MaxDoc = 2
  MaxPages = 2
  Tag <- TwoTags
  Preset = {}
  CarefulClient = TRUE
  Retitled = {2}
  Pdfs = {1}
  DaemonMayDie = TRUE
  WorkerMayDie = TRUE
INVARIANTS
  TagRowsHaveTag LinksBothWays ImagesHaveDocument PagesArePresent
   OffersUnlinked
PROPERTIES NewDocIsBlank ImplementsDocView
SYMMETRY Symmetry
