SPECIFICATION FairSpec
CONSTANTS
  Scanner = {s1}
  NoScanner = NoScanner
  File = {f1}
  Target = {A, B}
  FirstTarget = A
  NoTarget = NoTarget
  MaxVersion = 1
  TaskEvents = {"fail"}
  Prompt = TRUE
INVARIANT MarkDelivered
PROPERTIES NoSecondUpload  
