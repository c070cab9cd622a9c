SPECIFICATION Spec
CONSTANTS
  Uris = {"a", "b"}
  Texts = {"s", "t"}
  MaxSent = 3
  PipeSize = 1
INVARIANTS
  TypeOK
  ResponsesConserved
  AnswersTrue
  DocumentsReplay
  QuiescentDiagnostics
PROPERTY EndsService
