SPECIFICATION Spec
CONSTANTS
  Names = {"real", "growth", "growth_"}
  Slug <- MCSlug
  Default = "real"
  DefaultDb = "rekt.db"
  Legacy <- MCLegacy
  q1 = q1
  q2 = q2
  Requests = {q1, q2}
  MaxCreated = 2
  MaxAdrift = 1
SYMMETRY Interchangeable
INVARIANTS NoOrderLeft FilesKept
PROPERTIES NoNewSharing
