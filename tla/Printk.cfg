CONSTANTS
    Conversions <- MCConversions
    Qualifiers <- MCQualifiers
SPECIFICATION Spec
INVARIANTS
    DirectiveRead
    ReadsInFormat
