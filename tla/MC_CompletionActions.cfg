CONSTANTS
    a1 = a1
    a2 = a2
    Actions <- MC_Actions
    Completions <- MC_Completions
SPECIFICATION Spec
INVARIANT TypeOK
PROPERTY RefinesCompletionSpec
