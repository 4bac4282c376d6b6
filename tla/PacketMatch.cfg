CONSTANTS
    Base = 2
    Width = 4
    Messages <- MCMessages
    Values <- MCValues
    Noise <- MCNoise
    Variables <- MCVariables
    Inputs <- MCInputs
    Exponents <- MCExponents
    Ids <- MCIds
    HiddenTables <- MCHidden
    Properties <- MCProperties
    Others <- MCOthers
SPECIFICATION ValuesSpec
INVARIANTS FirstThatFits ComposedIsFound KeysTellApart RowsTellAll SchemaFits
