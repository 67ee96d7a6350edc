\* Initialize, then Analyse over every vector of MCParserTrees.
CONSTANTS
    NoVal = NoVal
    Tables <- MCTables
    ParserTrees <- MCParserTrees
SPECIFICATION Spec
INVARIANT TypeOK
INVARIANT ValidStatementsAccepted
INVARIANT AcceptedTreesAnnotated
