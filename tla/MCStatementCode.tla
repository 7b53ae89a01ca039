-------------------------- MODULE MCStatementCode --------------------------
EXTENDS StatementCode
MCStatements  == {"local", "eval", "assign", "if", "while", "repeat", "for", "forin",
                  "return"}
MCCalls       == {"local", "eval", "if", "assign"}
MCMethod      == {"value", "method"}
MCLoops       == {"local", "forin"}
MCExpressions == {"value", "and", "or", "bin", "call", "print", "table"}
MCValue       == {"value"}
=============================================================================
