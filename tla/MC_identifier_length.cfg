\* Every constructor on every test string; the specification bounds the
\* length of an identifier in characters.
CONSTANTS
    Views <- TestViews
    NoCall = NoCall
SPECIFICATION Spec
INVARIANT IdentifierRuleHonoured
